------------------------ MODULE CVSFileItemsProofs ------------------------
(***************************************************************************)
(* Proofs about CVSFileItems, for every file that the parser may hand over *)
(* and every set of symbols: between two steps all links of the file hold, *)
(* a checkout yields what it yielded in the file as it was parsed, and the *)
(* finished file is one that the passes after it can work with.            *)
(*                                                                         *)
(* The links are restated as facts about pairs of items, which every       *)
(* operation either carries over or repairs; most operations delete items, *)
(* and one lemma serves them all.  The proof goes from the revisions of a  *)
(* line of development (which Revisions finds by following next_id) to one *)
(* lemma per operation and one per action.                                 *)
(***************************************************************************)
EXTENDS CVSFileItems, FiniteSetTheorems, NaturalsInduction, WellFoundedInduction, TLAPS

-----------------------------------------------------------------------------
(* Numbers and iteration.                                                  *)

\* A nonempty set of numbers has a least one.
LEMMA LeastNumber ==
  ASSUME NEW T \in SUBSET Nat, T # {}
  PROVE  \E x \in T : \A y \in T : x <= y
<1> DEFINE R == {p \in Nat \X Nat : p[1] < p[2]}
<1>1. IsWellFoundedOn(R, Nat)
  BY NatLessThanWellFounded DEF OpToRel
<1>2. \A x, y \in Nat : <<x, y>> \in R <=> x < y
  OBVIOUS
<1> HIDE DEF R
<1>3. PICK x \in T : \A y \in T : ~ (<<y, x>> \in R)
  BY <1>1, WFMin, Zenon
<1>4. ASSUME NEW y \in T PROVE x <= y
  <2>1. x \in Nat /\ y \in Nat /\ ~ (<<y, x>> \in R)
    BY <1>3
  <2> QED BY <1>2, <2>1
<1> QED BY <1>4

\* a begins with x and goes on with step, up to n.
IsWalk(a, X, step, x, n) ==
  a \in [0..n -> X] /\ a[0] = x /\ \A k \in 1..n : a[k] = step[a[k - 1]]

\* Of every length there is one walk.
LEMMA WalkExists ==
  ASSUME NEW X, NEW step \in [X -> X], NEW x \in X, NEW n \in Nat
  PROVE  \E a : IsWalk(a, X, step, x, n)
<1> DEFINE Bad == {m \in Nat : ~ \E a : IsWalk(a, X, step, x, m)}
<1> SUFFICES ASSUME Bad # {} PROVE FALSE
  OBVIOUS
<1>1. PICK m \in Bad : \A k \in Bad : m <= k
  BY LeastNumber
<1>2. m \in Nat /\ ~ \E a : IsWalk(a, X, step, x, m)
  OBVIOUS
<1>3. CASE m = 0
  <2>1. IsWalk([k \in 0..0 |-> x], X, step, x, 0)
    BY DEF IsWalk
  <2> QED BY <1>2, <1>3, <2>1
<1>4. CASE m # 0
  <2>1. m - 1 \in Nat /\ m - 1 \notin Bad
    BY <1>1, <1>2, <1>4
  <2>2. PICK a : IsWalk(a, X, step, x, m - 1)
    BY <2>1
  <2> DEFINE b == [k \in 0..m |-> IF k = m THEN step[a[m - 1]] ELSE a[k]]
  <2>3. a \in [0..(m - 1) -> X] /\ a[m - 1] \in X
    BY <2>1, <2>2 DEF IsWalk
  <2>4. ASSUME NEW k \in 1..m PROVE b[k] = step[b[k - 1]]
    BY <1>2, <2>2, <2>3 DEF IsWalk
  <2>5. IsWalk(b, X, step, x, m)
    BY <1>2, <1>4, <2>2, <2>3, <2>4 DEF IsWalk
  <2> QED BY <1>2, <2>5
<1> QED BY <1>3, <1>4

LEMMA WalkUnique ==
  ASSUME NEW X, NEW step \in [X -> X], NEW x \in X, NEW n \in Nat, NEW m \in Nat,
         NEW a, NEW b, IsWalk(a, X, step, x, n), IsWalk(b, X, step, x, m),
         NEW k \in Nat, k <= n, k <= m
  PROVE  a[k] = b[k]
<1> DEFINE Bad == {l \in Nat : l <= n /\ l <= m /\ a[l] # b[l]}
<1> SUFFICES ASSUME Bad # {} PROVE FALSE
  OBVIOUS
<1>1. PICK l \in Bad : \A j \in Bad : l <= j
  BY LeastNumber
<1> QED BY <1>1 DEF IsWalk

\* A function can be iterated without end.
Iterates(a, X, step, x) ==
  a \in [Nat -> X] /\ a[0] = x /\ \A n \in Nat : a[n + 1] = step[a[n]]

LEMMA Iterated ==
  ASSUME NEW X, NEW step \in [X -> X], NEW x \in X
  PROVE  \E a : Iterates(a, X, step, x)
<1> DEFINE walk(n) == CHOOSE a : IsWalk(a, X, step, x, n)
           it == [n \in Nat |-> walk(n)[n]]
<1>1. \A n \in Nat : IsWalk(walk(n), X, step, x, n)
  BY WalkExists
<1> HIDE DEF walk
<1>2. it \in [Nat -> X]
  BY <1>1 DEF IsWalk
<1>3. ASSUME NEW n \in Nat PROVE it[n + 1] = step[it[n]]
  <2>1. IsWalk(walk(n + 1), X, step, x, n + 1) /\ IsWalk(walk(n), X, step, x, n)
    BY <1>1
  <2>2. walk(n + 1)[n + 1] = step[walk(n + 1)[(n + 1) - 1]]
    BY <2>1 DEF IsWalk
  <2> QED BY <2>1, WalkUnique, <2>2
<1> QED BY <1>2, <1>1, <1>3 DEF Iterates, IsWalk

-----------------------------------------------------------------------------
(* The revisions of a line of development.                                 *)

\* Enough of a file for its next_ids to be followed.
Walkable(f) ==
  /\ None \notin Ids(f) /\ IsFiniteSet(Ids(f))
  /\ \A i \in Ids(f) : IsRev(f, i) /\ f.item[i].next_id # None =>
       /\ f.item[i].next_id \in Ids(f) /\ IsRev(f, f.item[i].next_id)
       /\ f.item[f.item[i].next_id].prev_id = i
  /\ PrevsEnd(f)

MayStart(f, s) ==
  FirstRev(f, s) # None => FirstRev(f, s) \in Ids(f) /\ IsRev(f, FirstRev(f, s))

\* What Revisions iterates.
NthRevision(f, s) ==
  CHOOSE at : at = [n \in Nat |->
    IF n = 0 THEN FirstRev(f, s)
    ELSE IF at[n - 1] = None THEN None ELSE f.item[at[n - 1]].next_id]

\* a lists the revisions from the first one, and None after the last.
Lists(a, f, s) ==
  /\ a \in [Nat -> {i \in Ids(f) : IsRev(f, i)} \cup {None}]
  /\ a[0] = FirstRev(f, s)
  /\ \A n \in Nat : a[n + 1] = IF a[n] = None THEN None ELSE f.item[a[n]].next_id

LEMMA NthRevisionLists ==
  ASSUME NEW f, NEW s, Walkable(f), MayStart(f, s)
  PROVE  /\ Lists(NthRevision(f, s), f, s)
         /\ Revisions(f, s) =
              {NthRevision(f, s)[n] : n \in 0..Cardinality(Ids(f))} \ {None}
<1> DEFINE X == {i \in Ids(f) : IsRev(f, i)} \cup {None}
           step == [i \in X |-> IF i = None THEN None ELSE f.item[i].next_id]
           Rec(at) == [n \in Nat |->
             IF n = 0 THEN FirstRev(f, s)
             ELSE IF at[n - 1] = None THEN None ELSE f.item[at[n - 1]].next_id]
<1>1. step \in [X -> X] /\ FirstRev(f, s) \in X
  BY DEF Walkable, MayStart
<1>2. \A i \in X : step[i] = IF i = None THEN None ELSE f.item[i].next_id
  OBVIOUS
<1> HIDE DEF X, step
<1>3. PICK a \in [Nat -> X] : a[0] = FirstRev(f, s) /\ \A n \in Nat : a[n + 1] = step[a[n]]
  <2>1. \E a : Iterates(a, X, step, FirstRev(f, s))
    BY <1>1, Iterated
  <2> QED BY <2>1 DEF Iterates
<1>4. a = Rec(a)
  BY <1>3, <1>2
<1>5. NthRevision(f, s) = Rec(NthRevision(f, s))
  BY <1>4 DEF NthRevision
<1> DEFINE at == NthRevision(f, s)
<1>6. /\ at[0] = FirstRev(f, s) /\ DOMAIN at = Nat
      /\ \A n \in Nat : at[n + 1] = IF at[n] = None THEN None ELSE f.item[at[n]].next_id
  BY <1>5
<1> HIDE DEF at
<1>7. \A n \in Nat : at[n] \in X
  <2> DEFINE Bad == {n \in Nat : at[n] \notin X}
  <2> SUFFICES ASSUME Bad # {} PROVE FALSE
    OBVIOUS
  <2>1. PICK n \in Bad : \A m \in Bad : n <= m
    BY LeastNumber
  <2>2. n - 1 \in Nat /\ at[n - 1] \in X /\ n = (n - 1) + 1
    BY <2>1, <1>1, <1>6
  <2> QED BY <1>1, <2>1, <2>2, <1>2, <1>6
<1> QED BY <1>6, <1>5, <1>7 DEF Lists, X, at, Revisions, NthRevision

\* Following next_id, one comes to the end within as many steps as there are items.
LEMMA ListEnds ==
  ASSUME NEW f, NEW s, Walkable(f), NEW a, Lists(a, f, s)
  PROVE  \E n \in 0..Cardinality(Ids(f)) : a[n] = None
<1> DEFINE N == Cardinality(Ids(f))
<1>1. N \in Nat
  BY FS_CardinalityType DEF Walkable
<1> SUFFICES ASSUME \A n \in 0..N : a[n] # None PROVE FALSE
  OBVIOUS
<1> DEFINE b == [n \in 0..N |-> a[n]]
<1>2. b \in [0..N -> Ids(f)]
  BY <1>1 DEF Lists
<1>3. IsFiniteSet(0..N) /\ Cardinality(0..N) = N + 1
  BY <1>1, FS_Interval
<1>4. PICK n, m \in 0..N : n # m /\ b[n] = b[m]
  <2>1. IsFiniteSet(Ids(f)) /\ Cardinality(Ids(f)) < Cardinality(0..N)
    BY <1>1, <1>3 DEF Walkable
  <2> HIDE DEF b, N
  <2> QED BY <1>2, <1>3, <2>1, FS_PigeonHole
<1>5. PICK k, l \in 0..N : k < l /\ a[k] = a[l]
  BY <1>4, <1>1
<1> DEFINE S == {a[j] : j \in k..l}
<1>6. S \in SUBSET {i \in Ids(f) : IsRev(f, i)} /\ S # {}
  BY <1>1, <1>5 DEF Lists
<1>7. ASSUME NEW j \in k..l PROVE f.item[a[j]].prev_id \in S
  <2>1. ASSUME NEW p \in k..l, p # k PROVE f.item[a[p]].prev_id = a[p - 1]
    BY <1>1, <1>5, <2>1 DEF Lists, Walkable
  <2>2. CASE j # k
    BY <1>1, <1>5, <2>2, <2>1
  <2>3. CASE j = k
    BY <1>1, <1>5, <2>1, <2>3
  <2> QED BY <2>2, <2>3
<1>8. PICK i \in S : f.item[i].prev_id \notin S
  BY <1>6 DEF Walkable, PrevsEnd
<1> QED BY <1>7, <1>8

\* The revisions of a line of development, from the first one to the last.
LEMMA RevisionsOf ==
  ASSUME NEW f, NEW s, Walkable(f), MayStart(f, s)
  PROVE  /\ Revisions(f, s) \subseteq {i \in Ids(f) : IsRev(f, i)}
         /\ FirstRev(f, s) = None => Revisions(f, s) = {}
         /\ FirstRev(f, s) # None => FirstRev(f, s) \in Revisions(f, s)
         /\ \A i \in Revisions(f, s) :
              /\ f.item[i].next_id # None => f.item[i].next_id \in Revisions(f, s)
              /\ i # FirstRev(f, s) =>
                   /\ f.item[i].prev_id \in Revisions(f, s)
                   /\ f.item[f.item[i].prev_id].next_id = i
              /\ f.item[i].next_id = None <=> i = LastRev(f, s)
         /\ Revisions(f, s) # {} => LastRev(f, s) \in Revisions(f, s)
<1> DEFINE N == Cardinality(Ids(f))
           R == Revisions(f, s)
           a == NthRevision(f, s)
           Stops == {n \in Nat : a[n] = None}
<1>1. Lists(a, f, s) /\ R = {a[n] : n \in 0..N} \ {None}
  BY NthRevisionLists
<1>2. N \in Nat
  BY FS_CardinalityType DEF Walkable
<1> HIDE DEF a, N, R
<1>3. PICK n \in 0..N : a[n] = None
  BY <1>1, ListEnds DEF N
<1>4. PICK m \in Stops : \A k \in Stops : m <= k
  <2>1. Stops \in SUBSET Nat /\ n \in Stops
    BY <1>2, <1>3
  <2> HIDE DEF Stops
  <2> QED BY <2>1, LeastNumber
<1>5. m \in Nat /\ m <= N /\ a[m] = None /\ \A k \in Nat : k < m => a[k] # None
  BY <1>2, <1>3, <1>4
<1>6. \A k \in Nat : k >= m => a[k] = None
  <2> DEFINE Bad == {k \in Nat : k >= m /\ a[k] # None}
  <2> SUFFICES ASSUME Bad # {} PROVE FALSE
    OBVIOUS
  <2>1. PICK k \in Bad : \A l \in Bad : k <= l
    BY LeastNumber
  <2>2. k - 1 \in Nat /\ k - 1 \notin Bad /\ k - 1 >= m /\ k = (k - 1) + 1
    BY <1>5, <2>1
  <2> QED BY <1>1, <2>1, <2>2 DEF Lists
<1> DEFINE K == {k \in Nat : k < m}
<1>7. R = {a[k] : k \in K}
  BY <1>1, <1>2, <1>5, <1>6
<1>8. \A k \in K : /\ a[k] \in Ids(f) /\ IsRev(f, a[k])
                   /\ f.item[a[k]].next_id = a[k + 1]
  BY <1>1, <1>5 DEF Lists
<1>9. ASSUME NEW k \in K, k # 0
      PROVE  k - 1 \in K /\ f.item[a[k - 1]].next_id = a[k] /\ f.item[a[k]].prev_id = a[k - 1]
  BY <1>5, <1>9, <1>8 DEF Walkable
<1>10. a[0] = FirstRev(f, s)
  BY <1>1 DEF Lists
<1>11. \A k \in K : f.item[a[k]].next_id = None <=> k = m - 1
  BY <1>5, <1>6, <1>8
<1>12. \A i \in R : f.item[i].next_id = None <=> i = a[m - 1]
  BY <1>7, <1>5, <1>11
<1>13. R # {} => a[m - 1] \in R /\ LastRev(f, s) = a[m - 1]
  BY <1>5, <1>7, <1>12 DEF LastRev, R
<1>14. ASSUME NEW i \in R
       PROVE  /\ f.item[i].next_id # None => f.item[i].next_id \in R
              /\ i # FirstRev(f, s) =>
                   f.item[i].prev_id \in R /\ f.item[f.item[i].prev_id].next_id = i
  BY <1>7, <1>5, <1>11, <1>8, <1>9, <1>10
<1>15. /\ FirstRev(f, s) = None => R = {}
       /\ FirstRev(f, s) # None => FirstRev(f, s) \in R
  BY <1>1, <1>2, <1>5, <1>6, <1>7, <1>10
<1>16. R \subseteq {i \in Ids(f) : IsRev(f, i)}
  BY <1>7, <1>8
<1> QED BY <1>12, <1>13, <1>14, <1>15, <1>16 DEF R

\* There is no revision of it that one does not come to from the first.
LEMMA RevisionsLeast ==
  ASSUME NEW f, NEW s, Walkable(f), MayStart(f, s), NEW S, FirstRev(f, s) \in S,
         \A i \in S : f.item[i].next_id \in Revisions(f, s) => f.item[i].next_id \in S
  PROVE  Revisions(f, s) \subseteq S
<1> DEFINE Rest == Revisions(f, s) \ S
<1> SUFFICES ASSUME Rest # {} PROVE FALSE
  OBVIOUS
<1>1. PICK i \in Rest : f.item[i].prev_id \notin Rest
  BY RevisionsOf DEF Walkable, PrevsEnd
<1> QED BY <1>1, RevisionsOf

-----------------------------------------------------------------------------
(***************************************************************************)
(* The links of a file, as facts about pairs of items, while every symbol  *)
(* sprouts from a revision.                                                *)
(***************************************************************************)
Shaped(f, U) ==
  /\ None \notin U /\ IsFiniteSet(U) /\ Ids(f) \subseteq U
  /\ f \in [item : [Ids(f) -> ItemRecord(U)], root : SUBSET U]

Classes(f) ==
  \A i \in Ids(f) :
    IF IsRev(f, i) THEN f.item[i].source_id = None
    ELSE /\ f.item[i].prev_id = None /\ f.item[i].first_on_branch_id = None
         /\ f.item[i].ntdbr_prev_id = None /\ f.item[i].ntdbr_next_id = None
         /\ f.item[i].branch_commit_ids = {} /\ ~f.item[i].ntdbr

Sprouting(f) ==
  \A i \in Ids(f) :
    /\ IsInjective(f.item[i].branch_ids)
    /\ \A t \in f.item[i].tag_ids :
         t \in Ids(f) /\ f.item[t].kind = "tag" /\ f.item[t].source_id = i
    /\ \A b \in ToSet(f.item[i].branch_ids) :
         b \in Ids(f) /\ IsBranch(f, b) /\ f.item[b].source_id = i

Sprouts(f) ==
  \A i \in Ids(f) : ~IsRev(f, i) =>
    LET source == f.item[i].source_id
    IN  /\ source \in Ids(f) /\ IsRev(f, source)
        /\ f.item[i].source_lod = f.item[source].lod
        /\ i \in IF IsBranch(f, i) THEN ToSet(f.item[source].branch_ids)
                 ELSE f.item[source].tag_ids

Follows(f, i, j) ==
  /\ j \in Ids(f) /\ IsRev(f, j) /\ f.item[j].prev_id = i
  /\ f.item[j].first_on_branch_id = None /\ f.item[j].lod = f.item[i].lod
Begins(f, b, j) ==
  /\ IsBranch(f, b) /\ j \in Ids(f) /\ IsRev(f, j)
  /\ f.item[j].first_on_branch_id = b /\ f.item[j].lod = f.item[b].symbol

Nexts(f) ==
  \A i \in Ids(f) : f.item[i].next_id # None =>
    IF IsRev(f, i) THEN Follows(f, i, f.item[i].next_id) ELSE Begins(f, i, f.item[i].next_id)

Prevs(f) ==
  \A j \in Ids(f) : IsRev(f, j) =>
    LET p == f.item[j].prev_id
        b == f.item[j].first_on_branch_id
    IN  IF b = None
        THEN p # None => p \in Ids(f) /\ IsRev(f, p) /\ f.item[p].next_id = j
        ELSE b \in Ids(f) /\ IsBranch(f, b) /\ f.item[b].next_id = j /\ f.item[b].source_id = p

Commits(f) ==
  \A i \in Ids(f) : IsRev(f, i) =>
    f.item[i].branch_commit_ids =
      {j \in Ids(f) : /\ IsRev(f, j) /\ f.item[j].first_on_branch_id # None
                      /\ f.item[j].prev_id = i}

NtdbrPairs(f) ==
  \A i \in Ids(f) :
    LET next == f.item[i].ntdbr_next_id
        prev == f.item[i].ntdbr_prev_id
    IN  /\ next # None => /\ f.item[i].ntdbr
                          /\ next \in Ids(f) /\ f.item[next].ntdbr_prev_id = i
        /\ prev # None => prev \in Ids(f) /\ f.item[prev].ntdbr_next_id = i

PredLive(f) ==
  \A i \in Ids(f) : IsRev(f, i) =>
    LET p == EffectivePrev(f.item[i])
    IN  f.item[i].pred_live = (p # None /\ f.item[p].live)

Roots(f) == f.root = {i \in Ids(f) : IsRev(f, i) /\ f.item[i].prev_id = None}

Linked(f, U) ==
  /\ Shaped(f, U) /\ Classes(f) /\ Sprouting(f) /\ Sprouts(f) /\ Nexts(f) /\ Prevs(f)
  /\ Commits(f) /\ NtdbrPairs(f) /\ PredLive(f) /\ Roots(f) /\ PrevsEnd(f)

\* The type of an item's record.
LEMMA ShapedItem ==
  ASSUME NEW f, NEW U, Shaped(f, U), NEW i \in Ids(f)
  PROVE  f.item[i] \in ItemRecord(U)
BY DEF Shaped, Ids

LEMMA LinkedWalkable ==
  ASSUME NEW f, NEW U, Linked(f, U)
  PROVE  Walkable(f)
BY FS_Subset DEF Linked, Shaped, Walkable, Nexts, Follows

\* Where iter_lods() says that an LOD starts, one may follow next_id.
LEMMA LinkedStarts ==
  ASSUME NEW f, NEW U, Linked(f, U), NEW s \in Ids(f)
  PROVE  MayStart(f, s)
BY DEF MayStart, FirstRev, Linked, Nexts, Begins

-----------------------------------------------------------------------------
(* Where a symbol's content comes from.                                    *)

IsSource(h, f) ==
  h = [j \in Ids(f) |-> IF IsRev(f, j) THEN j ELSE h[f.item[j].source_id]]

\* Symbols do not sprout from one another in a circle.
Founded(f) ==
  /\ \A i \in Ids(f) : ~IsRev(f, i) => f.item[i].source_id \in Ids(f)
  /\ \A S \in SUBSET {i \in Ids(f) : ~IsRev(f, i)} :
       S # {} => \E i \in S : f.item[i].source_id \notin S

LEMMA SourceUnique ==
  ASSUME NEW f, NEW g, NEW h, IsSource(g, f), IsSource(h, f), Founded(f)
  PROVE  g = h
<1> DEFINE S == {j \in Ids(f) : g[j] # h[j]}
<1>1. \A j \in Ids(f) : /\ g[j] = IF IsRev(f, j) THEN j ELSE g[f.item[j].source_id]
                        /\ h[j] = IF IsRev(f, j) THEN j ELSE h[f.item[j].source_id]
  BY DEF IsSource
<1>2. S \in SUBSET {i \in Ids(f) : ~IsRev(f, i)}
  BY <1>1
<1>3. S = {}
  BY <1>2, <1>1 DEF Founded
<1> QED BY <1>3 DEF IsSource

\* RevisionSource is the one function that looks where IsSource looks.
LEMMA SourceOf ==
  ASSUME NEW f, NEW h, IsSource(h, f), Founded(f)
  PROVE  \A i \in Ids(f) : RevisionSource(f, i) = h[i]
BY SourceUnique DEF RevisionSource, IsSource

LEMMA FlatSources ==
  ASSUME NEW f,
         \A i \in Ids(f) : ~IsRev(f, i) =>
           f.item[i].source_id \in Ids(f) /\ IsRev(f, f.item[i].source_id)
  PROVE  /\ Founded(f)
         /\ \E h : IsSource(h, f)
         /\ \A i \in Ids(f) : RevisionSource(f, i) = IF IsRev(f, i) THEN i ELSE f.item[i].source_id
<1> DEFINE h == [i \in Ids(f) |-> IF IsRev(f, i) THEN i ELSE f.item[i].source_id]
<1>1. IsSource(h, f)
  BY DEF IsSource
<1> QED BY <1>1, SourceOf DEF Founded

LEMMA LinkedSources ==
  ASSUME NEW f, NEW U, Linked(f, U)
  PROVE  /\ Founded(f)
         /\ \E h : IsSource(h, f)
         /\ \A i \in Ids(f) : RevisionSource(f, i) = IF IsRev(f, i) THEN i ELSE f.item[i].source_id
BY FlatSources DEF Linked, Sprouts

\* A branch's first revision is the only revision that commits to the branch.
LEMMA LinkedCommits ==
  ASSUME NEW f, NEW U, Linked(f, U), NEW i \in Ids(f), IsRev(f, i)
  PROVE  f.item[i].branch_commit_ids =
           {f.item[b].next_id : b \in {b \in Ids(f) : IsBranch(f, b)
                                         /\ RevisionSource(f, b) = i}} \ {None}
BY LinkedSources DEF IsBranch, IsRev, Linked, Prevs, Shaped, Nexts, Begins, Commits

\* A linked file is what check_links() wants it to be.
LEMMA LinkedHolds ==
  ASSUME NEW f, NEW U, Linked(f, U)
  PROVE  LinksHold(f)
<1> USE DEF Linked
<1>1. RefsExist(f)
  <2> USE DEF RefsExist
  <2> TAKE i \in Ids(f)
  <2>1. CASE IsRev(f, i)
    <3>1. /\ f.item[i].source_id = None /\ f.item[i].next_id \in Ids(f) \cup {None}
          /\ f.item[i].first_on_branch_id \in Ids(f) \cup {None}
          /\ f.item[i].branch_commit_ids \subseteq Ids(f)
      BY <2>1 DEF Classes, Nexts, Follows, Prevs, Commits
    <3> QED BY <2>1, <3>1 DEF NtdbrPairs, Sprouting, Prevs, Sprouts, IsRev, IsBranch
  <2>2. CASE ~IsRev(f, i)
    BY <2>2 DEF Classes, Sprouts, Nexts, Begins, Sprouting
  <2> QED BY <2>1, <2>2
<1>2. ASSUME NEW i \in Ids(f) PROVE SproutLinks(f, i)
  BY DEF Sprouts, LodAt, SproutLinks, Sprouting, IsRev, IsBranch
<1>3. ASSUME NEW i \in Ids(f), ~IsRev(f, i) PROVE SymbolLinks(f, i)
  BY <1>3 DEF SymbolLinks, Sprouts, Nexts, Begins, LodAt
<1>4. ASSUME NEW i \in Ids(f), IsRev(f, i) PROVE RevisionLinks(f, i)
  <2> DEFINE r == f.item[i]
             branch == r.first_on_branch_id
  <2>1. branch # None =>
          /\ IsBranch(f, branch)
          /\ f.item[branch].symbol = r.lod /\ f.item[branch].next_id = i
          /\ RevisionSource(f, branch) = r.prev_id
          /\ i \in f.item[r.prev_id].branch_commit_ids
    <3> SUFFICES ASSUME branch # None
                 PROVE  /\ IsBranch(f, branch)
                        /\ f.item[branch].symbol = r.lod /\ f.item[branch].next_id = i
                        /\ RevisionSource(f, branch) = r.prev_id
                        /\ i \in f.item[r.prev_id].branch_commit_ids
      OBVIOUS
    <3>1. /\ branch \in Ids(f) /\ IsBranch(f, branch) /\ ~IsRev(f, branch)
          /\ f.item[branch].next_id = i /\ f.item[branch].source_id = r.prev_id
      BY <1>4 DEF Prevs, IsBranch, IsRev
    <3> QED BY <3>1, LinkedSources, <1>4 DEF Nexts, Begins, Shaped, Commits, Sprouts
  <2>2. branch = None /\ r.prev_id # None =>
          f.item[r.prev_id].next_id = i /\ f.item[r.prev_id].lod = r.lod
    BY <1>4 DEF Prevs, Nexts, Follows, Shaped
  <2>3. r.next_id # None =>
          f.item[r.next_id].prev_id = i /\ f.item[r.next_id].lod = r.lod
    BY <1>4 DEF Nexts, Follows
  <2> QED
    BY <1>4, <2>1, <2>2, <2>3, LinkedCommits DEF RevisionLinks, Roots, NtdbrPairs, PredLive
<1> QED BY <1>1, <1>2, <1>3, <1>4 DEF LinksHold, Roots

-----------------------------------------------------------------------------
(***************************************************************************)
(* The revisions that CVS's default branch put on trunk are the first ones *)
(* of one LOD; the trunk goes on with 1.2, which follows the same revision *)
(* as the first of them.                                                   *)
(***************************************************************************)
IsNtdbStart(f, t) ==
  /\ t \in Ids(f) /\ f.item[t].ntdbr
  /\ f.item[t].prev_id = None \/ f.item[t].first_on_branch_id # None

NtdbrsFirst(f) ==
  \A i \in Ids(f) :
    /\ f.item[i].ntdbr => f.item[i].lod # Trunk
    /\ IsRev(f, i) /\ f.item[i].next_id # None /\ f.item[f.item[i].next_id].ntdbr =>
         f.item[i].ntdbr /\ f.item[i].ntdbr_next_id = None

NtdbStarts(f) ==
  \A t \in Ids(f) : IsNtdbStart(f, t) =>
    /\ \A u \in Ids(f) : IsNtdbStart(f, u) => u = t
    /\ LET p == f.item[t].prev_id
       IN  p # None => /\ f.item[p].lod = Trunk
                       /\ f.item[p].next_id # None => f.item[f.item[p].next_id].ntdbr_prev_id # None

Rev12(f) ==
  \A k \in Ids(f) : f.item[k].ntdbr_prev_id # None =>
    /\ f.item[k].first_on_branch_id = None /\ f.item[k].lod = Trunk
    /\ ~f.item[k].is_rev_1_1 /\ f.item[k].log # "added on branch"
    /\ \A t \in Ids(f) : IsNtdbStart(f, t) => f.item[k].prev_id = f.item[t].prev_id

NtdbLinked(f) == NtdbrsFirst(f) /\ NtdbStarts(f) /\ Rev12(f)

\* Symbols have names of symbols, each another one.
Named(f) ==
  /\ \A i \in Ids(f) : ~IsRev(f, i) => f.item[i].symbol \in Symbols
  /\ \A i, j \in Ids(f) : i # j /\ ~IsRev(f, i) /\ ~IsRev(f, j) => f.item[i].symbol # f.item[j].symbol

\* The file as the parser hands it over.
ParsedFile(p) == [item |-> p.item, root |-> RootIds(p)]

LEMMA ParsedFacts ==
  ASSUME NEW p \in Parsed, NEW f, f = ParsedFile(p)
  PROVE  /\ ParsedLinks(f) /\ Ids(f) = DOMAIN p.item /\ f.item = p.item
         /\ Shaped(f, DOMAIN p.item) /\ Roots(f) /\ Named(f)
<1>1. IsParsed(p) /\ \A i \in DOMAIN p.item : p.item[i].kind # "revision" => p.item[i].symbol \in Symbols
  BY ParsedAssumption
<1>2. Ids(f) = DOMAIN p.item /\ f.item = p.item
  BY DEF ParsedFile, Ids
<1>3. ParsedLinks(f) /\ None \notin Ids(f) /\ IsFiniteSet(Ids(f)) /\ f.item \in [Ids(f) -> ItemRecord(Ids(f))]
  BY <1>1, <1>2 DEF IsParsed, ParsedFile, RootIds
<1>4. Named(f)
  <2>1. \A i \in Ids(f) : ~IsRev(f, i) => f.item[i].symbol \in Symbols
    BY <1>1, <1>2 DEF IsRev
  <2>2. \A i, j \in Ids(f) : i # j /\ f.item[i].symbol # None => f.item[i].symbol # f.item[j].symbol
    BY <1>3 DEF ParsedLinks
  <2> QED BY <2>1, <2>2, NamesAssumption DEF Named
<1> QED BY <1>2, <1>3, <1>4 DEF ParsedFile, Shaped, Roots, RootIds, IsRev

\* What the parser hands over is linked, and has no NTDB revisions yet.
LEMMA ParsedLinked ==
  ASSUME NEW p \in Parsed, NEW f, f = ParsedFile(p)
  PROVE  /\ Linked(f, DOMAIN p.item)
         /\ \A i \in Ids(f) : ~f.item[i].ntdbr /\ f.item[i].ntdbr_prev_id = None
                                              /\ f.item[i].ntdbr_next_id = None
<1>1. LinksHold(f) /\ PrevsEnd(f) /\ Shaped(f, DOMAIN p.item) /\ Roots(f)
  BY ParsedFacts DEF ParsedLinks
<1>2. \A i \in Ids(f) :
         /\ OfItsClass(f, i) /\ ~f.item[i].ntdbr /\ IsInjective(f.item[i].branch_ids)
         /\ IsRev(f, i) /\ f.item[i].next_id # None =>
              f.item[f.item[i].next_id].first_on_branch_id = None
  BY ParsedFacts DEF ParsedLinks
<1>3. \A i \in Ids(f) :
        /\ {f.item[i].prev_id, f.item[i].next_id, f.item[i].first_on_branch_id,
            f.item[i].ntdbr_prev_id, f.item[i].ntdbr_next_id, f.item[i].source_id}
              \subseteq Ids(f) \cup {None}
        /\ f.item[i].tag_ids \cup ToSet(f.item[i].branch_ids)
             \cup f.item[i].branch_commit_ids \subseteq Ids(f)
  BY <1>1 DEF LinksHold, RefsExist
<1>4. \A i \in Ids(f) : IsRev(f, i) => RevisionLinks(f, i)
  BY <1>1 DEF LinksHold
<1>5. \A i \in Ids(f) : ~IsRev(f, i) => SymbolLinks(f, i)
  BY <1>1 DEF LinksHold
<1>6. \A i \in Ids(f) : ~IsRev(f, i) =>
        f.item[i].source_id \in Ids(f) /\ IsRev(f, f.item[i].source_id)
  BY <1>2, <1>3 DEF OfItsClass
<1>7. Sprouts(f)
  BY <1>5, <1>6 DEF Sprouts, SymbolLinks, LodAt
<1>8. \A i \in Ids(f) : ~f.item[i].ntdbr /\ f.item[i].ntdbr_prev_id = None
                                        /\ f.item[i].ntdbr_next_id = None
  BY <1>2, <1>4, <1>3, <1>1 DEF OfItsClass, RevisionLinks, Shaped
<1>9. Classes(f)
  BY <1>2 DEF Classes, OfItsClass
<1>10. Sprouting(f)
  BY <1>2, <1>3, <1>1 DEF Sprouting, SproutLinks, LinksHold
<1>11. \A i \in Ids(f) : IsRev(f, i) =>
         LET b == f.item[i].first_on_branch_id
         IN  b # None => /\ b \in Ids(f) /\ IsBranch(f, b) /\ f.item[b].symbol = f.item[i].lod
                         /\ f.item[b].next_id = i /\ f.item[b].source_id = f.item[i].prev_id
  BY <1>3, <1>4, <1>6, FlatSources DEF RevisionLinks, IsBranch, IsRev
<1>12. Nexts(f)
  <2> SUFFICES ASSUME NEW i \in Ids(f), f.item[i].next_id # None
               PROVE  IF IsRev(f, i) THEN Follows(f, i, f.item[i].next_id)
                                     ELSE Begins(f, i, f.item[i].next_id)
    BY DEF Nexts
  <2> DEFINE j == f.item[i].next_id
  <2>1. j \in Ids(f)
    BY <1>3
  <2>2. CASE IsRev(f, i)
    BY <1>4, <2>2, <1>2, <1>1, <2>1 DEF RevisionLinks, OfItsClass, Shaped, Follows
  <2>3. CASE ~IsRev(f, i)
    <3>1. f.item[j].lod = f.item[i].symbol /\ f.item[j].first_on_branch_id = i
      BY <1>5, <2>3 DEF SymbolLinks
    <3>2. IsRev(f, j)
      BY <1>1, <1>2, <2>1, <3>1 DEF OfItsClass, Shaped
    <3> QED BY <2>1, <2>3, <3>1, <3>2, <1>1, <1>4 DEF Begins, RevisionLinks, Shaped
  <2> QED BY <2>2, <2>3
<1>13. Prevs(f)
  BY <1>11, <1>3, <1>4, <1>1, <1>5 DEF Prevs, RevisionLinks, SymbolLinks, Shaped
<1>14. Commits(f)
  <2> SUFFICES ASSUME NEW i \in Ids(f), IsRev(f, i)
               PROVE  f.item[i].branch_commit_ids =
                        {j \in Ids(f) : /\ IsRev(f, j) /\ f.item[j].first_on_branch_id # None
                                        /\ f.item[j].prev_id = i}
    BY DEF Commits
  <2> DEFINE B == {b \in Ids(f) : IsBranch(f, b) /\ RevisionSource(f, b) = i}
  <2>1. f.item[i].branch_commit_ids = {f.item[b].next_id : b \in B} \ {None}
    BY <1>4 DEF RevisionLinks
  <2>2. \A b \in B : b \in Ids(f) /\ ~IsRev(f, b) /\ f.item[b].source_id = i
    BY <1>6, FlatSources DEF IsBranch, IsRev
  <2> HIDE DEF B
  <2>3. ASSUME NEW b \in B, f.item[b].next_id # None
        PROVE  LET j == f.item[b].next_id
               IN  /\ j \in Ids(f) /\ IsRev(f, j) /\ f.item[j].first_on_branch_id # None
                   /\ f.item[j].prev_id = i
    BY <1>12, <2>2, <2>3, <1>1, <1>11 DEF Nexts, Begins, Shaped
  <2>4. ASSUME NEW j \in Ids(f), IsRev(f, j), f.item[j].first_on_branch_id # None,
               f.item[j].prev_id = i
        PROVE  f.item[j].first_on_branch_id \in B /\ f.item[f.item[j].first_on_branch_id].next_id = j
    BY <1>11, <2>4, <1>4 DEF RevisionLinks, B
  <2> QED BY <2>1, <2>3, <2>4, <1>1 DEF Shaped
<1>15. NtdbrPairs(f)
  BY <1>8 DEF NtdbrPairs
<1>16. PredLive(f)
  BY <1>4 DEF PredLive, RevisionLinks
<1> QED BY <1>1, <1>7, <1>8, <1>9, <1>10, <1>12, <1>13, <1>14, <1>15, <1>16 DEF Linked

-----------------------------------------------------------------------------
(***************************************************************************)
(* Most methods delete items, and cut the links of others to them: g is f  *)
(* without the items X.                                                    *)
(***************************************************************************)
Kept(r, q) ==
  /\ q.kind = r.kind /\ q.live = r.live /\ q.lod = r.lod /\ q.symbol = r.symbol
  /\ q.is_rev_1_1 = r.is_rev_1_1 /\ q.log = r.log /\ q.ntdbr = r.ntdbr
  /\ q.ntdbr_prev_id = r.ntdbr_prev_id /\ q.ntdbr_next_id = r.ntdbr_next_id
  /\ q.source_id = r.source_id /\ q.source_lod = r.source_lod

IsCut(f, X, j) == f.item[j].first_on_branch_id \in X \/ f.item[j].prev_id \in X

\* What becomes of a revision that loses its branch or the revision before it.
Cut(r, q) ==
  /\ q.first_on_branch_id = None /\ q.prev_id = None
  /\ q.pred_live = IF r.ntdbr_prev_id # None THEN r.pred_live ELSE FALSE
NotCut(r, q) ==
  /\ q.first_on_branch_id = r.first_on_branch_id /\ q.prev_id = r.prev_id
  /\ q.pred_live = r.pred_live

PrunedItem(f, X, j, q) ==
  LET r == f.item[j]
  IN  /\ Kept(r, q)
      /\ q.next_id = IF r.next_id \in X THEN None ELSE r.next_id
      /\ q.tag_ids = r.tag_ids \ X
      /\ ToSet(q.branch_ids) = ToSet(r.branch_ids) \ X /\ IsInjective(q.branch_ids)
      /\ q.branch_commit_ids =
           {c \in r.branch_commit_ids : c \notin X /\ f.item[c].first_on_branch_id \notin X}
      /\ IF IsCut(f, X, j) THEN Cut(r, q) ELSE NotCut(r, q)

Pruned(f, g, X) ==
  Ids(g) = Ids(f) \ X /\ \A j \in Ids(g) : PrunedItem(f, X, j, g.item[j])

\* What may be deleted: nothing that survives sprouts from it, and it is
\* neither an NTDB revision nor 1.2 after one.
MayPrune(f, X) ==
  /\ X \subseteq Ids(f)
  /\ \A x \in X : ~f.item[x].ntdbr /\ f.item[x].ntdbr_prev_id = None
  /\ \A j \in Ids(f) \ X : f.item[j].source_id \notin X
  /\ \A t \in Ids(f) \ X :
       f.item[t].ntdbr /\ f.item[t].first_on_branch_id \in X => f.item[t].prev_id \in X

LEMMA PrunedLinked ==
  ASSUME NEW f, NEW g, NEW X, NEW U, Linked(f, U), MayPrune(f, X), Pruned(f, g, X),
         Shaped(g, U), Roots(g)
  PROVE  Linked(g, U)
<1>1. /\ Ids(g) = Ids(f) \ X /\ None \notin Ids(f) /\ None \notin X
      /\ \A j \in Ids(g) : PrunedItem(f, X, j, g.item[j])
  BY DEF Linked, Shaped, MayPrune, Pruned
<1>2. \A j \in Ids(g) : /\ j \in Ids(f) /\ j \notin X /\ Kept(f.item[j], g.item[j])
                        /\ IsRev(g, j) <=> IsRev(f, j)
                        /\ IsBranch(g, j) <=> IsBranch(f, j)
  BY <1>1 DEF PrunedItem, Kept, IsRev, IsBranch
<1>3. \A j \in Ids(g) : g.item[j].source_id = f.item[j].source_id /\ g.item[j].source_id \notin X
  BY <1>1, <1>2 DEF MayPrune, Kept
<1>4. ASSUME NEW j \in Ids(g), IsRev(g, j)
      PROVE  /\ IsCut(f, X, j) => Cut(f.item[j], g.item[j])
             /\ ~IsCut(f, X, j) => NotCut(f.item[j], g.item[j])
             /\ f.item[j].prev_id \in X => f.item[j].first_on_branch_id \in X \cup {None}
  BY <1>2, <1>4, <1>1 DEF Linked, Prevs, MayPrune, PrunedItem
<1>5. Classes(g)
  BY <1>2, <1>3, <1>1 DEF Classes, Linked, IsCut, PrunedItem, Kept, NotCut
<1>6. Sprouting(g)
  BY <1>1, <1>2 DEF Sprouting, PrunedItem, Linked, Kept
<1>7. Sprouts(g)
  BY <1>2, <1>1, <1>3 DEF Sprouts, Linked, PrunedItem, Kept
<1>8. Nexts(g)
  <2> SUFFICES ASSUME NEW i \in Ids(g), g.item[i].next_id # None
               PROVE  IF IsRev(g, i) THEN Follows(g, i, g.item[i].next_id)
                                     ELSE Begins(g, i, g.item[i].next_id)
    BY DEF Nexts
  <2> DEFINE j == f.item[i].next_id
  <2>1. g.item[i].next_id = j /\ j # None /\ j \notin X
    BY <1>1 DEF PrunedItem
  <2>2. IF IsRev(f, i) THEN Follows(f, i, j) ELSE Begins(f, i, j)
    BY <1>2, <2>1 DEF Linked, Nexts
  <2>3. j \in Ids(g) /\ IsRev(g, j)
    BY <1>1, <1>2, <2>1, <2>2 DEF Follows, Begins
  <2> HIDE DEF j
  <2>4. CASE IsRev(f, i)
    <3>1. Follows(f, i, j) /\ ~IsCut(f, X, j)
      BY <1>1, <1>2, <2>2, <2>4 DEF Follows, IsCut
    <3> QED BY <1>2, <2>1, <2>4, <2>3, <3>1, <1>4 DEF Follows, Kept, NotCut
  <2>5. CASE ~IsRev(f, i)
    <3>1. Begins(f, i, j) /\ f.item[j].first_on_branch_id \notin X \cup {None}
      BY <1>1, <1>2, <2>2, <2>5 DEF Begins
    <3>2. Begins(g, i, j)
      BY <1>2, <2>3, <3>1, <1>4 DEF Begins, Kept, NotCut, IsCut
    <3> QED BY <1>2, <2>1, <2>5, <3>2
  <2> QED BY <2>4, <2>5
<1>9. Prevs(g)
  <2> SUFFICES ASSUME NEW j \in Ids(g), IsRev(g, j)
               PROVE  LET p == g.item[j].prev_id
                          b == g.item[j].first_on_branch_id
                      IN  IF b = None
                          THEN p # None => p \in Ids(g) /\ IsRev(g, p) /\ g.item[p].next_id = j
                          ELSE /\ b \in Ids(g) /\ IsBranch(g, b) /\ g.item[b].next_id = j
                               /\ g.item[b].source_id = p
    BY DEF Prevs
  <2>1. CASE IsCut(f, X, j)
    BY <1>4, <2>1 DEF Cut
  <2>2. CASE ~IsCut(f, X, j)
    <3> DEFINE p == f.item[j].prev_id
               b == f.item[j].first_on_branch_id
    <3>1. g.item[j].prev_id = p /\ g.item[j].first_on_branch_id = b /\ p \notin X /\ b \notin X
      BY <1>4, <2>2 DEF NotCut, IsCut
    <3>2. IF b = None
          THEN p # None => p \in Ids(f) /\ IsRev(f, p) /\ f.item[p].next_id = j
          ELSE b \in Ids(f) /\ IsBranch(f, b) /\ f.item[b].next_id = j /\ f.item[b].source_id = p
      BY <1>2 DEF Linked, Prevs
    <3> HIDE DEF p, b
    <3> QED BY <3>1, <1>1, <1>2, <1>3, <3>2 DEF PrunedItem
  <2> QED BY <2>1, <2>2
<1>10. Commits(g)
  <2> SUFFICES ASSUME NEW i \in Ids(g), IsRev(g, i)
               PROVE  g.item[i].branch_commit_ids =
                        {j \in Ids(g) : /\ IsRev(g, j) /\ g.item[j].first_on_branch_id # None
                                        /\ g.item[j].prev_id = i}
    BY DEF Commits
  <2>1. ASSUME NEW j \in Ids(g), IsRev(g, j)
        PROVE  (g.item[j].first_on_branch_id # None /\ g.item[j].prev_id = i) <=>
                 (f.item[j].first_on_branch_id \notin X \cup {None} /\ f.item[j].prev_id = i)
    BY <1>1, <1>2, <1>4, <2>1 DEF Cut, IsCut, NotCut
  <2> QED BY <1>1, <1>2, <2>1 DEF PrunedItem, Linked, Commits
<1>11. \A i \in Ids(g) :
         /\ f.item[i].ntdbr_next_id # None =>
              f.item[i].ntdbr_next_id \in Ids(g) /\ f.item[f.item[i].ntdbr_next_id].ntdbr_prev_id = i
         /\ f.item[i].ntdbr_prev_id # None =>
              f.item[i].ntdbr_prev_id \in Ids(g) /\ f.item[f.item[i].ntdbr_prev_id].ntdbr_next_id = i
  BY <1>1, <1>2 DEF Linked, NtdbrPairs, MayPrune
<1>12. NtdbrPairs(g)
  BY <1>2, <1>11 DEF Linked, NtdbrPairs, Kept
<1>13. PredLive(g)
  <2> SUFFICES ASSUME NEW i \in Ids(g), IsRev(g, i)
               PROVE  LET p == EffectivePrev(g.item[i])
                      IN  g.item[i].pred_live = (p # None /\ g.item[p].live)
    BY DEF PredLive
  <2>1. LET p == EffectivePrev(f.item[i])
        IN  f.item[i].pred_live = (p # None /\ f.item[p].live)
    BY <1>2 DEF Linked, PredLive
  <2>2. \A j \in Ids(g) : g.item[j].live = f.item[j].live
    BY <1>2 DEF Kept
  <2>3. g.item[i].ntdbr_prev_id = f.item[i].ntdbr_prev_id
    BY <1>2 DEF Kept
  <2>4. CASE f.item[i].ntdbr_prev_id # None
    BY <1>4, <2>4, <2>3, <1>11, <2>2, <2>1 DEF Cut, NotCut, EffectivePrev
  <2>5. CASE f.item[i].ntdbr_prev_id = None /\ IsCut(f, X, i)
    BY <1>4, <2>3, <2>5 DEF Cut, EffectivePrev
  <2>6. CASE f.item[i].ntdbr_prev_id = None /\ ~IsCut(f, X, i)
    <3>1. f.item[i].prev_id # None => f.item[i].prev_id \in Ids(g)
      BY <1>1, <2>6, <1>2 DEF IsCut, Linked, Prevs, Sprouts, IsRev, IsBranch
    <3> QED BY <2>1, <2>2, <2>3, <2>6, <1>4, <3>1 DEF EffectivePrev, NotCut
  <2> QED BY <2>4, <2>5, <2>6
<1>14. PrevsEnd(g)
  BY <1>2, <1>4, <1>1 DEF PrevsEnd, Linked, Cut, NotCut
<1> QED BY <1>5, <1>6, <1>7, <1>8, <1>9, <1>10, <1>12, <1>13, <1>14 DEF Linked

LEMMA PrunedNtdb ==
  ASSUME NEW f, NEW g, NEW X, NEW U, Linked(f, U), NtdbLinked(f), MayPrune(f, X), Pruned(f, g, X)
  PROVE  NtdbLinked(g)
<1>1. /\ Ids(g) = Ids(f) \ X /\ None \notin Ids(f) /\ None \notin X
      /\ \A j \in Ids(g) : PrunedItem(f, X, j, g.item[j])
  BY DEF Linked, Shaped, MayPrune, Pruned
<1>2. \A j \in Ids(g) :
        /\ j \in Ids(f) /\ j \notin X /\ (IsRev(g, j) <=> IsRev(f, j))
        /\ g.item[j].ntdbr = f.item[j].ntdbr /\ g.item[j].lod = f.item[j].lod
        /\ g.item[j].ntdbr_prev_id = f.item[j].ntdbr_prev_id
        /\ g.item[j].ntdbr_next_id = f.item[j].ntdbr_next_id
        /\ g.item[j].is_rev_1_1 = f.item[j].is_rev_1_1 /\ g.item[j].log = f.item[j].log
  BY <1>1 DEF PrunedItem, Kept, IsRev
<1>3. ASSUME NEW j \in Ids(g)
      PROVE  /\ IsCut(f, X, j) => g.item[j].prev_id = None /\ g.item[j].first_on_branch_id = None
             /\ ~IsCut(f, X, j) => /\ g.item[j].prev_id = f.item[j].prev_id
                                   /\ g.item[j].first_on_branch_id = f.item[j].first_on_branch_id
             /\ g.item[j].next_id # None =>
                  g.item[j].next_id = f.item[j].next_id /\ g.item[j].next_id \notin X
  BY <1>1 DEF PrunedItem, Cut, NotCut
<1>4. ASSUME NEW t \in Ids(g), IsNtdbStart(g, t)
      PROVE  IsNtdbStart(f, t) /\ t \in Ids(f) /\ IsRev(f, t)
  <2>1. t \in Ids(f) /\ f.item[t].ntdbr /\ IsRev(f, t)
    BY <1>2, <1>4 DEF IsNtdbStart, Linked, Classes
  <2>2. CASE f.item[t].first_on_branch_id # None
    BY <2>1, <2>2 DEF IsNtdbStart
  <2>3. CASE f.item[t].first_on_branch_id = None
    <3> SUFFICES ASSUME f.item[t].prev_id # None PROVE FALSE
      BY <2>1 DEF IsNtdbStart
    <3> DEFINE p == f.item[t].prev_id
    <3>1. f.item[p].ntdbr
      BY <1>1, <2>1, <2>3 DEF NtdbLinked, NtdbrsFirst, Linked, Prevs
    <3> QED BY <1>1, <2>3, <3>1, <1>3, <1>4 DEF IsCut, MayPrune, IsNtdbStart
  <2> QED BY <2>2, <2>3
<1>5. NtdbrsFirst(g)
  BY <1>2, <1>3, <1>1 DEF NtdbrsFirst, Linked, Nexts, Follows, NtdbLinked
<1>6. NtdbStarts(g)
  <2> SUFFICES ASSUME NEW t \in Ids(g), IsNtdbStart(g, t)
               PROVE  /\ \A u \in Ids(g) : IsNtdbStart(g, u) => u = t
                      /\ LET p == g.item[t].prev_id
                         IN  p # None =>
                               /\ g.item[p].lod = Trunk
                               /\ g.item[p].next_id # None =>
                                    g.item[g.item[p].next_id].ntdbr_prev_id # None
    BY DEF NtdbStarts
  <2>1. IsNtdbStart(f, t) /\ t \in Ids(f) /\ IsRev(f, t)
    BY <1>4
  <2> DEFINE p == g.item[t].prev_id
  <2>2. ASSUME p # None
        PROVE  /\ g.item[p].lod = Trunk
               /\ g.item[p].next_id # None => g.item[g.item[p].next_id].ntdbr_prev_id # None
    <3>1. p = f.item[t].prev_id /\ ~IsCut(f, X, t)
      BY <1>3, <2>2
    <3>2. p \in Ids(f) /\ IsRev(f, p)
      BY <2>1, <2>2, <3>1 DEF Linked, Prevs, Sprouts, IsRev, IsBranch
    <3>3. p \in Ids(g)
      BY <1>1, <3>1, <3>2 DEF IsCut
    <3>4. /\ f.item[p].lod = Trunk
          /\ f.item[p].next_id # None => f.item[f.item[p].next_id].ntdbr_prev_id # None
      BY <2>1, <2>2, <3>1 DEF NtdbLinked, NtdbStarts
    <3> HIDE DEF p
    <3>5. ASSUME g.item[p].next_id # None PROVE g.item[g.item[p].next_id].ntdbr_prev_id # None
      <4>1. g.item[p].next_id = f.item[p].next_id /\ f.item[p].next_id \notin X
        BY <1>3, <3>3, <3>5
      <4> QED BY <1>1, <1>2, <3>4, <3>5, <4>1, <3>2 DEF Linked, Nexts, Follows
    <3> QED BY <1>2, <3>3, <3>4, <3>5
  <2> QED BY <1>4, <2>1, <2>2 DEF NtdbLinked, NtdbStarts
<1>7. Rev12(g)
  <2> SUFFICES ASSUME NEW k \in Ids(g), g.item[k].ntdbr_prev_id # None
               PROVE  /\ g.item[k].first_on_branch_id = None /\ g.item[k].lod = Trunk
                      /\ ~g.item[k].is_rev_1_1 /\ g.item[k].log # "added on branch"
                      /\ \A t \in Ids(g) : IsNtdbStart(g, t) => g.item[k].prev_id = g.item[t].prev_id
    BY DEF Rev12
  <2>1. /\ f.item[k].first_on_branch_id = None /\ f.item[k].lod = Trunk
        /\ ~f.item[k].is_rev_1_1 /\ f.item[k].log # "added on branch"
        /\ \A t \in Ids(f) : IsNtdbStart(f, t) => f.item[k].prev_id = f.item[t].prev_id
    BY <1>2 DEF NtdbLinked, Rev12
  <2>2. ASSUME NEW t \in Ids(g), IsNtdbStart(g, t) PROVE g.item[k].prev_id = g.item[t].prev_id
    <3>1. IsNtdbStart(f, t) /\ t \in Ids(f) /\ IsRev(f, t) /\ f.item[t].ntdbr
      BY <1>4, <2>2 DEF IsNtdbStart
    <3>2. f.item[k].prev_id = f.item[t].prev_id
      BY <2>1, <3>1
    <3>3. IsCut(f, X, k) <=> IsCut(f, X, t)
      BY <1>1, <2>1, <3>2, <1>2, <3>1 DEF IsCut, MayPrune
    <3> QED BY <1>3, <3>2, <3>3
  <2> QED BY <1>2, <2>1, <2>2, <1>3
<1> QED BY <1>5, <1>6, <1>7 DEF NtdbLinked

\* What every method keeps, as long as symbols sprout from revisions.
Good(f, U) == Linked(f, U) /\ NtdbLinked(f) /\ Named(f)

LEMMA PrunedGood ==
  ASSUME NEW f, NEW g, NEW X, NEW U, Good(f, U), MayPrune(f, X), Pruned(f, g, X),
         Shaped(g, U), Roots(g)
  PROVE  Good(g, U)
BY PrunedLinked, PrunedNtdb DEF Good, Named, Pruned, PrunedItem, Kept, IsRev

\* What surrounds an item, in the words the next proofs need.
LEMMA Surroundings ==
  ASSUME NEW f, NEW U, Linked(f, U)
  PROVE  /\ None \notin Ids(f)
         /\ \A j \in Ids(f) :
              LET r == f.item[j]
                  b == r.first_on_branch_id
              IN  /\ r.next_id # None =>
                       /\ r.next_id \in Ids(f) /\ IsRev(f, r.next_id)
                       /\ IsRev(f, j) => /\ f.item[r.next_id].prev_id = j
                                         /\ f.item[r.next_id].first_on_branch_id = None
                                         /\ f.item[r.next_id].lod = r.lod
                       /\ ~IsRev(f, j) => /\ f.item[r.next_id].first_on_branch_id = j
                                          /\ f.item[r.next_id].lod = r.symbol
                  /\ r.prev_id # None =>
                       /\ IsRev(f, j) /\ r.prev_id \in Ids(f) /\ IsRev(f, r.prev_id)
                       /\ b = None => f.item[r.prev_id].next_id = j
                  /\ b # None =>
                       /\ IsRev(f, j) /\ b \in Ids(f) /\ IsBranch(f, b) /\ ~IsRev(f, b)
                       /\ r.prev_id # None
                       /\ f.item[b].next_id = j /\ f.item[b].source_id = r.prev_id
                       /\ b \in ToSet(f.item[r.prev_id].branch_ids)
                       /\ j \in f.item[r.prev_id].branch_commit_ids
                  /\ \A t \in r.tag_ids :
                       t \in Ids(f) /\ ~IsRev(f, t) /\ ~IsBranch(f, t) /\ f.item[t].source_id = j
                  /\ \A t \in ToSet(r.branch_ids) :
                       t \in Ids(f) /\ ~IsRev(f, t) /\ IsBranch(f, t) /\ f.item[t].source_id = j
                  /\ \A c \in r.branch_commit_ids :
                       /\ c \in Ids(f) /\ IsRev(f, c) /\ f.item[c].prev_id = j
                       /\ f.item[c].first_on_branch_id # None
                  /\ IsRev(f, j) => r.source_id = None
                  /\ ~IsRev(f, j) =>
                       /\ r.source_id \in Ids(f) /\ IsRev(f, r.source_id)
                       /\ r.tag_ids = {} /\ ToSet(r.branch_ids) = {}
                       /\ j \in IF IsBranch(f, j) THEN ToSet(f.item[r.source_id].branch_ids)
                                ELSE f.item[r.source_id].tag_ids
<1>1. None \notin Ids(f)
  BY DEF Linked, Shaped
<1>2. ASSUME NEW j \in Ids(f)
      PROVE  /\ \A t \in f.item[j].tag_ids :
                  t \in Ids(f) /\ ~IsRev(f, t) /\ ~IsBranch(f, t) /\ f.item[t].source_id = j
             /\ \A t \in ToSet(f.item[j].branch_ids) :
                  t \in Ids(f) /\ ~IsRev(f, t) /\ IsBranch(f, t) /\ f.item[t].source_id = j
             /\ IsRev(f, j) => f.item[j].source_id = None
             /\ ~IsRev(f, j) =>
                  /\ f.item[j].source_id \in Ids(f) /\ IsRev(f, f.item[j].source_id)
                  /\ j \in IF IsBranch(f, j) THEN ToSet(f.item[f.item[j].source_id].branch_ids)
                           ELSE f.item[f.item[j].source_id].tag_ids
  BY DEF Linked, Sprouting, Sprouts, Classes, IsRev, IsBranch
<1>3. ASSUME NEW j \in Ids(f), ~IsRev(f, j)
      PROVE  f.item[j].tag_ids = {} /\ ToSet(f.item[j].branch_ids) = {}
  BY <1>2, <1>3
<1>4. ASSUME NEW j \in Ids(f), f.item[j].next_id # None
      PROVE  LET r == f.item[j]
             IN  /\ r.next_id \in Ids(f) /\ IsRev(f, r.next_id)
                 /\ IsRev(f, j) => /\ f.item[r.next_id].prev_id = j
                                   /\ f.item[r.next_id].first_on_branch_id = None
                                   /\ f.item[r.next_id].lod = r.lod
                 /\ ~IsRev(f, j) => /\ f.item[r.next_id].first_on_branch_id = j
                                    /\ f.item[r.next_id].lod = r.symbol
  BY <1>4 DEF Linked, Nexts, Follows, Begins
<1>5. ASSUME NEW j \in Ids(f), f.item[j].first_on_branch_id # None
      PROVE  LET r == f.item[j]
                 b == r.first_on_branch_id
             IN  /\ IsRev(f, j) /\ b \in Ids(f) /\ IsBranch(f, b) /\ ~IsRev(f, b)
                 /\ r.prev_id \in Ids(f) /\ IsRev(f, r.prev_id)
                 /\ f.item[b].next_id = j /\ f.item[b].source_id = r.prev_id
                 /\ b \in ToSet(f.item[r.prev_id].branch_ids)
                 /\ j \in f.item[r.prev_id].branch_commit_ids
  BY <1>5, <1>2 DEF Linked, Classes, Prevs, IsBranch, IsRev, Commits
<1>6. ASSUME NEW j \in Ids(f), f.item[j].prev_id # None
      PROVE  LET r == f.item[j]
             IN  /\ IsRev(f, j) /\ r.prev_id \in Ids(f) /\ IsRev(f, r.prev_id)
                 /\ r.first_on_branch_id = None => f.item[r.prev_id].next_id = j
  BY <1>6, <1>5 DEF Linked, Classes, Prevs
<1>7. ASSUME NEW j \in Ids(f), NEW c \in f.item[j].branch_commit_ids
      PROVE  /\ c \in Ids(f) /\ IsRev(f, c) /\ f.item[c].prev_id = j
             /\ f.item[c].first_on_branch_id # None
  BY <1>7 DEF Linked, Commits, Classes
<1> QED BY <1>1, <1>2, <1>3, <1>4, <1>5, <1>6, <1>7

-----------------------------------------------------------------------------
(* Lists of branches, in which none is twice.                              *)

LEMMA EmptyList == ToSet(<<>>) = {}
BY DEF ToSet

LEMMA ConcatElements ==
  ASSUME NEW S, NEW s \in Seq(S), NEW t \in Seq(S)
  PROVE  /\ s \o t \in Seq(S) /\ Len(s \o t) = Len(s) + Len(t)
         /\ \A j \in 1..Len(s \o t) :
              (s \o t)[j] = IF j <= Len(s) THEN s[j] ELSE t[j - Len(s)]
OBVIOUS

LEMMA RemoveFirstFacts ==
  ASSUME NEW S, NEW s \in Seq(S), IsInjective(s), NEW e
  PROVE  /\ RemoveFirst(s, e) \in Seq(S) /\ IsInjective(RemoveFirst(s, e))
         /\ ToSet(RemoveFirst(s, e)) = ToSet(s) \ {e}
<1>1. CASE ~ \E i \in 1..Len(s) : s[i] = e
  BY <1>1 DEF RemoveFirst, ToSet
<1>2. CASE \E i \in 1..Len(s) : s[i] = e
  <2> DEFINE I == {i \in 1..Len(s) : s[i] = e}
             k == SelectInSeq(s, LAMBDA v : v = e)
             t == SubSeq(s, 1, k - 1) \o SubSeq(s, k + 1, Len(s))
  <2>1. PICK i \in 1..Len(s) : s[i] = e
    BY <1>2
  <2>2. k = i
    BY <2>1 DEF SelectInSeq, Min, IsInjective
  <2>3. RemoveFirst(s, e) = t
    BY <1>2 DEF RemoveFirst, RemoveAt
  <2> HIDE DEF k, I
  <2>4. /\ t \in Seq(S) /\ Len(t) = Len(s) - 1
        /\ \A j \in 1..Len(t) : t[j] = IF j < i THEN s[j] ELSE s[j + 1]
    <3>1. /\ t \in Seq(S) /\ Len(t) = (i - 1) + (Len(s) - i)
          /\ \A j \in 1..Len(t) : t[j] = IF j <= i - 1 THEN SubSeq(s, 1, i - 1)[j]
                                         ELSE SubSeq(s, i + 1, Len(s))[j - (i - 1)]
      <4> DEFINE v == SubSeq(s, 1, i - 1)
                 w == SubSeq(s, i + 1, Len(s))
      <4>1. t = v \o w /\ v \in Seq(S) /\ w \in Seq(S) /\ Len(v) = i - 1 /\ Len(w) = Len(s) - i
        BY <2>2, <2>1
      <4> HIDE DEF v, w, t
      <4> SUFFICES /\ t \in Seq(S) /\ Len(t) = (i - 1) + (Len(s) - i)
                   /\ \A j \in 1..Len(t) : t[j] = IF j <= i - 1 THEN v[j] ELSE w[j - (i - 1)]
        BY DEF v, w
      <4>2. /\ v \o w \in Seq(S) /\ Len(v \o w) = Len(v) + Len(w)
            /\ \A j \in 1..Len(v \o w) :
                 (v \o w)[j] = IF j <= Len(v) THEN v[j] ELSE w[j - Len(v)]
        BY <4>1, ConcatElements
      <4> QED BY <4>1, <4>2
    <3> HIDE DEF t
    <3>2. ASSUME NEW j \in 1..Len(t) PROVE t[j] = IF j < i THEN s[j] ELSE s[j + 1]
      BY <2>1, <3>1
    <3> QED BY <3>1, <3>2, <2>1
  <2> HIDE DEF t
  <2>5. Len(s) \in Nat /\ DOMAIN s = 1..Len(s) /\ DOMAIN t = 1..(Len(s) - 1)
    BY <2>4
  <2>6. IsInjective(t)
    <3> SUFFICES ASSUME NEW a \in 1..(Len(s) - 1), NEW b \in 1..(Len(s) - 1), t[a] = t[b]
                 PROVE  a = b
      BY <2>5 DEF IsInjective
    <3> DEFINE old(j) == IF j < i THEN j ELSE j + 1
    <3>1. t[a] = s[old(a)] /\ t[b] = s[old(b)] /\ old(a) \in 1..Len(s) /\ old(b) \in 1..Len(s)
      BY <2>1, <2>4, <2>5
    <3>2. old(a) = old(b)
      BY <2>5, <3>1 DEF IsInjective
    <3> QED BY <2>1, <3>2
  <2>7. ASSUME NEW x \in ToSet(t) PROVE x \in ToSet(s) \ {e}
    BY <2>5, <2>1, <2>4 DEF ToSet, IsInjective
  <2>8. ASSUME NEW x \in ToSet(s), x # e PROVE x \in ToSet(t)
    <3>1. PICK j \in 1..Len(s) : x = s[j]
      BY <2>5 DEF ToSet
    <3>2. CASE j < i
      BY <2>1, <2>4, <2>5, <3>1, <3>2 DEF ToSet
    <3>3. CASE i < j
      <4>1. j - 1 \in 1..Len(t) /\ ~ (j - 1 < i) /\ (j - 1) + 1 = j
        BY <2>1, <2>4, <3>1, <3>3
      <4> QED BY <2>4, <2>5, <4>1, <3>1 DEF ToSet
    <3> QED BY <2>1, <3>1, <3>2, <3>3, <2>8
  <2> QED BY <2>3, <2>4, <2>6, <2>7, <2>8
<1> QED BY <1>1, <1>2

LEMMA ConcatFacts ==
  ASSUME NEW S, NEW s \in Seq(S), NEW t \in Seq(S), IsInjective(s), IsInjective(t),
         ToSet(s) \cap ToSet(t) = {}
  PROVE  s \o t \in Seq(S) /\ IsInjective(s \o t) /\ ToSet(s \o t) = ToSet(s) \cup ToSet(t)
<1> DEFINE u == s \o t
<1>1. /\ u \in Seq(S) /\ Len(u) = Len(s) + Len(t)
      /\ \A j \in 1..Len(u) : u[j] = IF j <= Len(s) THEN s[j] ELSE t[j - Len(s)]
  BY ConcatElements
<1>2. /\ Len(s) \in Nat /\ DOMAIN s = 1..Len(s) /\ Len(t) \in Nat /\ DOMAIN t = 1..Len(t)
      /\ DOMAIN u = 1..Len(u)
  BY <1>1
<1> HIDE DEF u
<1>3. ASSUME NEW j \in 1..Len(u)
      PROVE  \/ j \in 1..Len(s) /\ u[j] = s[j] /\ u[j] \in ToSet(s)
             \/ ~ (j <= Len(s)) /\ j - Len(s) \in 1..Len(t) /\ u[j] = t[j - Len(s)] /\ u[j] \in ToSet(t)
  <2>1. CASE j <= Len(s)
    BY <1>1, <1>2, <2>1 DEF ToSet
  <2>2. CASE ~ (j <= Len(s))
    BY <1>1, <1>2, <2>2 DEF ToSet
  <2> QED BY <2>1, <2>2
<1>4. IsInjective(u)
  <2> SUFFICES ASSUME NEW a \in 1..Len(u), NEW b \in 1..Len(u), u[a] = u[b] PROVE a = b
    BY <1>2 DEF IsInjective
  <2>1. CASE a \in 1..Len(s) /\ b \in 1..Len(s)
    BY <1>2, <1>3, <2>1 DEF IsInjective
  <2>2. CASE ~ (a <= Len(s)) /\ ~ (b <= Len(s))
    <3>1. a - Len(s) = b - Len(s)
      BY <1>2, <1>3, <2>2 DEF IsInjective
    <3> QED BY <1>1, <1>2, <3>1
  <2> QED BY <1>2, <1>3, <2>1, <2>2
<1>5. ToSet(u) \subseteq ToSet(s) \cup ToSet(t)
  BY <1>2, <1>3 DEF ToSet
<1>6. ASSUME NEW x \in ToSet(s) PROVE x \in ToSet(u)
  BY <1>2, <1>1 DEF ToSet
<1>7. ASSUME NEW x \in ToSet(t) PROVE x \in ToSet(u)
  <2>1. PICK j \in 1..Len(t) : x = t[j]
    BY <1>2 DEF ToSet
  <2>2. j + Len(s) \in 1..Len(u) /\ ~ (j + Len(s) <= Len(s)) /\ (j + Len(s)) - Len(s) = j
    BY <1>1, <1>2
  <2> QED BY <1>2, <2>2, <1>1, <2>1 DEF ToSet
<1> QED BY <1>1, <1>4, <1>5, <1>6, <1>7 DEF u

LEMMA AppendFacts ==
  ASSUME NEW S, NEW s \in Seq(S), IsInjective(s), NEW e \in S, e \notin ToSet(s)
  PROVE  Append(s, e) \in Seq(S) /\ IsInjective(Append(s, e)) /\ ToSet(Append(s, e)) = ToSet(s) \cup {e}
BY ConcatFacts DEF IsInjective, ToSet

-----------------------------------------------------------------------------
(* The methods that delete items.                                          *)

\* The fields that no method changes along with these.
SameLinks(r, q) ==
  /\ Kept(r, q) /\ q.next_id = r.next_id /\ q.tag_ids = r.tag_ids
  /\ q.branch_ids = r.branch_ids /\ q.branch_commit_ids = r.branch_commit_ids

LEMMA PrevDropped ==
  ASSUME NEW U, NEW r \in ItemRecord(U), NEW q, q = [r EXCEPT !.prev_id = None]
  PROVE  /\ q \in ItemRecord(U) /\ SameLinks(r, q)
         /\ q.prev_id = None /\ q.first_on_branch_id = r.first_on_branch_id
         /\ q.pred_live = r.pred_live
BY DEF ItemRecord, SameLinks, Kept

LEMMA MadeRootless ==
  ASSUME NEW U, NEW r \in ItemRecord(U), NEW q, q = Rootless(r)
  PROVE  /\ q \in ItemRecord(U) /\ SameLinks(r, q)
         /\ q.prev_id = None /\ q.first_on_branch_id = None /\ q.pred_live = FALSE
BY DEF ItemRecord, SameLinks, Kept, Rootless

\* A revision, and what sprouts from it.
WithSprouts(f, i) == {i} \cup f.item[i].tag_ids \cup ToSet(f.item[i].branch_ids)

LEMMA TrunkDeleteRemoved ==
  ASSUME NEW f, NEW U, Good(f, U), NEW i \in UnneededTrunkDeletes(f)
  PROVE  LET g == RemoveTrunkDelete(f, i)
         IN  /\ Good(g, U)
             /\ MayPrune(f, WithSprouts(f, i)) /\ Pruned(f, g, WithSprouts(f, i))
<1> DEFINE g == RemoveTrunkDelete(f, i)
           next == f.item[i].next_id
           branches == ToSet(f.item[i].branch_ids)
           firsts == {f.item[b].next_id : b \in branches} \ {None}
           X == {i} \cup f.item[i].tag_ids \cup branches
           NewItem2(j) ==
             IF j = next THEN [f.item[j] EXCEPT !.prev_id = None]
             ELSE IF j \in firsts THEN Rootless(f.item[j]) ELSE f.item[j]
<1>1. /\ i \in Ids(f) /\ IsRev(f, i) /\ f.item[i].prev_id = None
      /\ f.root = {j \in Ids(f) : IsRev(f, j) /\ f.item[j].prev_id = None}
      /\ ~f.item[i].live /\ f.item[i].is_rev_1_1 /\ ~f.item[i].ntdbr
  BY DEF UnneededTrunkDeletes, Good, Linked, Roots
<1>2. Linked(f, U) /\ NtdbLinked(f) /\ Shaped(f, U)
  BY DEF Good, Linked
<1>3. None \notin Ids(f)
  BY <1>2, Surroundings
<1>4. next # None =>
        /\ next \in Ids(f) /\ next # i /\ IsRev(f, next) /\ f.item[next].prev_id = i
        /\ f.item[next].first_on_branch_id = None
  BY <1>1, <1>2, <1>3, Surroundings
<1>5. \A b \in branches : b \in Ids(f) /\ ~IsRev(f, b) /\ IsBranch(f, b) /\ f.item[b].source_id = i
  BY <1>1, <1>2, Surroundings
<1>6. \A j \in firsts : /\ j \in Ids(f) /\ IsRev(f, j) /\ j # i /\ f.item[j].prev_id = i
                        /\ f.item[j].first_on_branch_id \in branches
  <2> SUFFICES ASSUME NEW b \in branches, f.item[b].next_id # None
               PROVE  LET j == f.item[b].next_id
                      IN  /\ j \in Ids(f) /\ IsRev(f, j) /\ j # i /\ f.item[j].prev_id = i
                          /\ f.item[j].first_on_branch_id \in branches
    OBVIOUS
  <2> HIDE DEF branches
  <2> QED BY <1>1, <1>2, <1>3, <1>5, Surroundings
<1>7. next \notin firsts
  BY <1>3, <1>4, <1>5, <1>6
<1>8. \A t \in f.item[i].tag_ids : t \in Ids(f) /\ ~IsRev(f, t) /\ f.item[t].source_id = i
  BY <1>1, <1>2, Surroundings
<1>9. /\ Ids(g) = Ids(f) \ X
      /\ \A j \in Ids(g) : g.item[j] = NewItem2(j)
      /\ g.root = ((f.root \cup firsts) \ {i}) \cup ({next} \ {None})
      /\ g = [item |-> g.item, root |-> g.root] /\ DOMAIN g.item = Ids(g)
      /\ g.item = [j \in Ids(g) |-> g.item[j]]
  <2> DEFINE f1 == SeverBranches(f, i)
  <2>1. /\ Ids(f1) = Ids(f) \ branches /\ f1.root = f.root \cup firsts
        /\ \A j \in Ids(f1) : f1.item[j] =
             IF j = i THEN [f.item[j] EXCEPT !.branch_ids = <<>>, !.branch_commit_ids = @ \ firsts]
             ELSE IF j \in firsts THEN Rootless(f.item[j]) ELSE f.item[j]
    BY DEF SeverBranches, Ids
  <2>2. f1.item[i].next_id = next /\ f1.item[i].tag_ids = f.item[i].tag_ids
    <3>1. f1.item[i] = [f.item[i] EXCEPT !.branch_ids = <<>>, !.branch_commit_ids = @ \ firsts]
      BY <2>1, <1>1, <1>5
    <3> HIDE DEF f1, firsts
    <3> QED BY <1>1, <1>2, ShapedItem, <3>1 DEF ItemRecord
  <2>3. g = DropRoot(f1, i)
    BY DEF RemoveTrunkDelete
  <2> HIDE DEF f1
  <2> HIDE DEF g, firsts, next, branches
  <2> QED BY <2>1, <2>2, <2>3, <1>7 DEF Ids, DropRoot
<1> HIDE DEF g
<1>10. MayPrune(f, X)
  <2>1. X \subseteq Ids(f)
    BY <1>1, <1>5, <1>8
  <2>2. \A x \in X : ~f.item[x].ntdbr /\ f.item[x].ntdbr_prev_id = None
    BY <1>1, <1>2, <1>5, <1>8 DEF Linked, Classes, NtdbLinked, Rev12
  <2>3. ASSUME NEW j \in Ids(f) \ X PROVE f.item[j].source_id \notin X
    BY <1>2, Surroundings, <1>1, <1>3, <1>5, <1>8, <2>1
  <2>4. ASSUME NEW t \in Ids(f) \ X, f.item[t].first_on_branch_id \in X PROVE f.item[t].prev_id \in X
    <3> DEFINE b == f.item[t].first_on_branch_id
    <3>1. IsBranch(f, b) /\ f.item[b].source_id = f.item[t].prev_id
      BY <1>2, <1>3, <2>1, <2>4, Surroundings
    <3> QED BY <3>1, <1>5, <1>8, <2>4, <1>1 DEF IsBranch, IsRev
  <2> QED BY <2>1, <2>2, <2>3, <2>4 DEF MayPrune
<1>11. ASSUME NEW j \in Ids(g)
       PROVE  /\ f.item[j].first_on_branch_id \in X => j \in firsts
              /\ f.item[j].prev_id \in X => j = next \/ j \in firsts
  <2>1. j \in Ids(f) /\ j \notin X
    BY <1>9
  <2>2. ASSUME f.item[j].first_on_branch_id \in X PROVE j \in firsts
    <3> DEFINE b == f.item[j].first_on_branch_id
    <3>1. IsBranch(f, b) /\ f.item[b].next_id = j /\ b \in ToSet(f.item[f.item[j].prev_id].branch_ids)
          /\ f.item[b].source_id = f.item[j].prev_id
      BY <1>3, <1>10, <2>2, <1>2, <2>1, Surroundings DEF MayPrune
    <3>2. f.item[b].source_id = i
      BY <1>1, <1>5, <1>8, <2>2, <3>1 DEF IsBranch, IsRev
    <3> QED BY <1>2, <1>3, <2>1, <3>1, <3>2
  <2>3. ASSUME f.item[j].prev_id \in X PROVE j = next \/ j \in firsts
    <3>1. f.item[j].prev_id = i
      BY <1>5, <1>8, <2>3, <1>2, <1>3, <1>10, <2>1, Surroundings DEF MayPrune
    <3>2. CASE f.item[j].first_on_branch_id = None
      BY <1>1, <1>2, <1>3, <2>1, <3>1, <3>2, Surroundings
    <3>3. CASE f.item[j].first_on_branch_id # None
      BY <1>2, <2>1, <3>1, <3>3, Surroundings, <2>2
    <3> QED BY <3>2, <3>3
  <2> QED BY <2>2, <2>3
<1>12. ASSUME NEW j \in Ids(g) PROVE PrunedItem(f, X, j, g.item[j]) /\ g.item[j] \in ItemRecord(U)
  <2> DEFINE r == f.item[j]
  <2>1. j \in Ids(f) /\ j \notin X /\ j # i /\ r \in ItemRecord(U)
    BY <1>2, <1>9, ShapedItem
  <2>2. /\ r.tag_ids \ X = r.tag_ids /\ ToSet(r.branch_ids) \ X = ToSet(r.branch_ids)
    BY <1>2, <2>1, Surroundings, <1>1, <1>5, <1>8
  <2>3. IsInjective(r.branch_ids)
    BY <1>2, <2>1 DEF Linked, Sprouting
  <2>4. r.next_id \notin X
    BY <1>3, <1>10, <1>2, <2>1, Surroundings, <1>5, <1>8, <1>1 DEF MayPrune
  <2>5. {c \in r.branch_commit_ids : c \notin X /\ f.item[c].first_on_branch_id \notin X}
          = r.branch_commit_ids
    BY <1>2, <2>1, Surroundings, <1>1, <1>3, <1>5, <1>8
  <2>6. CASE j = next
    <3>1. g.item[j] = [r EXCEPT !.prev_id = None]
      BY <1>9, <2>6
    <3>2. IsCut(f, X, j) /\ r.first_on_branch_id = None
      BY <1>3, <1>4, <2>1, <2>6 DEF IsCut
    <3>3. r.ntdbr_prev_id = None => r.pred_live = FALSE
      BY <1>3, <1>4, <2>1, <2>6, <1>1, <1>2 DEF Linked, PredLive, EffectivePrev
    <3> HIDE DEF X, r
    <3>4. /\ g.item[j] \in ItemRecord(U) /\ SameLinks(r, g.item[j])
          /\ g.item[j].prev_id = None /\ g.item[j].first_on_branch_id = r.first_on_branch_id
          /\ g.item[j].pred_live = r.pred_live
      BY <2>1, <3>1, PrevDropped
    <3>5. Cut(r, g.item[j])
      BY <3>2, <3>3, <3>4 DEF Cut
    <3> QED BY <2>2, <2>3, <2>4, <2>5, <3>2, <3>4, <3>5 DEF PrunedItem, SameLinks, r
  <2>7. CASE j \in firsts
    <3>1. g.item[j] = Rootless(r)
      BY <1>7, <1>9, <2>7
    <3>2. r.first_on_branch_id \in branches
      BY <1>6, <2>7
    <3>3. IsCut(f, X, j)
      BY <3>2 DEF IsCut
    <3>4. r.ntdbr_prev_id = None
      BY <1>3, <1>5, <3>2, <1>2, <2>1 DEF NtdbLinked, Rev12
    <3> HIDE DEF X, r
    <3>5. Cut(r, g.item[j]) /\ SameLinks(r, g.item[j]) /\ g.item[j] \in ItemRecord(U)
      BY <2>1, <3>1, <3>4, MadeRootless DEF Cut
    <3> QED BY <2>2, <2>3, <2>4, <2>5, <3>3, <3>5 DEF PrunedItem, SameLinks, r
  <2>8. CASE j # next /\ j \notin firsts
    <3>1. g.item[j] = r
      BY <1>9, <2>8
    <3>2. ~IsCut(f, X, j)
      BY <1>11, <2>8 DEF IsCut
    <3> HIDE DEF X, r
    <3> QED BY <2>1, <2>2, <2>3, <2>4, <2>5, <3>1, <3>2 DEF PrunedItem, Kept, NotCut, r
  <2> QED BY <2>6, <2>7, <2>8
<1>13. Roots(g)
  <2>1. \A j \in Ids(g) : /\ IsRev(g, j) <=> IsRev(f, j)
                          /\ g.item[j].prev_id = IF j = next \/ j \in firsts THEN None
                                                 ELSE f.item[j].prev_id
    <3> TAKE j \in Ids(g)
    <3>1. f.item[j] \in ItemRecord(U) /\ j \in Ids(f)
      BY <1>2, <1>9, ShapedItem
    <3>2. IsRev(g, j) <=> IsRev(f, j)
      BY <1>12 DEF PrunedItem, Kept, IsRev
    <3> HIDE DEF next, firsts
    <3> QED BY <1>9, <3>1, <3>2 DEF ItemRecord, Rootless
  <2>2. \A j \in firsts : j \in Ids(g)
    BY <1>5, <1>6, <1>8, <1>9
  <2>3. next # None => next \in Ids(g)
    BY <1>4, <1>5, <1>8, <1>9
  <2>4. \A j \in f.root : j \in Ids(g) \/ j = i
    BY <1>1, <1>5, <1>8, <1>9
  <2>5. \A j \in Ids(g) : j \in Ids(f) /\ j # i
    BY <1>9
  <2> HIDE DEF X, next, firsts
  <2>6. ASSUME NEW j \in g.root PROVE j \in Ids(g) /\ IsRev(g, j) /\ g.item[j].prev_id = None
    BY <1>1, <2>4, <2>1, <2>2, <1>6, <1>4, <2>3, <1>9, <2>6
  <2>7. ASSUME NEW j \in Ids(g), IsRev(g, j), g.item[j].prev_id = None PROVE j \in g.root
    BY <1>1, <2>1, <2>5, <2>7, <1>3, <1>9
  <2> QED BY <2>6, <2>7 DEF Roots
<1>14. Shaped(g, U)
  BY <1>2, <1>9, <1>12, <1>13 DEF Shaped, Roots
<1>15. X = WithSprouts(f, i)
  BY DEF WithSprouts
<1> HIDE DEF X, g
<1> QED BY <1>10, <1>9, <1>12, <1>13, <1>14, PrunedGood, <1>15 DEF g, Pruned

\* What SeverBranch changes.
SeveredItem(f, b, j, q) ==
  LET r == f.item[j]
  IN  /\ Kept(r, q) /\ q.next_id = r.next_id /\ q.tag_ids = r.tag_ids
      /\ IF j = f.item[b].source_id
         THEN /\ ToSet(q.branch_ids) = ToSet(r.branch_ids) \ {b} /\ IsInjective(q.branch_ids)
              /\ q.branch_commit_ids = r.branch_commit_ids \ {f.item[b].next_id}
         ELSE q.branch_ids = r.branch_ids /\ q.branch_commit_ids = r.branch_commit_ids
      /\ IF j = f.item[b].next_id
         THEN q.prev_id = None /\ q.first_on_branch_id = None /\ q.pred_live = FALSE
         ELSE NotCut(r, q)

LEMMA Severed ==
  ASSUME NEW f, NEW U, Linked(f, U), NEW b \in Ids(f), IsBranch(f, b)
  PROVE  LET g == SeverBranch(f, b)
         IN  /\ Ids(g) = Ids(f) \ {b} /\ g.root = f.root \cup ({f.item[b].next_id} \ {None})
             /\ g = [item |-> g.item, root |-> g.root] /\ g.item = [j \in Ids(g) |-> g.item[j]]
             /\ \A j \in Ids(g) : g.item[j] \in ItemRecord(U) /\ SeveredItem(f, b, j, g.item[j])
<1> DEFINE g == SeverBranch(f, b)
           first == f.item[b].next_id
           source == f.item[b].source_id
<1>1. /\ b # None /\ ~IsRev(f, b) /\ source \in Ids(f) /\ IsRev(f, source) /\ b \notin {source, first}
      /\ source # first
  <2>1. b # None /\ ~IsRev(f, b) /\ source \in Ids(f) /\ IsRev(f, source)
    BY Surroundings DEF IsBranch, IsRev
  <2>2. first # None => /\ first \in Ids(f) /\ IsRev(f, first) /\ f.item[first].prev_id = source
                        /\ f.item[first].first_on_branch_id = b
    BY <2>1, Surroundings
  <2>3. first # None => first # source
    \* Otherwise the revision would be the one before itself.
    <3> SUFFICES ASSUME first = source, first # None PROVE FALSE
      OBVIOUS
    <3>1. \E i \in {first} : f.item[i].prev_id \notin {first}
      BY <2>2 DEF Linked, PrevsEnd
    <3> QED BY <2>2, <3>1
  <2> QED BY <2>1, <2>2, <2>3, Surroundings
<1>2. /\ Ids(g) = Ids(f) \ {b} /\ g.root = f.root \cup ({first} \ {None})
      /\ g = [item |-> g.item, root |-> g.root] /\ g.item = [j \in Ids(g) |-> g.item[j]]
      /\ \A j \in Ids(g) :
           g.item[j] = IF j = source
                       THEN [f.item[j] EXCEPT !.branch_ids = RemoveFirst(@, b),
                                              !.branch_commit_ids = @ \ {first}]
                       ELSE IF j = first THEN Rootless(f.item[j]) ELSE f.item[j]
  BY DEF SeverBranch, Ids
<1> HIDE DEF g
<1>3. ASSUME NEW j \in Ids(g)
      PROVE  g.item[j] \in ItemRecord(U) /\ SeveredItem(f, b, j, g.item[j])
  <2> DEFINE r == f.item[j]
             q == g.item[j]
             ids == RemoveFirst(r.branch_ids, b)
  <2>1. r \in ItemRecord(U) /\ j \in Ids(f)
    BY <1>2, ShapedItem DEF Linked
  <2>2. CASE j = source
    <3>1. q = [r EXCEPT !.branch_ids = ids, !.branch_commit_ids = @ \ {first}]
      BY <1>2, <2>2
    <3>2. /\ ids \in Seq(U) /\ ToSet(ids) = ToSet(r.branch_ids) \ {b} /\ IsInjective(ids)
      BY <2>1, RemoveFirstFacts DEF ItemRecord, Linked, Sprouting
    <3> HIDE DEF ids, r, q, first
    <3>3. /\ q \in ItemRecord(U) /\ Kept(r, q) /\ q.next_id = r.next_id /\ q.tag_ids = r.tag_ids
          /\ q.branch_ids = ids /\ q.branch_commit_ids = r.branch_commit_ids \ {first}
          /\ q.prev_id = r.prev_id /\ q.first_on_branch_id = r.first_on_branch_id
          /\ q.pred_live = r.pred_live
      BY <2>1, <3>1, <3>2 DEF ItemRecord, Kept
    <3> QED BY <1>1, <2>2, <3>2, <3>3 DEF SeveredItem, NotCut, r, q, first
  <2>3. CASE j = first
    <3>1. q = Rootless(r)
      BY <1>1, <1>2, <2>3
    <3> HIDE DEF r, q
    <3>2. q \in ItemRecord(U) /\ SameLinks(r, q) /\ q.prev_id = None
          /\ q.first_on_branch_id = None /\ q.pred_live = FALSE
      BY <2>1, <3>1, MadeRootless
    <3> QED BY <1>1, <2>3, <3>2 DEF SeveredItem, SameLinks, r, q
  <2>4. CASE j # source /\ j # first
    BY <1>2, <2>4, <2>1 DEF SeveredItem, NotCut, Kept, r, q
  <2> QED BY <2>2, <2>3, <2>4
<1> QED BY <1>2, <1>3 DEF g

\* The first revision of an LOD, its tags and the CVSBranch.
WithStart(f, s) ==
  {FirstRev(f, s)} \cup f.item[FirstRev(f, s)].tag_ids \cup (IF IsRev(f, s) THEN {} ELSE {s})

DeletesStart(f, s) ==
  /\ FirstRev(f, s) # None /\ IsUnneededBranchDelete(f, FirstRev(f, s))
  /\ MayPrune(f, WithStart(f, s)) /\ Pruned(f, RemoveBranchDelete(f, s), WithStart(f, s))

LEMMA BranchDeleteRemoved ==
  ASSUME NEW f, NEW U, Good(f, U), NEW s \in Lods(f)
  PROVE  /\ Good(RemoveBranchDelete(f, s), U)
         /\ Lods(f) \ {s} \subseteq Lods(RemoveBranchDelete(f, s))
         /\ RemoveBranchDelete(f, s) = f \/ DeletesStart(f, s)
<1> DEFINE first == FirstRev(f, s)
<1> SUFFICES ASSUME first # None, IsUnneededBranchDelete(f, first)
             PROVE  /\ Good(RemoveBranchDelete(f, s), U)
                    /\ Lods(f) \ {s} \subseteq Lods(RemoveBranchDelete(f, s))
                    /\ DeletesStart(f, s)
  BY DEF RemoveBranchDelete
<1> DEFINE g == RemoveBranchDelete(f, s)
           f1 == IF IsRev(f, s) THEN f ELSE SeverBranch(f, s)
           next == f.item[first].next_id
           tags == f.item[first].tag_ids
           X == {first} \cup tags \cup (IF IsRev(f, s) THEN {} ELSE {s})
           source == f.item[s].source_id
<1>1. Linked(f, U) /\ NtdbLinked(f) /\ Shaped(f, U)
  BY DEF Good, Linked
<1>2. None \notin Ids(f)
  BY <1>1, Surroundings
<1>3. /\ s \in Ids(f)
      /\ IsRev(f, s) => s = first /\ f.item[s].prev_id = None
      /\ ~IsRev(f, s) => IsBranch(f, s) /\ first = f.item[s].next_id
  BY <1>1 DEF Lods, FirstRev, IsBranch, IsRev, Linked, Roots
<1>4. /\ first \in Ids(f) /\ IsRev(f, first)
      /\ ~IsRev(f, s) => f.item[first].first_on_branch_id = s
      /\ IsRev(f, s) => f.item[first].first_on_branch_id = None
  BY <1>1, <1>2, <1>3, Surroundings
<1>5. /\ ~f.item[first].live /\ ~f.item[first].ntdbr /\ ToSet(f.item[first].branch_ids) = {}
      /\ f.item[first].log = "added on branch"
  BY EmptyList DEF IsUnneededBranchDelete
<1>6. next # None =>
        /\ next \in Ids(f) /\ IsRev(f, next) /\ f.item[next].prev_id = first
        /\ f.item[next].first_on_branch_id = None
  BY <1>1, <1>4, Surroundings
<1>7. \A t \in tags : t \in Ids(f) /\ ~IsRev(f, t) /\ ~IsBranch(f, t) /\ f.item[t].source_id = first
  BY <1>1, <1>4, Surroundings
<1>8. /\ Ids(f1) = Ids(f) \ (IF IsRev(f, s) THEN {} ELSE {s})
      /\ f1.root = f.root \cup {first}
      /\ first \in Ids(f1) /\ f1.item[first].next_id = next /\ f1.item[first].tag_ids = tags
  <2>1. CASE IsRev(f, s)
    BY <1>1, <1>3, <1>4, <2>1 DEF Linked, Roots
  <2>2. CASE ~IsRev(f, s)
    <3>1. f1 = SeverBranch(f, s) /\ IsBranch(f, s) /\ first = f.item[s].next_id
      BY <1>3, <2>2
    <3> HIDE DEF f1, first
    <3>2. Ids(f1) = Ids(f) \ {s} /\ f1.root = f.root \cup ({first} \ {None})
      BY <1>1, <1>3, <3>1, Severed
    <3>3. first \in Ids(f1)
      BY <1>3, <1>4, <2>2, <3>2
    <3>4. SeveredItem(f, s, first, f1.item[first])
      BY <1>1, <1>3, <3>1, <3>3, Severed
    <3> QED BY <1>4, <2>2, <3>2, <3>3, <3>4 DEF first, SeveredItem
  <2> QED BY <2>1, <2>2
<1>9. /\ Ids(g) = Ids(f) \ X
      /\ \A j \in Ids(g) : /\ j \in Ids(f1)
                           /\ g.item[j] = IF j = next THEN [f1.item[j] EXCEPT !.prev_id = None]
                                          ELSE f1.item[j]
      /\ g.root = ((f.root \cup {first}) \ {first}) \cup ({next} \ {None})
      /\ g = [item |-> g.item, root |-> g.root] /\ g.item = [j \in Ids(g) |-> g.item[j]]
  BY <1>8 DEF RemoveBranchDelete, DropRoot, Ids
<1> HIDE DEF g
<1>10. X \subseteq Ids(f)
  BY <1>3, <1>4, <1>7
<1>11. MayPrune(f, X)
  <2>1. \A x \in X : ~f.item[x].ntdbr /\ f.item[x].ntdbr_prev_id = None
    BY <1>1, <1>3, <1>5, <1>7, <1>4 DEF Linked, Classes, NtdbLinked, Rev12
  <2>2. ASSUME NEW j \in Ids(f) \ X PROVE f.item[j].source_id \notin X
    <3>1. ~IsRev(f, j) => f.item[j].source_id # first
      BY <1>1, <1>5, Surroundings
    <3> HIDE DEF first, tags
    <3> QED BY <1>2, <1>7, <1>10, <1>1, Surroundings, <3>1
  <2>3. ASSUME NEW t \in Ids(f) \ X PROVE f.item[t].first_on_branch_id \notin X
    BY <1>2, <1>10, <1>1, Surroundings, <1>4, <1>7, <1>3
  <2> QED BY <1>10, <2>1, <2>2, <2>3 DEF MayPrune
<1>12. ASSUME NEW j \in Ids(g)
       PROVE  /\ f.item[j].first_on_branch_id \notin X
              /\ f.item[j].prev_id \in X <=> j = next
  <2>1. j \in Ids(f) /\ j \notin X
    BY <1>9
  <2>2. f.item[j].first_on_branch_id \notin X
    BY <1>2, <1>10, <1>1, <2>1, Surroundings, <1>4, <1>7, <1>3
  <2>3. ASSUME f.item[j].prev_id \in X PROVE j = next
    <3>1. f.item[j].prev_id # None
      BY <1>2, <1>10, <2>3
    <3>2. f.item[j].prev_id = first
      BY <1>7, <2>3, <1>1, <2>1, <3>1, Surroundings
    <3>3. f.item[j].first_on_branch_id # None =>
            f.item[j].first_on_branch_id \in ToSet(f.item[f.item[j].prev_id].branch_ids)
      BY <1>1, <2>1, Surroundings
    <3>4. f.item[j].first_on_branch_id = None
      BY <1>5, <3>2, <3>3
    <3> QED BY <1>1, <2>1, <3>1, <3>2, <3>4, Surroundings
  <2> QED BY <2>2, <2>3, <1>2, <1>6, <2>1
<1>13. ASSUME NEW j \in Ids(g) PROVE PrunedItem(f, X, j, g.item[j]) /\ g.item[j] \in ItemRecord(U)
  <2> DEFINE r == f.item[j]
             p == f1.item[j]
             q == g.item[j]
  <2>1. j \in Ids(f) /\ j \notin X /\ j # first /\ r \in ItemRecord(U)
    BY <1>1, <1>9, ShapedItem
  <2>2. r.tag_ids \ X = r.tag_ids
    BY <1>1, <2>1, Surroundings, <1>3, <1>4, <1>7
  <2>3. IsInjective(r.branch_ids)
    BY <1>1, <2>1 DEF Linked, Sprouting
  <2>4. r.next_id \notin X
    BY <1>2, <1>10, <1>1, <2>1, Surroundings, <1>7, <1>3, <1>4
  <2>5. \A t \in ToSet(r.branch_ids) : t \in X <=> t = s /\ ~IsRev(f, s)
    BY <1>1, <2>1, Surroundings, <1>4, <1>7
  <2>6. \A c \in r.branch_commit_ids :
          (c \notin X /\ f.item[c].first_on_branch_id \notin X) <=> (c # first \/ IsRev(f, s))
    BY <1>1, <2>1, Surroundings, <1>4, <1>3, <1>7
  <2>7. /\ p \in ItemRecord(U) /\ Kept(r, p) /\ p.next_id = r.next_id /\ p.tag_ids = r.tag_ids
        /\ ToSet(p.branch_ids) = ToSet(r.branch_ids) \ X /\ IsInjective(p.branch_ids)
        /\ p.branch_commit_ids =
             {c \in r.branch_commit_ids : c \notin X /\ f.item[c].first_on_branch_id \notin X}
        /\ p.prev_id = r.prev_id /\ p.first_on_branch_id = r.first_on_branch_id
        /\ p.pred_live = r.pred_live
    <3>1. CASE IsRev(f, s)
      BY <3>1, <2>1, <2>3, <2>5, <2>6 DEF Kept
    <3>2. CASE ~IsRev(f, s)
      <4>1. f1 = SeverBranch(f, s) /\ IsBranch(f, s) /\ first = f.item[s].next_id /\ j \in Ids(f1)
        BY <1>3, <1>9, <3>2
      <4>2. j # source => s \notin ToSet(r.branch_ids)
        BY <1>1, <2>1, Surroundings
      <4>3. j # source => first \notin r.branch_commit_ids
        BY <1>1, <1>4, <1>3, <3>2, <1>2, Surroundings, <2>1
      <4> HIDE DEF f1, first, source, X
      <4>4. p \in ItemRecord(U) /\ SeveredItem(f, s, j, p)
        BY <1>1, <1>3, <4>1, Severed
      <4> HIDE DEF p, r
      <4>5. CASE j = source
        BY <2>1, <2>5, <2>6, <3>2, <4>1, <4>4, <4>5 DEF SeveredItem, NotCut, source, r
      <4>6. CASE j # source
        BY <2>1, <2>3, <2>5, <2>6, <3>2, <4>1, <4>2, <4>3, <4>4, <4>6 DEF SeveredItem, NotCut,
           source, r
      <4> QED BY <4>5, <4>6
    <3> QED BY <3>1, <3>2
  <2>8. CASE j = next
    <3>1. q = [p EXCEPT !.prev_id = None]
      BY <1>9, <2>8
    <3>2. IsCut(f, X, j) /\ r.first_on_branch_id = None
      BY <1>2, <1>6, <1>12, <2>1, <2>8 DEF IsCut
    <3>3. r.ntdbr_prev_id = None => r.pred_live = FALSE
      <4>1. IsRev(f, j) /\ r.prev_id = first
        BY <1>2, <1>6, <2>1, <2>8
      <4> QED BY <1>1, <1>2, <1>4, <1>5, <2>1, <4>1 DEF Linked, PredLive, EffectivePrev
    <3> HIDE DEF X, r, p, q
    <3>4. /\ q \in ItemRecord(U) /\ SameLinks(p, q)
          /\ q.prev_id = None /\ q.first_on_branch_id = p.first_on_branch_id
          /\ q.pred_live = p.pred_live
      BY <2>7, <3>1, PrevDropped
    <3>5. Cut(r, q) /\ Kept(r, q)
      BY <2>7, <3>2, <3>3, <3>4 DEF Cut, Kept, SameLinks
    <3> QED BY <2>2, <2>4, <2>7, <3>2, <3>4, <3>5 DEF PrunedItem, SameLinks, r, q
  <2>9. CASE j # next
    <3>1. q = p
      BY <1>9, <2>9
    <3>2. ~IsCut(f, X, j)
      BY <1>12, <2>9 DEF IsCut
    <3> HIDE DEF X, r, p, q
    <3> QED BY <2>2, <2>4, <2>7, <3>1, <3>2 DEF q, PrunedItem, NotCut, r
  <2> QED BY <2>8, <2>9
<1>14. Pruned(f, g, X)
  BY <1>9, <1>13 DEF Pruned
<1>15. Roots(g)
  <2>1. \A j \in Ids(g) : /\ j \in Ids(f) /\ j # first
                          /\ IsRev(g, j) <=> IsRev(f, j)
                          /\ g.item[j].prev_id = IF j = next THEN None ELSE f.item[j].prev_id
    BY <1>13, <1>12, <1>9 DEF PrunedItem, Kept, IsRev, IsCut, Cut, NotCut
  <2>2. next # None => next \in Ids(g)
    BY <1>2, <1>3, <1>4, <1>6, <1>7, <1>9
  <2>3. \A j \in f.root : j \in Ids(g) \/ j = first
    BY <1>1, <1>3, <1>7, <1>9 DEF Linked, Roots
  <2>4. f.root = {j \in Ids(f) : IsRev(f, j) /\ f.item[j].prev_id = None}
    BY <1>1 DEF Linked, Roots
  <2> HIDE DEF X, next, first
  <2>5. ASSUME NEW j \in g.root PROVE j \in Ids(g) /\ IsRev(g, j) /\ g.item[j].prev_id = None
    BY <1>6, <1>9, <2>1, <2>2, <2>3, <2>4, <2>5
  <2>6. ASSUME NEW j \in Ids(g), IsRev(g, j), g.item[j].prev_id = None PROVE j \in g.root
    BY <2>1, <2>4, <2>6, <1>2, <1>9
  <2> QED BY <2>5, <2>6 DEF Roots
<1>16. Shaped(g, U)
  BY <1>1, <1>9, <1>13, <1>15 DEF Shaped, Roots
<1>17. ASSUME NEW t \in Lods(f), t # s PROVE t \in Lods(g)
  <2>1. CASE t \in f.root
    <3>1. t # first
      BY <1>3, <1>17, <1>1, <2>1, <1>2, <1>4, Surroundings DEF Linked, Roots
    <3> QED BY <1>9, <2>1, <3>1 DEF Lods
  <2>2. CASE t \in Ids(f) /\ IsBranch(f, t)
    <3>1. t \in Ids(g)
      BY <1>4, <1>7, <1>9, <1>17, <2>2 DEF IsRev, IsBranch
    <3> QED BY <3>1, <1>13, <2>2 DEF Lods, PrunedItem, Kept, IsBranch
  <2> QED BY <1>17, <2>1, <2>2 DEF Lods
<1>18. X = WithStart(f, s)
  BY DEF WithStart
<1> HIDE DEF X, g
<1> QED BY <1>11, <1>14, <1>15, <1>16, PrunedGood, <1>17, <1>18 DEF DeletesStart, g

(* The methods that exclude symbols.                                       *)

\* A revision's branches and tags are other items than it and its neighbours.
Tags(f, T) == \A t \in T : t \in Ids(f) /\ ~IsRev(f, t) /\ ~IsBranch(f, t)

LEMMA ItemsReplaced ==
  ASSUME NEW f, f = [item |-> f.item, root |-> f.root], NEW h
  PROVE  [f EXCEPT !.item = h] = [item |-> h, root |-> f.root]
OBVIOUS

LEMMA TagsExcluded ==
  ASSUME NEW f, NEW U, Good(f, U), NEW T, Tags(f, T)
  PROVE  LET g == ExcludeTags(f, T)
         IN  Good(g, U) /\ MayPrune(f, T) /\ Pruned(f, g, T) /\ Lods(g) = Lods(f)
<1> DEFINE g == ExcludeTags(f, T)
<1>1. Linked(f, U) /\ NtdbLinked(f) /\ Shaped(f, U)
  BY DEF Good, Linked
<1>2. None \notin Ids(f)
  BY <1>1, Surroundings
<1>3. \A t \in T : t \in Ids(f) /\ ~IsRev(f, t) /\ ~IsBranch(f, t)
  BY DEF Tags
<1>4. /\ Ids(g) = Ids(f) \ T /\ g.root = f.root
      /\ g = [item |-> g.item, root |-> g.root] /\ g.item = [j \in Ids(g) |-> g.item[j]]
      /\ \A j \in Ids(g) : g.item[j] = [f.item[j] EXCEPT !.tag_ids = @ \ T]
  BY <1>1, ItemsReplaced DEF Shaped, ExcludeTags, Ids
<1> HIDE DEF g
<1>5. MayPrune(f, T)
  BY <1>1, <1>3, <1>2, Surroundings DEF Linked, Classes, MayPrune
<1>6. ASSUME NEW j \in Ids(g) PROVE PrunedItem(f, T, j, g.item[j]) /\ g.item[j] \in ItemRecord(U)
  <2> DEFINE r == f.item[j]
             q == g.item[j]
  <2>1. j \in Ids(f) /\ r \in ItemRecord(U) /\ IsInjective(r.branch_ids)
    BY <1>1, <1>4, ShapedItem DEF Linked, Sprouting
  <2>2. r.next_id \notin T /\ r.prev_id \notin T /\ r.first_on_branch_id \notin T
    BY <1>1, <1>2, <1>3, <2>1, Surroundings
  <2>3. ToSet(r.branch_ids) \ T = ToSet(r.branch_ids)
    BY <1>1, <1>3, <2>1, Surroundings
  <2>4. \A c \in r.branch_commit_ids : c \notin T /\ f.item[c].first_on_branch_id \notin T
    BY <1>1, <1>2, <1>3, <2>1, Surroundings
  <2>5. q = [r EXCEPT !.tag_ids = @ \ T]
    BY <1>4
  <2> HIDE DEF r, q
  <2>6. /\ q \in ItemRecord(U) /\ Kept(r, q) /\ NotCut(r, q) /\ q.next_id = r.next_id
        /\ q.tag_ids = r.tag_ids \ T /\ q.branch_ids = r.branch_ids
        /\ q.branch_commit_ids = r.branch_commit_ids
    BY <2>1, <2>5 DEF ItemRecord, Kept, NotCut
  <2> QED BY <2>1, <2>2, <2>3, <2>4, <2>6 DEF PrunedItem, r, q, IsCut
<1>7. \A j \in Ids(g) : /\ IsRev(g, j) <=> IsRev(f, j)
                        /\ IsBranch(g, j) <=> IsBranch(f, j)
                        /\ g.item[j].prev_id = f.item[j].prev_id
  <2> TAKE j \in Ids(g)
  <2>1. j \in Ids(f) /\ f.item[j] \in ItemRecord(U)
    BY <1>1, <1>4, ShapedItem
  <2> QED BY <1>4, <2>1 DEF IsRev, IsBranch, ItemRecord
<1>8. Roots(g)
  BY <1>3, <1>4, <1>7, <1>1 DEF Roots, Linked
<1>9. Lods(g) = Lods(f)
  BY <1>3, <1>4, <1>7 DEF Lods
<1>10. Shaped(g, U)
  BY <1>1, <1>4, <1>6 DEF Shaped
<1> QED BY <1>5, <1>4, <1>6, <1>8, <1>9, <1>10, PrunedGood DEF g, Pruned

(***************************************************************************)
(* The revisions of an LOD, in a linked file.                              *)
(***************************************************************************)
LEMMA LodRevisions ==
  ASSUME NEW f, NEW U, Linked(f, U), NEW s \in Lods(f)
  PROVE  /\ s \in Ids(f) /\ Walkable(f) /\ MayStart(f, s)
         /\ IsRev(f, s) => FirstRev(f, s) = s /\ f.item[s].prev_id = None
         /\ ~IsRev(f, s) => IsBranch(f, s) /\ FirstRev(f, s) = f.item[s].next_id
         /\ FirstRev(f, s) # None =>
              f.item[FirstRev(f, s)].first_on_branch_id = IF IsRev(f, s) THEN None ELSE s
         /\ \A i \in Revisions(f, s) :
              /\ i \in Ids(f) /\ IsRev(f, i) /\ f.item[i].lod = LodAt(f, s)
              /\ i # FirstRev(f, s) =>
                   /\ f.item[i].prev_id \in Revisions(f, s)
                   /\ f.item[i].first_on_branch_id = None
<1>1. s \in Ids(f) /\ None \notin Ids(f) /\ Walkable(f)
  BY LinkedWalkable, Surroundings DEF Lods, Linked, Roots
<1>2. MayStart(f, s)
  BY <1>1, LinkedStarts
<1>3. /\ IsRev(f, s) => FirstRev(f, s) = s /\ f.item[s].prev_id = None
      /\ ~IsRev(f, s) => IsBranch(f, s) /\ FirstRev(f, s) = f.item[s].next_id
  BY DEF Lods, FirstRev, Linked, Roots, IsRev, IsBranch
<1>4. \A i \in Revisions(f, s) :
        /\ i \in Ids(f) /\ IsRev(f, i)
        /\ i # FirstRev(f, s) =>
             /\ f.item[i].prev_id \in Revisions(f, s)
             /\ f.item[f.item[i].prev_id].next_id = i
  BY <1>1, <1>2, RevisionsOf
<1>5. ASSUME NEW i \in Revisions(f, s), i # FirstRev(f, s) PROVE f.item[i].first_on_branch_id = None
  BY <1>1, <1>4, <1>5, Surroundings
<1>6. ASSUME FirstRev(f, s) # None
      PROVE  \A i \in Revisions(f, s) : f.item[i].lod = LodAt(f, s)
  <2> DEFINE S == {i \in Revisions(f, s) : f.item[i].lod = LodAt(f, s)}
  <2>1. FirstRev(f, s) \in S
    BY <1>1, <1>2, <1>6, RevisionsOf, <1>3, Surroundings DEF LodAt
  <2>2. \A i \in S : f.item[i].next_id \in Revisions(f, s) => f.item[i].next_id \in S
    BY <1>1, <1>4, Surroundings
  <2> HIDE DEF S
  <2> QED BY <1>1, <1>2, <2>1, <2>2, RevisionsLeast DEF S
<1> QED BY <1>1, <1>2, <1>3, Surroundings, <1>4, <1>5, <1>6, RevisionsOf

\* Every revision belongs to an LOD.
LEMMA RevisionLods ==
  ASSUME NEW f, NEW U, Linked(f, U)
  PROVE  \A i \in Ids(f) : IsRev(f, i) => \E s \in Lods(f) : i \in Revisions(f, s)
<1> DEFINE S == {i \in Ids(f) : IsRev(f, i) /\ \A s \in Lods(f) : i \notin Revisions(f, s)}
<1> SUFFICES ASSUME S # {} PROVE FALSE
  OBVIOUS
<1>1. PICK i \in S : f.item[i].prev_id \notin S
  BY DEF Linked, PrevsEnd
<1>2. /\ i \in Ids(f) /\ IsRev(f, i) /\ \A s \in Lods(f) : i \notin Revisions(f, s)
      /\ f.item[i].prev_id \notin S
  BY <1>1
<1> HIDE DEF S
<1>3. None \notin Ids(f)
  BY Surroundings
<1>4. CASE f.item[i].prev_id = None
  BY <1>2, <1>4, LodRevisions, <1>3, RevisionsOf DEF Lods, Linked, Roots
<1>5. CASE f.item[i].first_on_branch_id # None
  BY <1>2, <1>5, Surroundings, LodRevisions, <1>3, RevisionsOf DEF Lods
<1>6. CASE f.item[i].prev_id # None /\ f.item[i].first_on_branch_id = None
  BY <1>2, <1>6, Surroundings, LodRevisions, <1>3, RevisionsOf DEF S
<1> QED BY <1>4, <1>5, <1>6

(***************************************************************************)
(* The NTDB revisions are the first ones of one LOD.                       *)
(***************************************************************************)
LEMMA LodNtdbrs ==
  ASSUME NEW f, NEW U, Linked(f, U), NtdbLinked(f), NEW s \in Lods(f)
  PROVE  /\ ~StartsWithNtdbr(f, s) => \A i \in Revisions(f, s) : ~f.item[i].ntdbr
         /\ StartsWithNtdbr(f, s) =>
              /\ IsNtdbStart(f, FirstRev(f, s))
              /\ \A i \in Ids(f) : f.item[i].ntdbr => i \in Revisions(f, s)
         /\ \A i \in Revisions(f, s) : ~f.item[i].ntdbr => ~IsPureNtdb(f, s)
<1>1. /\ s \in Ids(f) /\ Walkable(f) /\ MayStart(f, s) /\ None \notin Ids(f)
      /\ \A i \in Revisions(f, s) : i \in Ids(f) /\ IsRev(f, i)
  BY LodRevisions, Surroundings
<1>2. \A i \in Ids(f) : IsRev(f, i) /\ ~f.item[i].ntdbr /\ f.item[i].next_id # None =>
         ~f.item[f.item[i].next_id].ntdbr
  BY DEF NtdbLinked, NtdbrsFirst
<1>3. ASSUME ~StartsWithNtdbr(f, s) PROVE \A i \in Revisions(f, s) : ~f.item[i].ntdbr
  <2>1. CASE FirstRev(f, s) = None
    BY <1>1, <2>1, RevisionsOf
  <2>2. CASE FirstRev(f, s) # None
    <3> DEFINE S == {i \in Revisions(f, s) : ~f.item[i].ntdbr}
    <3>1. \A i \in S : f.item[i].next_id \in Revisions(f, s) => f.item[i].next_id \in S
      BY <1>1, <1>2
    <3> HIDE DEF S
    <3> QED BY <1>1, <1>3, <2>2, RevisionsOf, <3>1, RevisionsLeast DEF S, StartsWithNtdbr
  <2> QED BY <2>1, <2>2
<1>4. ASSUME StartsWithNtdbr(f, s)
      PROVE  /\ IsNtdbStart(f, FirstRev(f, s))
             /\ \A i \in Ids(f) : f.item[i].ntdbr => i \in Revisions(f, s)
  <2> DEFINE first == FirstRev(f, s)
  <2>1. first # None /\ first \in Ids(f) /\ first \in Revisions(f, s) /\ f.item[first].ntdbr
    BY <1>1, <1>4, RevisionsOf DEF StartsWithNtdbr
  <2>2. IsNtdbStart(f, first)
    BY <2>1, <1>1, LodRevisions DEF IsNtdbStart
  <2> HIDE DEF first
  <2> DEFINE S == {i \in Ids(f) : f.item[i].ntdbr /\ i \notin Revisions(f, s)}
  <2>3. ASSUME S # {} PROVE FALSE
    <3>1. S \in SUBSET {i \in Ids(f) : IsRev(f, i)}
      BY DEF Linked, Classes
    <3>2. PICK i \in S : f.item[i].prev_id \notin S
      BY <2>3, <3>1 DEF Linked, PrevsEnd
    <3>3. /\ i \in Ids(f) /\ IsRev(f, i) /\ f.item[i].ntdbr /\ i \notin Revisions(f, s)
          /\ f.item[i].prev_id \notin S
      BY <3>1, <3>2
    <3> DEFINE p == f.item[i].prev_id
    <3>4. p \in Ids(f) /\ IsRev(f, p) /\ f.item[p].next_id = i
      BY <3>3, <2>1, <2>2, Surroundings DEF IsNtdbStart, NtdbLinked, NtdbStarts
    <3>5. p \notin S
      BY <3>3
    <3> HIDE DEF p
    <3> QED BY <1>1, <3>3, <3>4, <3>5, RevisionsOf DEF NtdbLinked, NtdbrsFirst
  <2> QED BY <2>2, <2>3 DEF first
<1>5. ASSUME NEW i \in Revisions(f, s), ~f.item[i].ntdbr PROVE ~IsPureNtdb(f, s)
  <2>1. i \in Ids(f) /\ IsRev(f, i) /\ FirstRev(f, i) = i /\ MayStart(f, i) /\ i # None
    BY <1>1 DEF FirstRev, MayStart
  <2> DEFINE S == {j \in Revisions(f, s) : ~f.item[j].ntdbr}
  <2>2. \A j \in S : f.item[j].next_id \in Revisions(f, i) => f.item[j].next_id \in S
    BY <1>1, <2>1, RevisionsOf, <1>2
  <2>3. i \in S
    BY <1>5
  <2> HIDE DEF S
  <2>4. Revisions(f, i) \subseteq S
    BY <1>1, <2>1, <2>2, <2>3, RevisionsLeast
  <2> DEFINE last == LastRev(f, i)
  <2> HIDE DEF last
  <2> QED BY <2>4, <1>1, <2>1, RevisionsOf DEF IsPureNtdb, S
<1> QED BY <1>3, <1>4, <1>5

\* Nothing sprouts from the LOD but from its NTDB revisions.
Bare(f, s) ==
  \A j \in Ids(f) : ~IsRev(f, j) /\ f.item[j].source_id \in Revisions(f, s) =>
    f.item[f.item[j].source_id].ntdbr

\* What is excluded with it.
Gone(f, s) ==
  {i \in Revisions(f, s) : ~f.item[i].ntdbr}
    \cup (IF StartsWithNtdbr(f, s) \/ IsRev(f, s) THEN {} ELSE {s})

LEMMA GoneWith ==
  ASSUME NEW f, NEW U, Good(f, U), NEW s \in Lods(f), LodAt(f, s) # Trunk, Bare(f, s)
  PROVE  /\ MayPrune(f, Gone(f, s))
         /\ Lods(f) \cap Gone(f, s) = IF StartsWithNtdbr(f, s) THEN {} ELSE {s}
         /\ \A j \in Ids(f) \ Gone(f, s) :
              /\ ~IsCut(f, Gone(f, s), j)
              /\ f.item[j].next_id \in Gone(f, s) => StartsWithNtdbr(f, s)
              /\ f.item[j].tag_ids \cap Gone(f, s) = {}
              /\ \A t \in ToSet(f.item[j].branch_ids) : t \in Gone(f, s) <=> t = s /\ s \in Gone(f, s)
              /\ \A c \in f.item[j].branch_commit_ids :
                   c \in Gone(f, s) \/ f.item[c].first_on_branch_id \in Gone(f, s)
                     <=> c = FirstRev(f, s) /\ s \in Gone(f, s)
<1> DEFINE X == Gone(f, s)
           R == Revisions(f, s)
           first == FirstRev(f, s)
<1>1. Linked(f, U) /\ NtdbLinked(f) /\ None \notin Ids(f)
  BY Surroundings DEF Good
<1>2. /\ s \in Ids(f) /\ Walkable(f) /\ MayStart(f, s)
      /\ IsRev(f, s) => first = s /\ f.item[s].prev_id = None
      /\ ~IsRev(f, s) => IsBranch(f, s) /\ first = f.item[s].next_id
      /\ first # None => f.item[first].first_on_branch_id = IF IsRev(f, s) THEN None ELSE s
      /\ \A i \in R : /\ i \in Ids(f) /\ IsRev(f, i) /\ f.item[i].lod = LodAt(f, s)
                      /\ i # first => f.item[i].prev_id \in R /\ f.item[i].first_on_branch_id = None
  BY <1>1, LodRevisions
<1>3. /\ first # None => first \in R
      /\ \A i \in R : f.item[i].next_id # None => f.item[i].next_id \in R
      /\ first = None => R = {}
  BY <1>2, RevisionsOf
<1>4. ~StartsWithNtdbr(f, s) => \A i \in R : ~f.item[i].ntdbr
  BY <1>1, LodNtdbrs
<1>5. \A x : x \in X <=> \/ x \in R /\ ~f.item[x].ntdbr
                         \/ x = s /\ ~IsRev(f, s) /\ ~StartsWithNtdbr(f, s)
  BY DEF Gone
<1>6. StartsWithNtdbr(f, s) <=> first # None /\ f.item[first].ntdbr
  BY DEF StartsWithNtdbr
<1>7. \A j \in Ids(f) : ~IsRev(f, j) /\ f.item[j].source_id \in R => f.item[f.item[j].source_id].ntdbr
  BY DEF Bare
<1> HIDE DEF X, R, first
<1>8. X \subseteq Ids(f) /\ None \notin X
  BY <1>1, <1>2, <1>5
<1>9. \A x \in X : IF IsRev(f, x) THEN x \in R /\ ~f.item[x].ntdbr
                                  ELSE x = s /\ IsBranch(f, s) /\ ~StartsWithNtdbr(f, s)
  BY <1>2, <1>5
<1>10. Lods(f) \cap X = IF StartsWithNtdbr(f, s) THEN {} ELSE {s}
  BY <1>1, <1>9, LodRevisions, <1>2, Surroundings, <1>6, <1>3, <1>4, <1>5
<1>11. ASSUME NEW c \in Ids(f), IsRev(f, c), f.item[c].first_on_branch_id # None
       PROVE  /\ c \in X \/ f.item[c].first_on_branch_id \in X <=> c = first /\ s \in X
              /\ f.item[c].first_on_branch_id \in X => c \in X
  BY <1>1, <1>11, Surroundings, <1>2, <1>9, <1>6, <1>5, <1>3, <1>4
<1>12. ASSUME NEW j \in Ids(f) \ X PROVE ~IsCut(f, X, j)
  <2> DEFINE p == f.item[j].prev_id
             b == f.item[j].first_on_branch_id
  <2>1. ASSUME p \in X PROVE FALSE
    <3>1. p # None /\ IsRev(f, j) /\ IsRev(f, p) /\ p \in Ids(f)
      BY <1>1, <1>8, <2>1, Surroundings
    <3>2. p \in R /\ ~f.item[p].ntdbr
      BY <1>9, <2>1, <3>1
    <3>3. CASE b = None
      BY <1>1, <3>1, <3>3, Surroundings, <1>3, <3>2, <1>5 DEF NtdbLinked, NtdbrsFirst
    <3>4. CASE b # None
      BY <1>1, <3>1, <3>4, Surroundings, <1>7, <3>2
    <3> QED BY <3>3, <3>4
  <2> QED BY <1>1, Surroundings, <1>8, <1>11, <2>1 DEF IsCut
<1>13. ASSUME NEW j \in Ids(f) \ X, f.item[j].next_id \in X PROVE StartsWithNtdbr(f, s)
  BY <1>1, <1>8, <1>13, Surroundings, <1>9, <1>2, <1>5, <1>4
<1>14. MayPrune(f, X)
  <2>1. \A x \in X : ~f.item[x].ntdbr /\ f.item[x].ntdbr_prev_id = None
    <3> TAKE x \in X
    <3>1. CASE IsRev(f, x)
      <4>1. x \in Ids(f) /\ f.item[x].lod # Trunk /\ ~f.item[x].ntdbr
        BY <1>2, <1>9, <3>1
      <4> QED BY <1>1, <4>1 DEF NtdbLinked, Rev12
    <3>2. CASE ~IsRev(f, x)
      BY <1>1, <1>8, <3>2 DEF Linked, Classes
    <3> QED BY <3>1, <3>2
  <2>2. ASSUME NEW j \in Ids(f) \ X PROVE f.item[j].source_id \notin X
    BY <1>1, Surroundings, <1>7, <1>8, <1>9
  <2> QED BY <1>8, <2>1, <2>2, <1>12 DEF MayPrune, IsCut
<1>15. ASSUME NEW j \in Ids(f) \ X
       PROVE  /\ f.item[j].tag_ids \cap X = {}
              /\ \A t \in ToSet(f.item[j].branch_ids) : t \in X <=> t = s /\ s \in X
              /\ \A c \in f.item[j].branch_commit_ids :
                   c \in X \/ f.item[c].first_on_branch_id \in X <=> c = first /\ s \in X
  BY <1>1, Surroundings, <1>9, <1>11
<1> QED BY <1>10, <1>12, <1>13, <1>14, <1>15 DEF X, first

LEMMA NextDropped ==
  ASSUME NEW U, NEW r \in ItemRecord(U), NEW q, q = [r EXCEPT !.next_id = None]
  PROVE  /\ q \in ItemRecord(U) /\ Kept(r, q) /\ NotCut(r, q) /\ q.next_id = None
         /\ q.tag_ids = r.tag_ids /\ q.branch_ids = r.branch_ids
         /\ q.branch_commit_ids = r.branch_commit_ids
BY DEF ItemRecord, Kept, NotCut

DropsBranch(U, r, b, c, q) ==
  /\ q \in ItemRecord(U) /\ Kept(r, q) /\ NotCut(r, q) /\ q.next_id = r.next_id
  /\ q.tag_ids = r.tag_ids /\ q.branch_commit_ids = r.branch_commit_ids \ {c}
  /\ ToSet(q.branch_ids) = ToSet(r.branch_ids) \ {b} /\ IsInjective(q.branch_ids)

LEMMA BranchDropped ==
  ASSUME NEW U, NEW r \in ItemRecord(U), IsInjective(r.branch_ids), NEW b, NEW c
  PROVE  DropsBranch(U, r, b, c,
           [r EXCEPT !.branch_ids = RemoveFirst(@, b), !.branch_commit_ids = @ \ {c}])
<1> DEFINE q == [r EXCEPT !.branch_ids = RemoveFirst(@, b), !.branch_commit_ids = @ \ {c}]
<1> DEFINE ids == RemoveFirst(r.branch_ids, b)
<1>1. ids \in Seq(U) /\ ToSet(ids) = ToSet(r.branch_ids) \ {b} /\ IsInjective(ids)
  BY RemoveFirstFacts DEF ItemRecord
<1> DEFINE commits == r.branch_commit_ids \ {c}
<1>2. q = [r EXCEPT !.branch_ids = ids, !.branch_commit_ids = commits]
  OBVIOUS
<1>3. commits \in SUBSET U
  BY DEF ItemRecord
<1> HIDE DEF ids, commits, q
<1>4. q \in ItemRecord(U)
  BY <1>1, <1>2, <1>3 DEF ItemRecord
<1> QED BY <1>1, <1>4, <1>2 DEF commits, q, DropsBranch, ItemRecord, Kept, NotCut

LEMMA BranchExcluded ==
  ASSUME NEW f, NEW U, Good(f, U), NEW s \in Lods(f), LodAt(f, s) # Trunk, Bare(f, s)
  PROVE  LET g == ExcludeBranch(f, s)
         IN  /\ Good(g, U) /\ MayPrune(f, Gone(f, s)) /\ Pruned(f, g, Gone(f, s))
             /\ Lods(g) = Lods(f) \ Gone(f, s)
<1> DEFINE g == ExcludeBranch(f, s)
           X == Gone(f, s)
           first == FirstRev(f, s)
           source == f.item[s].source_id
<1>1. Linked(f, U) /\ NtdbLinked(f) /\ Shaped(f, U) /\ None \notin Ids(f)
  BY Surroundings DEF Good, Linked
<1>2. /\ s \in Ids(f) /\ Walkable(f) /\ MayStart(f, s)
      /\ IsRev(f, s) => first = s /\ f.item[s].prev_id = None /\ source = None
      /\ ~IsRev(f, s) => IsBranch(f, s) /\ source \in Ids(f)
      /\ first = None => Revisions(f, s) = {} /\ ~IsRev(f, s)
      /\ first # None => first \in Revisions(f, s)
  BY <1>1, LodRevisions, RevisionsOf, Surroundings
<1>3. /\ MayPrune(f, X)
      /\ Lods(f) \cap X = IF StartsWithNtdbr(f, s) THEN {} ELSE {s}
      /\ \A j \in Ids(f) \ X :
           /\ ~IsCut(f, X, j)
           /\ f.item[j].next_id \in X => StartsWithNtdbr(f, s)
           /\ f.item[j].tag_ids \cap X = {}
           /\ \A t \in ToSet(f.item[j].branch_ids) : t \in X <=> t = s /\ s \in X
           /\ \A c \in f.item[j].branch_commit_ids :
                c \in X \/ f.item[c].first_on_branch_id \in X <=> c = first /\ s \in X
  BY GoneWith
<1>4. /\ Ids(g) = Ids(f) \ X
      /\ g = [item |-> g.item, root |-> g.root] /\ g.item = [j \in Ids(g) |-> g.item[j]]
      /\ StartsWithNtdbr(f, s) =>
           /\ g.root = f.root
           /\ \A j \in Ids(g) : g.item[j] = IF f.item[j].next_id \in X
                                            THEN [f.item[j] EXCEPT !.next_id = None] ELSE f.item[j]
      /\ ~StartsWithNtdbr(f, s) =>
           /\ g.root = f.root \ {first}
           /\ \A j \in Ids(g) :
                g.item[j] = IF j = source
                            THEN [f.item[j] EXCEPT !.branch_ids = RemoveFirst(@, s),
                                                   !.branch_commit_ids = @ \ {first}]
                            ELSE f.item[j]
  <2>1. CASE StartsWithNtdbr(f, s)
    BY <2>1, <1>1, ItemsReplaced DEF Gone, Shaped, ExcludeBranch, Ids
  <2>2. CASE ~StartsWithNtdbr(f, s)
    BY <1>1, <1>2, LodNtdbrs, <2>2 DEF Gone, ExcludeBranch, Ids
  <2> QED BY <2>1, <2>2
<1> HIDE DEF g, X, first
<1>5. ASSUME NEW j \in Ids(g) PROVE PrunedItem(f, X, j, g.item[j]) /\ g.item[j] \in ItemRecord(U)
  <2> DEFINE r == f.item[j]
             q == g.item[j]
  <2>1. j \in Ids(f) /\ j \in Ids(f) \ X /\ r \in ItemRecord(U) /\ IsInjective(r.branch_ids)
    BY <1>1, <1>4, ShapedItem DEF Linked, Sprouting
  <2>2. /\ ~IsCut(f, X, j) /\ r.tag_ids \ X = r.tag_ids
        /\ r.next_id \in X => StartsWithNtdbr(f, s)
    BY <1>3, <2>1
  <2>3. ToSet(r.branch_ids) \ X = IF s \in X THEN ToSet(r.branch_ids) \ {s} ELSE ToSet(r.branch_ids)
    BY <1>3, <2>1
  <2>4. {c \in r.branch_commit_ids : c \notin X /\ f.item[c].first_on_branch_id \notin X}
          = IF s \in X THEN r.branch_commit_ids \ {first} ELSE r.branch_commit_ids
    BY <1>3, <2>1
  <2>5. CASE StartsWithNtdbr(f, s)
    <3>1. s \notin X
      BY <1>3, <2>5
    <3>2. q = IF r.next_id \in X THEN [r EXCEPT !.next_id = None] ELSE r
      BY <1>4, <2>5
    <3> HIDE DEF r, q
    <3>3. /\ q \in ItemRecord(U) /\ Kept(r, q) /\ NotCut(r, q)
          /\ q.next_id = IF r.next_id \in X THEN None ELSE r.next_id
          /\ q.tag_ids = r.tag_ids /\ q.branch_ids = r.branch_ids
          /\ q.branch_commit_ids = r.branch_commit_ids
      BY <2>1, <3>2, NextDropped DEF Kept, NotCut
    <3> QED BY <2>1, <2>2, <2>3, <2>4, <3>1, <3>3 DEF PrunedItem, r, q
  <2>6. CASE ~StartsWithNtdbr(f, s)
    <3>1. s \in X /\ r.next_id \notin X
      BY <1>3, <2>2, <2>6
    <3>2. q = IF j = source THEN [r EXCEPT !.branch_ids = RemoveFirst(@, s),
                                           !.branch_commit_ids = @ \ {first}] ELSE r
      BY <1>4, <2>6
    <3>3. ASSUME j # source PROVE s \notin ToSet(r.branch_ids) /\ first \notin r.branch_commit_ids
      BY <1>1, <2>1, Surroundings, LodRevisions, <3>3 DEF first
    <3> HIDE DEF r, q
    <3>4. /\ q \in ItemRecord(U) /\ Kept(r, q) /\ NotCut(r, q)
          /\ q.next_id = r.next_id
          /\ q.tag_ids = r.tag_ids /\ ToSet(q.branch_ids) = ToSet(r.branch_ids) \ {s}
          /\ IsInjective(q.branch_ids)
          /\ q.branch_commit_ids = r.branch_commit_ids \ {first}
      <4>1. CASE j = source
        <5>1. DropsBranch(U, r, s, first, q)
          BY <3>2, <4>1, <2>1, BranchDropped
        <5> QED BY <5>1 DEF DropsBranch
      <4>2. CASE j # source
        BY <3>2, <4>2, <2>1, <3>3 DEF Kept, NotCut
      <4> QED BY <4>1, <4>2
    <3> QED BY <2>1, <2>2, <2>3, <2>4, <3>1, <3>4 DEF PrunedItem, r, q
  <2> QED BY <2>5, <2>6
<1>6. Pruned(f, g, X)
  BY <1>4, <1>5 DEF Pruned
<1>7. \A j \in Ids(g) : /\ j \in Ids(f) \ X
                        /\ IsRev(g, j) <=> IsRev(f, j)
                        /\ IsBranch(g, j) <=> IsBranch(f, j)
                        /\ g.item[j].prev_id = f.item[j].prev_id
  BY <1>3, <1>4, <1>5 DEF PrunedItem, Kept, NotCut, IsRev, IsBranch
<1>8. f.root = {j \in Ids(f) : IsRev(f, j) /\ f.item[j].prev_id = None}
  BY <1>1 DEF Linked, Roots
<1>9. g.root = f.root \ X
  <2>1. f.root \subseteq Lods(f)
    BY DEF Lods
  <2>2. CASE StartsWithNtdbr(f, s)
    BY <1>3, <1>4, <2>1, <2>2
  <2>3. CASE ~StartsWithNtdbr(f, s)
    <3>1. f.root \ X = f.root \ {s}
      BY <1>3, <2>1, <2>3
    <3>2. CASE IsRev(f, s)
      BY <1>2, <1>4, <2>3, <3>1, <3>2
    <3>3. CASE ~IsRev(f, s)
      <4>1. first \notin f.root
        BY <1>8, <1>1, <3>3, LodRevisions, <1>2, Surroundings DEF first
      <4> QED BY <1>4, <2>3, <3>1, <1>8, <3>3, <4>1
    <3> QED BY <3>2, <3>3
  <2> QED BY <2>2, <2>3
<1>10. Roots(g)
  BY <1>4, <1>7, <1>8, <1>9 DEF Roots
<1>11. Lods(g) = Lods(f) \ X
  BY <1>4, <1>7, <1>9 DEF Lods
<1>12. Shaped(g, U)
  BY <1>1, <1>4, <1>9, <1>5 DEF Shaped
<1> QED BY <1>3, <1>6, <1>10, <1>11, <1>12, PrunedGood DEF g, X

(***************************************************************************)
(* The loops that exclude LODs, and what they keep on the way: a symbol on *)
(* an excluded LOD is excluded too, an LOD already visited is gone unless  *)
(* it starts with NTDB revisions, and once those have been cut off their   *)
(* LOD nothing but NTDB revisions is left of it.                           *)
(***************************************************************************)
Orphanless(f, E) ==
  \A j \in Ids(f) :
    LET source == f.item[j].source_id
    IN  ~IsRev(f, j) /\ ~f.item[source].ntdbr /\ f.item[source].lod \in E => f.item[j].symbol \in E

Visited(f, P, E) ==
  \A t \in Lods(f) \ P : LodAt(f, t) \in E => StartsWithNtdbr(f, t)

AllNtdbrs(f) ==
  \A i \in Ids(f) : f.item[i].ntdbr /\ f.item[i].next_id # None => f.item[f.item[i].next_id].ntdbr

Excluding(f, U, P, E, ntdbr) ==
  /\ Good(f, U) /\ P \subseteq Lods(f) /\ Trunk \notin E
  /\ Orphanless(f, E) /\ Visited(f, P, E) /\ (ntdbr => AllNtdbrs(f))

\* A branch that is to be a tag has no revisions.
TagsEmpty(f, T) ==
  \A i \in Ids(f) : IsBranch(f, i) /\ f.item[i].symbol \in T => f.item[i].next_id = None

LEMMA PrunedKeeps ==
  ASSUME NEW f, NEW g, NEW X, NEW U, Good(f, U), Good(g, U), MayPrune(f, X), Pruned(f, g, X)
  PROVE  /\ \A E : Orphanless(f, E) => Orphanless(g, E)
         /\ \A T : TagsEmpty(f, T) => TagsEmpty(g, T)
         /\ AllNtdbrs(f) => AllNtdbrs(g)
         /\ \A t \in Lods(f) \cap Lods(g) :
              /\ LodAt(g, t) = LodAt(f, t)
              /\ StartsWithNtdbr(f, t) => StartsWithNtdbr(g, t)
              /\ Revisions(g, t) \subseteq Revisions(f, t)
<1>1. /\ Linked(f, U) /\ Linked(g, U) /\ None \notin Ids(f) /\ None \notin Ids(g) /\ None \notin X
      /\ X \subseteq Ids(f)
  BY Surroundings DEF Good, MayPrune
<1>2. ASSUME NEW j \in Ids(g)
      PROVE  /\ j \in Ids(f) /\ j \notin X
             /\ IsRev(g, j) <=> IsRev(f, j)
             /\ IsBranch(g, j) <=> IsBranch(f, j)
             /\ g.item[j].symbol = f.item[j].symbol /\ g.item[j].lod = f.item[j].lod
             /\ g.item[j].ntdbr = f.item[j].ntdbr /\ g.item[j].source_id = f.item[j].source_id
             /\ g.item[j].next_id = IF f.item[j].next_id \in X THEN None ELSE f.item[j].next_id
  BY DEF Pruned, PrunedItem, Kept, IsRev, IsBranch
<1>3. ASSUME NEW t \in Lods(f) \cap Lods(g)
      PROVE  /\ LodAt(g, t) = LodAt(f, t)
             /\ StartsWithNtdbr(f, t) => StartsWithNtdbr(g, t)
             /\ Revisions(g, t) \subseteq Revisions(f, t)
  <2>1. /\ t \in Ids(f) /\ Walkable(f) /\ MayStart(f, t)
        /\ \A i \in Revisions(f, t) : i \in Ids(f) /\ IsRev(f, i)
    BY <1>1, LodRevisions
  <2>2. /\ t \in Ids(g) /\ Walkable(g) /\ MayStart(g, t)
        /\ \A i \in Revisions(g, t) : i \in Ids(g) /\ IsRev(g, i)
    BY <1>1, LodRevisions
  <2>3. FirstRev(g, t) = IF FirstRev(f, t) \in X THEN None ELSE FirstRev(f, t)
    BY <1>2, <2>2 DEF FirstRev
  <2>4. ASSUME StartsWithNtdbr(f, t) PROVE StartsWithNtdbr(g, t)
    BY <2>1, <2>4, <1>2, <2>3 DEF StartsWithNtdbr, MayStart, MayPrune, Pruned
  <2>5. Revisions(g, t) \subseteq Revisions(f, t)
    <3>1. CASE FirstRev(g, t) = None
      BY <2>2, <3>1, RevisionsOf
    <3>2. CASE FirstRev(g, t) # None
      <4> DEFINE S == Revisions(f, t) \cap Ids(g)
      <4>1. \A i \in S : g.item[i].next_id \in Revisions(g, t) => g.item[i].next_id \in S
        BY <1>1, <2>2, <1>2, <2>1, RevisionsOf
      <4> HIDE DEF S
      <4> QED BY <2>2, <2>3, <3>2, <2>1, RevisionsOf, <4>1, RevisionsLeast DEF S, MayStart
    <3> QED BY <3>1, <3>2
  <2> QED BY <1>2, <2>2, <2>4, <2>5 DEF LodAt
<1> QED BY <1>2, <1>1, Surroundings, <1>3 DEF TagsEmpty, Orphanless, AllNtdbrs

\* g is f without some items, all of them of the names E.
Excludes(f, g, E) ==
  \E X : MayPrune(f, X) /\ Pruned(f, g, X) /\ \A i \in X : LodAt(f, i) \in E

\* A turn of the loop.
LEMMA ExcludedFrom ==
  ASSUME NEW f, NEW U, NEW P, NEW E, NEW ntdbr, Excluding(f, U, P, E, ntdbr),
         NEW s \in LeafLods(f, P)
  PROVE  /\ Excluding(ExcludeFrom(f, s, E), U, P \ {s}, E,
                      ntdbr \/ (LodAt(f, s) \in E /\ StartsWithNtdbr(f, s)))
         /\ \A T : TagsEmpty(f, T) => TagsEmpty(ExcludeFrom(f, s, E), T)
         /\ \E h : /\ Good(h, U) /\ Excludes(f, h, E)
                   /\ ExcludeFrom(f, s, E) = h \/ Excludes(h, ExcludeFrom(f, s, E), E)
<1> DEFINE T == {t \in TagsOf(f, s) : f.item[t].symbol \in E}
           kept == ExcludeTags(f, T)
           g == ExcludeFrom(f, s, E)
<1>1. /\ Good(f, U) /\ P \subseteq Lods(f) /\ Trunk \notin E
      /\ Orphanless(f, E) /\ Visited(f, P, E) /\ (ntdbr => AllNtdbrs(f))
  BY DEF Excluding
<1>2. Linked(f, U) /\ NtdbLinked(f) /\ None \notin Ids(f)
  BY <1>1, Surroundings DEF Good
<1>3. s \in P /\ s \in Lods(f) /\ BranchesOf(f, s) \cap P = {}
  BY <1>1 DEF LeafLods
<1>4. s \in Ids(f) /\ \A i \in Revisions(f, s) : i \in Ids(f) /\ IsRev(f, i)
  BY <1>2, <1>3, LodRevisions
<1>5. Tags(f, T)
  BY <1>4, <1>2, Surroundings DEF Tags, TagsOf, SproutsFrom
<1>6. Good(kept, U) /\ MayPrune(f, T) /\ Pruned(f, kept, T) /\ Lods(kept) = Lods(f)
  BY <1>1, <1>5, TagsExcluded
<1>7. g = IF LodAt(f, s) \in E THEN ExcludeBranch(kept, s) ELSE kept
  BY DEF ExcludeFrom
<1>8. Excludes(f, kept, E)
  BY <1>5, <1>6 DEF Tags, LodAt, Excludes
<1> HIDE DEF T, kept, g
<1>9. /\ Orphanless(kept, E)
      /\ \A TT : TagsEmpty(f, TT) => TagsEmpty(kept, TT)
      /\ AllNtdbrs(f) => AllNtdbrs(kept)
      /\ \A t \in Lods(f) : /\ LodAt(kept, t) = LodAt(f, t)
                            /\ StartsWithNtdbr(f, t) => StartsWithNtdbr(kept, t)
                            /\ Revisions(kept, t) \subseteq Revisions(f, t)
  BY <1>1, <1>6, PrunedKeeps
<1>10. CASE LodAt(f, s) \notin E
  BY <1>7, <1>10, <1>1, <1>6, <1>9, <1>8 DEF Visited, Excluding, g
<1>11. CASE LodAt(f, s) \in E
  <2> DEFINE X == Gone(kept, s)
  <2>1. Linked(kept, U) /\ NtdbLinked(kept) /\ None \notin Ids(kept)
    BY <1>6, Surroundings DEF Good
  <2>2. s \in Lods(kept) /\ LodAt(kept, s) = LodAt(f, s) /\ LodAt(kept, s) # Trunk
    BY <1>1, <1>3, <1>6, <1>9, <1>11
  <2>3. Bare(kept, s)
    <3> SUFFICES ASSUME NEW j \in Ids(kept), ~IsRev(kept, j),
                        kept.item[j].source_id \in Revisions(kept, s),
                        ~kept.item[kept.item[j].source_id].ntdbr
                 PROVE  FALSE
      BY DEF Bare
    <3> DEFINE i == kept.item[j].source_id
    <3>1. i \in Ids(kept) /\ IsRev(kept, i) /\ kept.item[i].lod \in E
      BY <1>11, <2>1, <2>2, LodRevisions
    <3>2. kept.item[j].symbol \in E
      BY <1>9, <3>1 DEF Orphanless
    <3>3. j \in IF IsBranch(kept, j) THEN ToSet(kept.item[i].branch_ids) ELSE kept.item[i].tag_ids
      BY <2>1, Surroundings
    <3>4. i \in Revisions(f, s) /\ i \in SproutsFrom(f, s)
      BY <1>3, <1>9 DEF SproutsFrom
    <3> HIDE DEF i
    <3>5. /\ j \in Ids(f) /\ j \notin T /\ f.item[j].symbol = kept.item[j].symbol
          /\ IsBranch(f, j) <=> IsBranch(kept, j)
          /\ IsRev(f, j) <=> IsRev(kept, j)
      BY <1>6 DEF Pruned, PrunedItem, Kept, IsBranch, IsRev
    <3>6. /\ kept.item[i].tag_ids \subseteq f.item[i].tag_ids
          /\ ToSet(kept.item[i].branch_ids) \subseteq ToSet(f.item[i].branch_ids)
          /\ f.item[i].lod = kept.item[i].lod
      BY <1>6, <3>1 DEF Pruned, PrunedItem, Kept
    <3>7. CASE ~IsBranch(kept, j)
      BY <3>3, <3>4, <3>6, <3>7, <3>2, <3>5 DEF TagsOf, T
    <3>8. CASE IsBranch(kept, j)
      <4>1. j \in BranchesOf(f, s) /\ j \in ToSet(f.item[i].branch_ids)
        BY <3>3, <3>4, <3>6, <3>8 DEF BranchesOf
      <4>2. j \in Lods(f) \ P /\ LodAt(f, j) = f.item[j].symbol /\ ~IsRev(f, j) /\ f.item[j].source_id = i
        BY <1>2, <1>3, <1>4, <3>4, <3>5, <3>8, <4>1, Surroundings DEF Lods, LodAt
      <4> DEFINE first == FirstRev(f, j)
      <4>3. IsNtdbStart(f, first) /\ first # None /\ first \in Ids(f)
        BY <1>2, <4>2, <1>1, <3>2, <3>5, LodNtdbrs DEF StartsWithNtdbr, IsNtdbStart, Visited
      <4>4. f.item[first].first_on_branch_id = j
        BY <1>2, <4>2, <4>3, LodRevisions
      <4> HIDE DEF first
      <4>5. f.item[first].prev_id = i /\ i # None
        BY <1>2, <3>5, <4>2, <4>3, <4>4, Surroundings
      <4> QED BY <1>1, <3>1, <3>6, <1>2, <4>3, <4>5 DEF NtdbLinked, NtdbStarts
    <3> QED BY <3>7, <3>8
  <2>4. Good(g, U) /\ MayPrune(kept, X) /\ Pruned(kept, g, X) /\ Lods(g) = Lods(kept) \ X
    BY <1>6, <1>7, <1>11, <2>2, <2>3, BranchExcluded
  <2>5. Lods(kept) \cap X = IF StartsWithNtdbr(kept, s) THEN {} ELSE {s}
    BY <1>6, <2>2, <2>3, GoneWith
  <2>6. /\ Orphanless(g, E)
        /\ \A TT : TagsEmpty(kept, TT) => TagsEmpty(g, TT)
        /\ AllNtdbrs(kept) => AllNtdbrs(g)
        /\ \A t \in Lods(g) : /\ LodAt(g, t) = LodAt(kept, t)
                              /\ StartsWithNtdbr(kept, t) => StartsWithNtdbr(g, t)
    BY <1>6, <1>9, <2>4, PrunedKeeps
  <2>7. ASSUME StartsWithNtdbr(f, s) PROVE AllNtdbrs(g)
    <3> SUFFICES ASSUME NEW i \in Ids(g), g.item[i].ntdbr, g.item[i].next_id # None
                 PROVE  g.item[g.item[i].next_id].ntdbr
      BY DEF AllNtdbrs
    <3>1. /\ i \in Ids(kept) /\ kept.item[i].ntdbr
          /\ g.item[i].next_id = kept.item[i].next_id /\ kept.item[i].next_id \notin X
      BY <2>4 DEF Pruned, PrunedItem, Kept
    <3>2. i \in Revisions(kept, s)
      BY <2>1, <2>2, <1>3, <1>9, <2>7, <3>1, LodNtdbrs
    <3>3. kept.item[kept.item[i].next_id].ntdbr
      BY <3>1, <2>1, <2>2, <3>2, LodRevisions, RevisionsOf DEF Gone
    <3> QED BY <2>4, <3>1, <3>3, Surroundings DEF Pruned, PrunedItem, Kept, Good
  <2>8. Excludes(kept, g, E)
    BY <1>11, <2>1, <2>2, LodRevisions, <2>4 DEF Gone, LodAt, Excludes
  <2>9. Excluding(g, U, P \ {s}, E, ntdbr \/ (LodAt(f, s) \in E /\ StartsWithNtdbr(f, s)))
    BY <1>1, <1>9, <2>4, <2>6, <1>6, <2>5, <2>7 DEF Excluding, Visited
  <2> HIDE DEF X
  <2> QED BY <1>6, <1>9, <1>8, <2>6, <2>8, <2>9 DEF g
<1> QED BY <1>10, <1>11

-----------------------------------------------------------------------------
(***************************************************************************)
(* graft_ntdbr_to_trunk(): where the revisions go, and what surrounds them *)
(***************************************************************************)
MayGraft(f, U, s) ==
  Good(f, U) /\ AllNtdbrs(f) /\ s \in Lods(f) /\ StartsWithNtdbr(f, s)

LEMMA GraftFacts ==
  ASSUME NEW f, NEW U, NEW s, MayGraft(f, U, s)
  PROVE  LET R == Revisions(f, s)
             first == FirstRev(f, s)
             last == LastRev(f, s)
             a == f.item[first].prev_id
             b == f.item[last].ntdbr_next_id
         IN  /\ s \in Ids(f) /\ first \in R /\ last \in R /\ f.item[last].next_id = None
             /\ IF IsRev(f, s) THEN s = first /\ a = None
                ELSE /\ IsBranch(f, s) /\ first = f.item[s].next_id
                     /\ a = f.item[s].source_id /\ a # None
             /\ f.item[first].first_on_branch_id = IF IsRev(f, s) THEN None ELSE s
             /\ \A i \in R :
                  /\ i \in Ids(f) /\ IsRev(f, i) /\ f.item[i].lod # Trunk
                  /\ f.item[i].next_id # None => f.item[i].next_id \in R
                  /\ i # first => f.item[i].prev_id \in R /\ f.item[i].first_on_branch_id = None
             /\ \A i \in Ids(f) :
                  /\ f.item[i].ntdbr <=> i \in R
                  /\ f.item[i].ntdbr_next_id # None => i = last
                  /\ f.item[i].ntdbr_prev_id # None => i = b
             /\ a # None => /\ a \in Ids(f) /\ IsRev(f, a) /\ f.item[a].lod = Trunk
                            /\ f.item[a].next_id = b
             /\ b # None => /\ b \in Ids(f) /\ IsRev(f, b) /\ f.item[b].lod = Trunk
                            /\ f.item[b].prev_id = a /\ f.item[b].first_on_branch_id = None
                            /\ f.item[b].ntdbr_prev_id = last
             /\ a \notin R /\ b \notin R
             /\ a # None => a # b
<1> DEFINE R == Revisions(f, s)
           first == FirstRev(f, s)
           last == LastRev(f, s)
           a == f.item[first].prev_id
           b == f.item[last].ntdbr_next_id
<1>1. /\ Good(f, U) /\ AllNtdbrs(f) /\ s \in Lods(f) /\ StartsWithNtdbr(f, s)
      /\ Linked(f, U) /\ NtdbLinked(f) /\ None \notin Ids(f)
  BY Surroundings DEF MayGraft, Good
<1>2. /\ s \in Ids(f) /\ Walkable(f) /\ MayStart(f, s)
      /\ IsRev(f, s) => first = s /\ f.item[s].prev_id = None
      /\ ~IsRev(f, s) => IsBranch(f, s) /\ first = f.item[s].next_id
      /\ first # None => f.item[first].first_on_branch_id = IF IsRev(f, s) THEN None ELSE s
      /\ \A i \in R : /\ i \in Ids(f) /\ IsRev(f, i)
                      /\ i # first => f.item[i].prev_id \in R /\ f.item[i].first_on_branch_id = None
  BY <1>1, LodRevisions
<1>3. first # None /\ f.item[first].ntdbr /\ IsNtdbStart(f, first)
      /\ \A i \in Ids(f) : f.item[i].ntdbr => i \in R
  BY <1>1, LodNtdbrs DEF StartsWithNtdbr
<1>4. /\ first \in R /\ last \in R
      /\ \A i \in R : /\ f.item[i].next_id # None => f.item[i].next_id \in R
                      /\ f.item[i].next_id = None <=> i = last
  BY <1>2, <1>3, RevisionsOf
<1>5. \A i \in R : f.item[i].ntdbr
  <2> DEFINE S == {i \in R : f.item[i].ntdbr}
  <2>1. \A i \in S : f.item[i].next_id \in R => f.item[i].next_id \in S
    BY <1>1, <1>2 DEF AllNtdbrs
  <2> HIDE DEF S
  <2> QED BY <1>2, <1>3, <1>4, <2>1, RevisionsLeast DEF S
<1> HIDE DEF R, first, last, a, b
<1>6. \A i \in R : i \in Ids(f) /\ IsRev(f, i) /\ f.item[i].lod # Trunk
  BY <1>1, <1>2, <1>5 DEF NtdbLinked, NtdbrsFirst
<1>7. \A i \in Ids(f) : f.item[i].ntdbr_next_id # None => i = last
  BY <1>1, <1>3, <1>4, <1>5, <1>6 DEF Linked, NtdbrPairs, NtdbLinked, NtdbrsFirst
<1>8. \A i \in Ids(f) : f.item[i].ntdbr_prev_id # None => i = b
  BY <1>1, <1>7 DEF Linked, NtdbrPairs, b
<1>9. b # None => /\ b \in Ids(f) /\ IsRev(f, b) /\ f.item[b].lod = Trunk
                  /\ f.item[b].prev_id = a /\ f.item[b].first_on_branch_id = None
                  /\ f.item[b].ntdbr_prev_id = last
  <2> HAVE b # None
  <2>1. b \in Ids(f) /\ f.item[b].ntdbr_prev_id = last /\ last # None
    BY <1>1, <1>4, <1>6 DEF Linked, NtdbrPairs, b
  <2>2. /\ f.item[b].lod = Trunk /\ f.item[b].first_on_branch_id = None
        /\ f.item[b].prev_id = f.item[first].prev_id
    BY <1>1, <2>1, <1>3, <1>4, <1>6 DEF NtdbLinked, Rev12
  <2> QED BY <2>1, <1>1, <2>2 DEF a, Linked, Classes
<1>10. a # None => /\ a \in Ids(f) /\ IsRev(f, a) /\ f.item[a].lod = Trunk
                   /\ f.item[a].next_id = b
  <2> HAVE a # None
  <2>1. first \in Ids(f) /\ IsNtdbStart(f, first)
    BY <1>3, <1>4, <1>6
  <2>2. a \in Ids(f) /\ IsRev(f, a)
    BY <1>1, <2>1, Surroundings DEF a
  <2>3. ASSUME f.item[a].next_id # None PROVE f.item[a].next_id = b
    <3>1. f.item[a].next_id \in Ids(f)
      BY <1>1, <2>2, <2>3, Surroundings
    <3> QED BY <1>8, <1>1, <2>1, <2>3, <3>1 DEF NtdbLinked, NtdbStarts, a
  <2>4. b # None => f.item[a].next_id = b
    BY <1>1, <1>9, Surroundings
  <2> QED BY <2>2, <1>1, <2>1, <2>3, <2>4 DEF NtdbLinked, NtdbStarts, a
<1>11. a \notin R /\ b \notin R
  BY <1>1, <1>6, <1>9, <1>10
<1>12. ASSUME a # None, a = b PROVE FALSE
  \* Otherwise the revision would be the one before itself.
  <2>1. {a} \in SUBSET {i \in Ids(f) : IsRev(f, i)} /\ f.item[a].prev_id = a
    BY <1>9, <1>10, <1>12
  <2> QED BY <2>1, <1>1 DEF Linked, PrevsEnd
<1>13. IF IsRev(f, s) THEN s = first /\ a = None
       ELSE /\ IsBranch(f, s) /\ first = f.item[s].next_id
            /\ a = f.item[s].source_id /\ a # None
  BY <1>2, <1>1, <1>3, <1>4, <1>6, Surroundings DEF a
<1>14. \A i \in Ids(f) : f.item[i].ntdbr <=> i \in R
  BY <1>3, <1>5
<1>15. f.item[first].first_on_branch_id = IF IsRev(f, s) THEN None ELSE s
  BY <1>2, <1>3
<1>16. f.item[last].next_id = None
  BY <1>4
<1>17. \A i \in R :
         /\ i \in Ids(f) /\ IsRev(f, i) /\ f.item[i].lod # Trunk
         /\ f.item[i].next_id # None => f.item[i].next_id \in R
         /\ i # first => f.item[i].prev_id \in R /\ f.item[i].first_on_branch_id = None
  BY <1>2, <1>4, <1>6
<1> QED
  BY <1>2, <1>4, <1>7, <1>8, <1>9, <1>10, <1>11, <1>12, <1>13, <1>14, <1>15, <1>16, <1>17 DEF R,
     first, last, a, b

GraftedItem(f, s, j, q) ==
  LET r == f.item[j]
      R == Revisions(f, s)
      first == FirstRev(f, s)
      last == LastRev(f, s)
      a == f.item[first].prev_id
      b == f.item[last].ntdbr_next_id
  IN  /\ q.kind = r.kind /\ q.live = r.live /\ q.symbol = r.symbol /\ q.source_id = r.source_id
      /\ q.tag_ids = r.tag_ids /\ q.pred_live = r.pred_live
      /\ q.lod = IF j \in R THEN Trunk ELSE r.lod
      /\ q.ntdbr = FALSE /\ q.ntdbr_prev_id = None /\ q.ntdbr_next_id = None
      /\ q.prev_id = IF j = b THEN last ELSE r.prev_id
      /\ q.first_on_branch_id = IF j = first THEN None ELSE r.first_on_branch_id
      /\ q.next_id = IF j = a THEN first ELSE IF j = last THEN b ELSE r.next_id
      /\ ~IsRev(f, j) => q.source_lod = IF r.source_id \in R THEN Trunk ELSE r.source_lod
      /\ ToSet(q.branch_ids) = ToSet(r.branch_ids) \ {s} /\ IsInjective(q.branch_ids)
      /\ q.branch_commit_ids = r.branch_commit_ids \ {first}

LEMMA LiveSet ==
  ASSUME NEW U, NEW r \in ItemRecord(U), NEW live \in BOOLEAN
  PROVE  [r EXCEPT !.pred_live = live] \in ItemRecord(U)
BY DEF ItemRecord

LEMMA NextsSet ==
  ASSUME NEW U, NEW r \in ItemRecord(U),
         NEW next \in U \cup {None}, NEW ntdbr_next \in U \cup {None}
  PROVE  [r EXCEPT !.next_id = next, !.ntdbr_next_id = ntdbr_next] \in ItemRecord(U)
BY DEF ItemRecord

\* What the grafted revisions become, all fields at once.
OnTrunkNow(r, prev, live, next, ntdbr_next) ==
  [r EXCEPT !.ntdbr = FALSE, !.lod = Trunk, !.prev_id = prev, !.pred_live = live,
            !.next_id = next, !.ntdbr_next_id = ntdbr_next]

PutOnTrunk(U, r, prev, live, next, ntdbr_next, q) ==
  /\ q \in ItemRecord(U)
  /\ q.kind = r.kind /\ q.live = r.live /\ q.symbol = r.symbol
  /\ q.source_id = r.source_id /\ q.tag_ids = r.tag_ids /\ q.source_lod = r.source_lod
  /\ q.branch_ids = r.branch_ids /\ q.branch_commit_ids = r.branch_commit_ids
  /\ q.first_on_branch_id = r.first_on_branch_id /\ q.ntdbr_prev_id = r.ntdbr_prev_id
  /\ q.pred_live = live /\ q.lod = Trunk /\ q.ntdbr = FALSE /\ q.prev_id = prev
  /\ q.next_id = next /\ q.ntdbr_next_id = ntdbr_next

LEMMA GraftedRecord ==
  ASSUME NEW U, NEW r \in ItemRecord(U), NEW prev \in U \cup {None}, NEW live \in BOOLEAN,
         NEW next \in U \cup {None}, NEW ntdbr_next \in U \cup {None}
  PROVE  PutOnTrunk(U, r, prev, live, next, ntdbr_next, OnTrunkNow(r, prev, live, next, ntdbr_next))
<1>1. Trunk \in Nat
  BY NamesAssumption
<1> DEFINE q == [r EXCEPT !.ntdbr = FALSE, !.lod = Trunk, !.prev_id = prev, !.pred_live = live,
                          !.next_id = next, !.ntdbr_next_id = ntdbr_next]
<1>2. q \in ItemRecord(U)
  <2> DEFINE q1 == [r EXCEPT !.ntdbr = FALSE, !.lod = Trunk, !.prev_id = prev]
             q2 == [q1 EXCEPT !.pred_live = live]
             q3 == [q2 EXCEPT !.next_id = next, !.ntdbr_next_id = ntdbr_next]
  <2>1. q1 \in ItemRecord(U)
    BY <1>1 DEF ItemRecord
  <2>2. q = q3
    OBVIOUS
  <2> HIDE DEF q1
  <2>3. q2 \in ItemRecord(U)
    BY <2>1, LiveSet
  <2> HIDE DEF q2
  <2> QED BY <2>2, <2>3, NextsSet
<1> QED BY <1>2 DEF PutOnTrunk, OnTrunkNow, ItemRecord

\* The file without the branch, if it was one: what the grafting starts from.
UngraftedItem(f, s, j, p) ==
  LET r == f.item[j]
      first == FirstRev(f, s)
  IN  /\ Kept(r, p) /\ p.next_id = r.next_id /\ p.tag_ids = r.tag_ids
      /\ ToSet(p.branch_ids) = ToSet(r.branch_ids) \ {s} /\ IsInjective(p.branch_ids)
      /\ p.branch_commit_ids = r.branch_commit_ids \ {first}
      /\ p.first_on_branch_id = IF j = first THEN None ELSE r.first_on_branch_id
      /\ j # first => p.prev_id = r.prev_id /\ p.pred_live = r.pred_live
      /\ j = first /\ r.prev_id = None => p.prev_id = None /\ p.pred_live = r.pred_live

LEMMA Ungrafted ==
  ASSUME NEW f, NEW U, NEW s, MayGraft(f, U, s)
  PROVE  LET g == IF IsRev(f, s) THEN f ELSE SeverBranch(f, s)
         IN  /\ Ids(g) = Ids(f) \ (IF IsRev(f, s) THEN {} ELSE {s})
             /\ g.root = f.root \cup {FirstRev(f, s)}
             /\ \A j \in Ids(g) : g.item[j] \in ItemRecord(U) /\ UngraftedItem(f, s, j, g.item[j])
<1> DEFINE g == IF IsRev(f, s) THEN f ELSE SeverBranch(f, s)
           first == FirstRev(f, s)
<1>1. Linked(f, U) /\ None \notin Ids(f)
  BY Surroundings DEF MayGraft, Good
<1>2. /\ s \in Ids(f) /\ first \in Ids(f) /\ IsRev(f, first)
      /\ IF IsRev(f, s) THEN s = first /\ f.item[first].prev_id = None
         ELSE /\ IsBranch(f, s) /\ first = f.item[s].next_id
              /\ f.item[first].prev_id = f.item[s].source_id /\ f.item[first].prev_id # None
      /\ f.item[first].first_on_branch_id = IF IsRev(f, s) THEN None ELSE s
  BY GraftFacts
<1>3. ASSUME NEW j \in Ids(f)
      PROVE  /\ f.item[j] \in ItemRecord(U) /\ IsInjective(f.item[j].branch_ids)
             /\ s \in ToSet(f.item[j].branch_ids) => ~IsRev(f, s) /\ f.item[s].source_id = j
             /\ first \in f.item[j].branch_commit_ids => ~IsRev(f, s) /\ f.item[s].source_id = j
  <2> QED BY <1>2, <1>1, ShapedItem, Surroundings DEF Linked, Sprouting
<1>4. CASE IsRev(f, s)
  <2> HIDE DEF g, first
  <2>1. ASSUME NEW j \in Ids(f) PROVE UngraftedItem(f, s, j, f.item[j])
    BY <1>3, <1>4, <1>2 DEF UngraftedItem, Kept, first
  <2> QED BY <1>3, <1>4, <1>1, <1>2, <2>1 DEF g, first, Linked, Roots
<1>5. CASE ~IsRev(f, s)
  <2>1. g = SeverBranch(f, s) /\ IsBranch(f, s) /\ first = f.item[s].next_id /\ first # None
    BY <1>1, <1>2, <1>5
  <2> HIDE DEF g, first
  <2>2. /\ Ids(g) = Ids(f) \ {s} /\ g.root = f.root \cup ({first} \ {None})
        /\ \A j \in Ids(g) : g.item[j] \in ItemRecord(U) /\ SeveredItem(f, s, j, g.item[j])
    BY <1>1, <1>2, <2>1, Severed
  <2>3. ASSUME NEW j \in Ids(g) PROVE UngraftedItem(f, s, j, g.item[j])
    BY <2>1, <2>2, <1>3, <1>2, <1>5 DEF SeveredItem, NotCut, UngraftedItem, first
  <2> QED BY <1>5, <2>1, <2>2, <2>3 DEF g, first
<1> QED BY <1>4, <1>5

\* What 1.1, 1.2 and the symbols become.
SamePlace(p, q) ==
  /\ q.kind = p.kind /\ q.live = p.live /\ q.symbol = p.symbol
  /\ q.source_id = p.source_id /\ q.tag_ids = p.tag_ids
  /\ q.branch_ids = p.branch_ids /\ q.branch_commit_ids = p.branch_commit_ids
  /\ q.first_on_branch_id = p.first_on_branch_id
  /\ q.pred_live = p.pred_live /\ q.lod = p.lod /\ q.ntdbr = p.ntdbr
  /\ q.ntdbr_next_id = p.ntdbr_next_id

LEMMA NextSet ==
  ASSUME NEW U, NEW p \in ItemRecord(U), NEW next \in U
  PROVE  LET q == [p EXCEPT !.next_id = next]
         IN  /\ q \in ItemRecord(U) /\ SamePlace(p, q) /\ q.next_id = next
             /\ q.prev_id = p.prev_id /\ q.ntdbr_prev_id = p.ntdbr_prev_id
             /\ q.source_lod = p.source_lod
BY DEF ItemRecord, SamePlace

Put12(U, p, prev, q) ==
  /\ q \in ItemRecord(U) /\ SamePlace(p, q) /\ q.next_id = p.next_id
  /\ q.prev_id = prev /\ q.ntdbr_prev_id = None /\ q.source_lod = p.source_lod

LEMMA Rev12Set ==
  ASSUME NEW U, NEW p \in ItemRecord(U), NEW prev \in U
  PROVE  Put12(U, p, prev, [p EXCEPT !.ntdbr_prev_id = None, !.prev_id = prev])
BY DEF ItemRecord, SamePlace, Put12

LEMMA SourceLodSet ==
  ASSUME NEW U, NEW p \in ItemRecord(U), NEW lod \in Nat
  PROVE  LET q == [p EXCEPT !.source_lod = lod]
         IN  /\ q \in ItemRecord(U) /\ SamePlace(p, q) /\ q.next_id = p.next_id
             /\ q.prev_id = p.prev_id /\ q.ntdbr_prev_id = p.ntdbr_prev_id
             /\ q.source_lod = lod
BY DEF ItemRecord, SamePlace

LEMMA GraftItems ==
  ASSUME NEW f, NEW U, NEW s, MayGraft(f, U, s)
  PROVE  LET g == GraftNtdbrToTrunk(f, s)
         IN  /\ Ids(g) = Ids(f) \ (IF IsRev(f, s) THEN {} ELSE {s})
             /\ g.root = f.root \ {f.item[LastRev(f, s)].ntdbr_next_id}
             /\ g = [item |-> g.item, root |-> g.root] /\ g.item = [j \in Ids(g) |-> g.item[j]]
             /\ \A j \in Ids(g) : g.item[j] \in ItemRecord(U) /\ GraftedItem(f, s, j, g.item[j])
<1> DEFINE g == GraftNtdbrToTrunk(f, s)
           severed == IF IsRev(f, s) THEN f ELSE SeverBranch(f, s)
           R == Revisions(f, s)
           first == FirstRev(f, s)
           last == LastRev(f, s)
           a == f.item[first].prev_id
           b == f.item[last].ntdbr_next_id
           sprouts == TagsOf(f, s) \cup BranchesOf(f, s)
           OnTrunk(i) ==
             [severed.item[i] EXCEPT
                !.ntdbr = FALSE, !.lod = Trunk,
                !.prev_id = IF i = first THEN a ELSE @,
                !.pred_live = IF i = first /\ a # None THEN f.item[a].live ELSE @,
                !.next_id = IF i = last /\ b # None THEN b ELSE @,
                !.ntdbr_next_id = IF i = last THEN None ELSE @]
           Grafted(i) ==
             IF i \in R THEN OnTrunk(i)
             ELSE IF i = a THEN [severed.item[i] EXCEPT !.next_id = first]
             ELSE IF i = b THEN [severed.item[i] EXCEPT !.ntdbr_prev_id = None, !.prev_id = last]
             ELSE IF i \in sprouts THEN [severed.item[i] EXCEPT !.source_lod = Trunk]
             ELSE severed.item[i]
<1>1. /\ Linked(f, U) /\ None \notin Ids(f) /\ Shaped(f, U)
  BY Surroundings DEF MayGraft, Good, Linked
<1>2. /\ s \in Ids(f) /\ first \in R /\ last \in R /\ f.item[last].next_id = None
      /\ IF IsRev(f, s) THEN s = first /\ a = None
         ELSE /\ IsBranch(f, s) /\ first = f.item[s].next_id
              /\ a = f.item[s].source_id /\ a # None
      /\ \A i \in R : i \in Ids(f) /\ IsRev(f, i)
      /\ \A i \in Ids(f) :
           /\ f.item[i].ntdbr <=> i \in R
           /\ f.item[i].ntdbr_next_id # None => i = last
           /\ f.item[i].ntdbr_prev_id # None => i = b
      /\ a # None => a \in Ids(f) /\ IsRev(f, a)
      /\ b # None => b \in Ids(f) /\ IsRev(f, b) /\ f.item[b].prev_id = a
      /\ a \notin R /\ b \notin R
      /\ a # None => a # b
  BY GraftFacts
<1>3. /\ Ids(severed) = Ids(f) \ (IF IsRev(f, s) THEN {} ELSE {s})
      /\ severed.root = f.root \cup {first}
      /\ \A j \in Ids(severed) :
           severed.item[j] \in ItemRecord(U) /\ UngraftedItem(f, s, j, severed.item[j])
  BY Ungrafted
<1>4. /\ Ids(g) = Ids(severed)
      /\ g.root = severed.root \ ({b} \cup (IF a = None THEN {} ELSE {first}))
      /\ g = [item |-> g.item, root |-> g.root] /\ g.item = [j \in Ids(g) |-> g.item[j]]
      /\ \A j \in Ids(g) : g.item[j] = Grafted(j)
  <2>1. g = [item |-> [i \in Ids(severed) |-> Grafted(i)],
             root |-> severed.root \ ({b} \cup (IF a = None THEN {} ELSE {first}))]
    BY DEF GraftNtdbrToTrunk
  <2> HIDE DEF g, severed, Grafted
  <2> QED BY <2>1 DEF Ids
<1> HIDE DEF g, severed, R, first, last, a, b, sprouts
<1>5. g.root = f.root \ {b}
  <2>1. first \in f.root <=> a = None
    BY <1>1, <1>2 DEF Linked, Roots, a
  <2>2. first # b
    BY <1>2
  <2> QED BY <1>3, <1>4, <2>1, <2>2
<1>6. ASSUME NEW j \in Ids(f), ~IsRev(f, j) PROVE j \in sprouts <=> f.item[j].source_id \in R
  BY <1>1, <1>6, Surroundings, <1>2 DEF sprouts, TagsOf, BranchesOf, SproutsFrom, R
<1>7. ASSUME NEW j \in Ids(g)
      PROVE  g.item[j] \in ItemRecord(U) /\ GraftedItem(f, s, j, g.item[j])
  <2> DEFINE r == f.item[j]
             p == severed.item[j]
             q == g.item[j]
  <2>1. j \in Ids(f) /\ p \in ItemRecord(U)
    BY <1>3, <1>4
  <2>2. /\ Kept(r, p) /\ p.next_id = r.next_id /\ p.tag_ids = r.tag_ids
        /\ ToSet(p.branch_ids) = ToSet(r.branch_ids) \ {s} /\ IsInjective(p.branch_ids)
        /\ p.branch_commit_ids = r.branch_commit_ids \ {first}
        /\ p.first_on_branch_id = IF j = first THEN None ELSE r.first_on_branch_id
        /\ j # first => p.prev_id = r.prev_id /\ p.pred_live = r.pred_live
        /\ j = first /\ r.prev_id = None => p.prev_id = None /\ p.pred_live = r.pred_live
    BY <1>3, <1>4 DEF UngraftedItem, first
  <2>3. /\ r.ntdbr <=> j \in R
        /\ r.ntdbr_next_id # None => j = last
        /\ r.ntdbr_prev_id # None => j = b
        /\ j \in R => r.ntdbr_prev_id = None
    BY <1>2, <2>1
  <2>4. q = Grafted(j)
    BY <1>4
  <2> HIDE DEF r, p, q
  <2>5. CASE j \in R
    <3> DEFINE prev == IF j = first THEN a ELSE p.prev_id
               live == IF j = first /\ a # None THEN f.item[a].live ELSE p.pred_live
               next == IF j = last /\ b # None THEN b ELSE p.next_id
               ntdbr_next == IF j = last THEN None ELSE p.ntdbr_next_id
    <3>1. q = [p EXCEPT !.ntdbr = FALSE, !.lod = Trunk, !.prev_id = prev, !.pred_live = live,
                        !.next_id = next, !.ntdbr_next_id = ntdbr_next]
      BY <2>4, <2>5 DEF p
    <3>2. prev = r.prev_id /\ prev \in U \cup {None}
      BY <1>1, <1>2, <2>1, <2>2 DEF Shaped, ItemRecord, a, r
    <3>3. live = r.pred_live /\ live \in BOOLEAN
      <4>1. ASSUME j = first, a # None PROVE r.pred_live = f.item[a].live /\ f.item[a].live \in BOOLEAN
        <5>1. EffectivePrev(r) = a
          BY <2>3, <2>5, <4>1 DEF EffectivePrev, a, r
        <5>2. r.pred_live = (a # None /\ f.item[a].live)
          BY <1>1, <1>2, <2>1, <2>5, <5>1 DEF Linked, PredLive, r
        <5> QED BY <4>1, <5>2, <1>1, <1>2, ShapedItem DEF ItemRecord
      <4>2. CASE j = first /\ a # None
        BY <4>2, <4>1
      <4>3. CASE ~ (j = first /\ a # None)
        BY <4>3, <2>2, <2>1 DEF a, r, ItemRecord
      <4> QED BY <4>2, <4>3
    <3>4. next = (IF j = last THEN b ELSE r.next_id) /\ next \in U \cup {None}
      BY <1>1, <1>2, <2>1, <2>2 DEF Shaped, ItemRecord, r
    <3>5. ntdbr_next = None
      BY <2>2, <2>3 DEF Kept
    <3> HIDE DEF prev, live, next, ntdbr_next
    <3>6. /\ p \in ItemRecord(U) /\ prev \in U \cup {None} /\ live \in BOOLEAN
          /\ next \in U \cup {None} /\ ntdbr_next \in U \cup {None}
      BY <2>1, <3>2, <3>3, <3>4, <3>5
    <3>7. PutOnTrunk(U, p, prev, live, next, ntdbr_next, q)
      <4>1. PutOnTrunk(U, p, prev, live, next, ntdbr_next,
                       OnTrunkNow(p, prev, live, next, ntdbr_next))
        BY <3>6, GraftedRecord
      <4> QED BY <4>1, <3>1 DEF OnTrunkNow
    <3>8. /\ q \in ItemRecord(U)
          /\ q.kind = p.kind /\ q.live = p.live /\ q.symbol = p.symbol
          /\ q.source_id = p.source_id /\ q.tag_ids = p.tag_ids /\ q.source_lod = p.source_lod
          /\ q.branch_ids = p.branch_ids /\ q.branch_commit_ids = p.branch_commit_ids
          /\ q.first_on_branch_id = p.first_on_branch_id /\ q.ntdbr_prev_id = p.ntdbr_prev_id
          /\ q.pred_live = live /\ q.lod = Trunk /\ q.ntdbr = FALSE /\ q.prev_id = prev
          /\ q.next_id = next /\ q.ntdbr_next_id = ntdbr_next
      BY <3>7 DEF PutOnTrunk
    <3>9. /\ q.kind = r.kind /\ q.live = r.live /\ q.symbol = r.symbol /\ q.source_id = r.source_id
          /\ q.tag_ids = r.tag_ids
          /\ ToSet(q.branch_ids) = ToSet(r.branch_ids) \ {s} /\ IsInjective(q.branch_ids)
          /\ q.branch_commit_ids = r.branch_commit_ids \ {first}
          /\ q.first_on_branch_id = IF j = first THEN None ELSE r.first_on_branch_id
          /\ q.ntdbr_prev_id = None /\ q.ntdbr_next_id = None
      BY <2>2, <2>3, <2>5, <3>5, <3>8 DEF Kept
    <3>10. IsRev(f, j) /\ j # a /\ j # b
      BY <1>2, <2>5
    <3>11. /\ q.pred_live = r.pred_live
           /\ q.lod = IF j \in R THEN Trunk ELSE r.lod
           /\ q.ntdbr = FALSE
           /\ q.prev_id = IF j = b THEN last ELSE r.prev_id
           /\ q.next_id = IF j = a THEN first ELSE IF j = last THEN b ELSE r.next_id
      BY <2>5, <3>2, <3>3, <3>4, <3>8, <3>10
    <3>12. GraftedItem(f, s, j, q)
      BY <3>9, <3>10, <3>11 DEF GraftedItem, R, first, last, a, b, r
    <3> QED BY <3>8, <3>12 DEF q
  <2>6. CASE j \notin R
    <3>1. j # first /\ j # last
      BY <1>2, <2>6
    <3>2. q = IF j = a THEN [p EXCEPT !.next_id = first]
              ELSE IF j = b THEN [p EXCEPT !.ntdbr_prev_id = None, !.prev_id = last]
              ELSE IF j \in sprouts THEN [p EXCEPT !.source_lod = Trunk]
              ELSE p
      BY <2>4, <2>6 DEF p
    <3>3. first \in U /\ last \in U /\ Trunk \in Nat
      BY <1>1, <1>2, NamesAssumption DEF Shaped
    <3>4. /\ q \in ItemRecord(U) /\ SamePlace(p, q)
          /\ q.next_id = IF j = a THEN first ELSE p.next_id
          /\ j # a => q.prev_id = IF j = b THEN last ELSE p.prev_id
          /\ j = a => q.prev_id = p.prev_id /\ q.ntdbr_prev_id = p.ntdbr_prev_id
          /\ j # a => q.ntdbr_prev_id = IF j = b THEN None ELSE p.ntdbr_prev_id
          /\ j # a /\ j # b => q.source_lod = IF j \in sprouts THEN Trunk ELSE p.source_lod
      <4>1. CASE j = a
        BY <3>2, <4>1, <2>1, <3>3, NextSet
      <4>2. CASE j # a /\ j = b
        <5>1. Put12(U, p, last, q)
          BY <2>1, <3>3, <3>2, <4>2, Rev12Set
        <5> QED BY <4>2, <5>1 DEF Put12
      <4>3. CASE j # a /\ j # b /\ j \in sprouts
        BY <3>2, <4>3, <2>1, <3>3, SourceLodSet
      <4>4. CASE j # a /\ j # b /\ j \notin sprouts
        BY <3>2, <4>4, <2>1 DEF SamePlace
      <4> QED BY <4>1, <4>2, <4>3, <4>4
    <3>5. /\ q.kind = p.kind /\ q.live = p.live /\ q.symbol = p.symbol
          /\ q.source_id = p.source_id /\ q.tag_ids = p.tag_ids
          /\ q.branch_ids = p.branch_ids /\ q.branch_commit_ids = p.branch_commit_ids
          /\ q.first_on_branch_id = p.first_on_branch_id
          /\ q.pred_live = p.pred_live /\ q.lod = p.lod /\ q.ntdbr = p.ntdbr
          /\ q.ntdbr_next_id = p.ntdbr_next_id
      BY <3>4 DEF SamePlace
    <3>6. /\ j = a => j # b /\ IsRev(f, j)
          /\ j = b => IsRev(f, j)
      BY <1>2, <1>1, <2>1
    <3>7. /\ r.ntdbr = FALSE /\ r.ntdbr_next_id = None /\ (j # b => r.ntdbr_prev_id = None)
      BY <1>1, <2>1, ShapedItem, <2>3, <2>6, <3>1 DEF r, ItemRecord
    <3>8. /\ q.kind = r.kind /\ q.live = r.live /\ q.symbol = r.symbol /\ q.source_id = r.source_id
          /\ q.tag_ids = r.tag_ids /\ q.pred_live = r.pred_live /\ q.lod = r.lod
          /\ q.ntdbr = FALSE /\ q.ntdbr_prev_id = None /\ q.ntdbr_next_id = None
      BY <2>2, <3>1, <3>4, <3>5, <3>6, <3>7 DEF Kept
    <3>9. /\ q.prev_id = IF j = b THEN last ELSE r.prev_id
          /\ q.first_on_branch_id = r.first_on_branch_id
          /\ q.next_id = IF j = a THEN first ELSE r.next_id
      BY <2>2, <3>1, <3>4, <3>5, <3>6
    <3>10. ~IsRev(f, j) => q.source_lod = IF r.source_id \in R THEN Trunk ELSE r.source_lod
      BY <2>2, <3>4, <3>6, <1>6, <2>1 DEF Kept, r
    <3>11. /\ ToSet(q.branch_ids) = ToSet(r.branch_ids) \ {s} /\ IsInjective(q.branch_ids)
           /\ q.branch_commit_ids = r.branch_commit_ids \ {first}
      BY <2>2, <3>5
    <3>12. /\ q.lod = IF j \in R THEN Trunk ELSE r.lod
           /\ q.first_on_branch_id = IF j = first THEN None ELSE r.first_on_branch_id
           /\ q.next_id = IF j = a THEN first ELSE IF j = last THEN b ELSE r.next_id
      BY <2>6, <3>1, <3>8, <3>9
    <3>13. GraftedItem(f, s, j, q)
      BY <3>8, <3>9, <3>10, <3>11, <3>12 DEF GraftedItem, R, first, last, a, b, r
    <3> QED BY <3>4, <3>13 DEF q
  <2> QED BY <2>5, <2>6 DEF q
<1> QED BY <1>3, <1>4, <1>5, <1>7 DEF g, b, last, severed

LEMMA Grafted ==
  ASSUME NEW f, NEW U, NEW s, MayGraft(f, U, s)
  PROVE  /\ Good(GraftNtdbrToTrunk(f, s), U)
         /\ \A T : TagsEmpty(f, T) => TagsEmpty(GraftNtdbrToTrunk(f, s), T)
<1> DEFINE g == GraftNtdbrToTrunk(f, s)
           R == Revisions(f, s)
           first == FirstRev(f, s)
           last == LastRev(f, s)
           a == f.item[first].prev_id
           b == f.item[last].ntdbr_next_id
<1>1. /\ Linked(f, U) /\ NtdbLinked(f) /\ Named(f) /\ None \notin Ids(f) /\ Shaped(f, U)
  BY Surroundings DEF MayGraft, Good, Linked
<1>2. /\ s \in Ids(f) /\ first \in R /\ last \in R /\ f.item[last].next_id = None
      /\ IF IsRev(f, s) THEN s = first /\ a = None
         ELSE /\ IsBranch(f, s) /\ first = f.item[s].next_id
              /\ a = f.item[s].source_id /\ a # None
      /\ f.item[first].first_on_branch_id = IF IsRev(f, s) THEN None ELSE s
      /\ \A i \in R :
           /\ i \in Ids(f) /\ IsRev(f, i) /\ f.item[i].lod # Trunk
           /\ f.item[i].next_id # None => f.item[i].next_id \in R
           /\ i # first => f.item[i].prev_id \in R /\ f.item[i].first_on_branch_id = None
      /\ \A i \in Ids(f) :
           /\ f.item[i].ntdbr <=> i \in R
           /\ f.item[i].ntdbr_next_id # None => i = last
           /\ f.item[i].ntdbr_prev_id # None => i = b
      /\ a # None => /\ a \in Ids(f) /\ IsRev(f, a) /\ f.item[a].lod = Trunk
                     /\ f.item[a].next_id = b
      /\ b # None => /\ b \in Ids(f) /\ IsRev(f, b) /\ f.item[b].lod = Trunk
                     /\ f.item[b].prev_id = a /\ f.item[b].first_on_branch_id = None
                     /\ f.item[b].ntdbr_prev_id = last
      /\ a \notin R /\ b \notin R
      /\ a # None => a # b
  BY GraftFacts
<1>3. /\ Ids(g) = Ids(f) \ (IF IsRev(f, s) THEN {} ELSE {s})
      /\ g.root = f.root \ {b}
      /\ g = [item |-> g.item, root |-> g.root] /\ g.item = [j \in Ids(g) |-> g.item[j]]
      /\ \A j \in Ids(g) : g.item[j] \in ItemRecord(U) /\ GraftedItem(f, s, j, g.item[j])
  BY GraftItems
<1> HIDE DEF g
<1>4. ASSUME NEW j \in Ids(g)
      PROVE  /\ j \in Ids(f) /\ j # None
             /\ IsRev(g, j) <=> IsRev(f, j)
             /\ IsBranch(g, j) <=> IsBranch(f, j)
             /\ g.item[j].kind = f.item[j].kind
             /\ g.item[j].live = f.item[j].live /\ g.item[j].symbol = f.item[j].symbol
             /\ g.item[j].source_id = f.item[j].source_id
             /\ g.item[j].tag_ids = f.item[j].tag_ids
             /\ g.item[j].pred_live = f.item[j].pred_live
             /\ g.item[j].lod = IF j \in R THEN Trunk ELSE f.item[j].lod
             /\ g.item[j].ntdbr = FALSE /\ g.item[j].ntdbr_prev_id = None
             /\ g.item[j].ntdbr_next_id = None
             /\ g.item[j].prev_id = IF j = b THEN last ELSE f.item[j].prev_id
             /\ g.item[j].first_on_branch_id =
                  IF j = first THEN None ELSE f.item[j].first_on_branch_id
             /\ g.item[j].next_id =
                  IF j = a THEN first ELSE IF j = last THEN b ELSE f.item[j].next_id
             /\ ~IsRev(f, j) => g.item[j].source_lod =
                  IF f.item[j].source_id \in R THEN Trunk ELSE f.item[j].source_lod
             /\ ToSet(g.item[j].branch_ids) = ToSet(f.item[j].branch_ids) \ {s}
             /\ IsInjective(g.item[j].branch_ids)
             /\ g.item[j].branch_commit_ids = f.item[j].branch_commit_ids \ {first}
  BY <1>3, <1>1 DEF GraftedItem, IsRev, IsBranch
<1> HIDE DEF R, first, last, a, b
<1>5. ASSUME NEW j \in Ids(g)
      PROVE  /\ j \in Ids(f) /\ j # None
             /\ IsRev(g, j) <=> IsRev(f, j)
             /\ IsBranch(g, j) <=> IsBranch(f, j)
             /\ g.item[j].kind = f.item[j].kind
  BY <1>4
<1>6. ASSUME NEW j \in Ids(g)
      PROVE  /\ g.item[j].prev_id = IF j = b THEN last ELSE f.item[j].prev_id
             /\ g.item[j].first_on_branch_id =
                  IF j = first THEN None ELSE f.item[j].first_on_branch_id
             /\ g.item[j].next_id =
                  IF j = a THEN first ELSE IF j = last THEN b ELSE f.item[j].next_id
  BY <1>4
<1>7. ASSUME NEW j \in Ids(g)
      PROVE  /\ g.item[j].source_id = f.item[j].source_id
             /\ g.item[j].tag_ids = f.item[j].tag_ids
             /\ ToSet(g.item[j].branch_ids) = ToSet(f.item[j].branch_ids) \ {s}
             /\ g.item[j].branch_commit_ids = f.item[j].branch_commit_ids \ {first}
  BY <1>4
<1>8. ASSUME NEW j \in Ids(g)
      PROVE  /\ g.item[j].lod = IF j \in R THEN Trunk ELSE f.item[j].lod
             /\ ~IsRev(f, j) => g.item[j].source_lod =
                  IF f.item[j].source_id \in R THEN Trunk ELSE f.item[j].source_lod
  BY <1>4
<1>9. ASSUME NEW j \in Ids(g)
      PROVE  /\ g.item[j].ntdbr = FALSE /\ g.item[j].ntdbr_prev_id = None
             /\ g.item[j].ntdbr_next_id = None
  BY <1>4
<1>10. /\ a # None => /\ a \in Ids(f) /\ IsRev(f, a) /\ f.item[a].lod = Trunk
                       /\ f.item[a].next_id = b
       /\ b # None => /\ b \in Ids(f) /\ IsRev(f, b) /\ f.item[b].lod = Trunk
                       /\ f.item[b].prev_id = a /\ f.item[b].first_on_branch_id = None
                       /\ f.item[b].ntdbr_prev_id = last
       /\ a \notin R /\ b \notin R /\ first \in R /\ last \in R
       /\ a # None => a # b
  BY <1>2
<1>11. \A i \in R :
         /\ i \in Ids(f) /\ IsRev(f, i) /\ f.item[i].lod # Trunk
         /\ f.item[i].next_id # None => f.item[i].next_id \in R
         /\ i # first => f.item[i].prev_id \in R /\ f.item[i].first_on_branch_id = None
  BY <1>2
<1>12. \A i \in Ids(f) : f.item[i].ntdbr_prev_id # None => i = b
  BY <1>2
<1>13. /\ \A j \in Ids(f) : IsRev(f, j) => j \in Ids(g)
       /\ \A j \in Ids(f) : j # s => j \in Ids(g)
  BY <1>3
<1>14. first \in Ids(f) /\ last \in Ids(f) /\ first # None /\ last # None
  BY <1>1, <1>2
<1>15. Classes(g)
  <2> SUFFICES ASSUME NEW i \in Ids(g)
               PROVE  IF IsRev(g, i) THEN g.item[i].source_id = None
                      ELSE /\ g.item[i].prev_id = None /\ g.item[i].first_on_branch_id = None
                           /\ g.item[i].ntdbr_prev_id = None /\ g.item[i].ntdbr_next_id = None
                           /\ g.item[i].branch_commit_ids = {} /\ ~g.item[i].ntdbr
    BY DEF Classes
  <2>1. CASE IsRev(f, i)
    BY <1>1, <1>4, <2>1 DEF Linked, Classes
  <2>2. CASE ~IsRev(f, i)
    <3>1. /\ f.item[i].prev_id = None /\ f.item[i].first_on_branch_id = None
          /\ f.item[i].branch_commit_ids = {}
      BY <1>1, <1>4, <2>2 DEF Linked, Classes
    <3>2. i # b /\ i # first
      BY <1>10, <1>5, <1>11, <2>2
    <3> QED BY <1>4, <2>2, <3>1, <3>2
  <2> QED BY <2>1, <2>2
<1>16. Sprouting(g)
  <2> SUFFICES ASSUME NEW i \in Ids(g)
               PROVE  /\ IsInjective(g.item[i].branch_ids)
                      /\ \A t \in g.item[i].tag_ids :
                           t \in Ids(g) /\ g.item[t].kind = "tag" /\ g.item[t].source_id = i
                      /\ \A t \in ToSet(g.item[i].branch_ids) :
                           t \in Ids(g) /\ IsBranch(g, t) /\ g.item[t].source_id = i
    BY DEF Sprouting
  <2>1. ASSUME NEW t \in g.item[i].tag_ids
        PROVE  t \in Ids(g) /\ g.item[t].kind = "tag" /\ g.item[t].source_id = i
    <3>1. t \in Ids(f) /\ f.item[t].kind = "tag" /\ f.item[t].source_id = i
      BY <1>1, <1>5, <1>7, <2>1 DEF Linked, Sprouting
    <3> QED BY <1>4, <3>1, <1>2, <1>13, <1>14 DEF IsBranch, IsRev
  <2>2. ASSUME NEW t \in ToSet(g.item[i].branch_ids)
        PROVE  t \in Ids(g) /\ IsBranch(g, t) /\ g.item[t].source_id = i
    <3>1. t \in Ids(f) /\ IsBranch(f, t) /\ f.item[t].source_id = i /\ t # s
      BY <1>1, <1>5, <1>7, <2>2 DEF Linked, Sprouting
    <3> QED BY <1>4, <1>13, <3>1
  <2> QED BY <1>4, <2>1, <2>2
<1>17. Sprouts(g)
  <2> SUFFICES ASSUME NEW i \in Ids(g), ~IsRev(g, i)
               PROVE  LET source == g.item[i].source_id
                      IN  /\ source \in Ids(g) /\ IsRev(g, source)
                          /\ g.item[i].source_lod = g.item[source].lod
                          /\ i \in IF IsBranch(g, i) THEN ToSet(g.item[source].branch_ids)
                                   ELSE g.item[source].tag_ids
    BY DEF Sprouts
  <2> DEFINE source == f.item[i].source_id
  <2>1. /\ source \in Ids(f) /\ IsRev(f, source)
        /\ f.item[i].source_lod = f.item[source].lod
        /\ i \in IF IsBranch(f, i) THEN ToSet(f.item[source].branch_ids)
                 ELSE f.item[source].tag_ids
    BY <1>1, <1>4 DEF Linked, Sprouts
  <2>2. i # s
    BY <1>3, <1>4
  <2>3. g.item[i].source_id = source
    BY <1>4
  <2> HIDE DEF source
  <2>4. source \in Ids(g) /\ IsRev(g, source)
    BY <1>4, <1>13, <2>1
  <2>5. g.item[i].source_lod = g.item[source].lod
    BY <1>8, <1>5, <2>1, <2>4 DEF source
  <2>6. i \in IF IsBranch(g, i) THEN ToSet(g.item[source].branch_ids)
             ELSE g.item[source].tag_ids
    <3>1. /\ ToSet(g.item[source].branch_ids) = ToSet(f.item[source].branch_ids) \ {s}
          /\ g.item[source].tag_ids = f.item[source].tag_ids
      BY <1>7, <2>4
    <3>2. IsBranch(g, i) <=> IsBranch(f, i)
      BY <1>5
    <3> QED BY <2>1, <2>2, <3>1, <3>2
  <2> QED BY <2>3, <2>4, <2>5, <2>6
<1>18. Nexts(g)
  <2> SUFFICES ASSUME NEW i \in Ids(g), g.item[i].next_id # None
               PROVE  IF IsRev(g, i) THEN Follows(g, i, g.item[i].next_id)
                      ELSE Begins(g, i, g.item[i].next_id)
    BY DEF Nexts
  <2> DEFINE n == g.item[i].next_id
  <2>1. CASE i = a
    <3>1. n = first /\ IsRev(f, i) /\ IsRev(f, first) /\ first \in Ids(g) /\ i \notin R
      BY <1>2, <1>4, <1>13, <1>14, <2>1
    <3>2. first # b
      BY <1>2
    <3> HIDE DEF n
    <3>3. /\ g.item[n].prev_id = i /\ g.item[n].first_on_branch_id = None
          /\ g.item[n].lod = Trunk /\ g.item[i].lod = Trunk
      BY <1>2, <1>4, <2>1, <3>1, <3>2 DEF a
    <3> QED BY <3>3, <1>4, <3>1 DEF Follows, n
  <2>2. CASE i = last /\ i # a
    <3>1. n = b /\ b # None
      BY <1>4, <2>2
    <3>2. /\ b \in Ids(f) /\ IsRev(f, b) /\ b \in Ids(g) /\ b \notin R /\ b # first
          /\ f.item[b].lod = Trunk /\ f.item[b].first_on_branch_id = None
      BY <1>2, <1>13, <3>1
    <3> HIDE DEF n
    <3>3. /\ g.item[b].prev_id = last /\ g.item[b].first_on_branch_id = None
          /\ g.item[b].lod = Trunk /\ g.item[i].lod = Trunk
      BY <1>2, <1>4, <2>2, <3>2
    <3>4. IsRev(g, i) /\ IsRev(g, b)
      BY <1>2, <1>4, <2>2, <3>2
    <3> QED BY <2>2, <3>1, <3>2, <3>3, <3>4 DEF Follows, n
  <2>3. CASE i # last /\ i # a
    <3>1. n = f.item[i].next_id /\ i \in Ids(f)
      BY <1>4, <2>3
    <3>2. CASE IsRev(f, i)
      <4>1. /\ n \in Ids(f) /\ IsRev(f, n) /\ f.item[n].prev_id = i
            /\ f.item[n].first_on_branch_id = None /\ f.item[n].lod = f.item[i].lod
        BY <1>1, <3>1, <3>2, Surroundings
      <4> HIDE DEF n
      <4>2. n \in Ids(g) /\ n # b
        BY <1>1, <1>2, <1>13, <2>3, <3>1, <4>1
      <4>3. n \in R <=> i \in R
        <5>1. i \in R => n \in R
          BY <1>11, <1>1, <3>1, <4>1
        <5> QED BY <2>3, <5>1, <1>2, <4>1 DEF a
      <4>4. /\ g.item[n].prev_id = i /\ g.item[n].first_on_branch_id = None
            /\ g.item[n].lod = g.item[i].lod /\ IsRev(g, n) /\ IsRev(g, i)
        BY <1>4, <3>2, <4>1, <4>2, <4>3
      <4> QED BY <4>2, <4>4 DEF Follows, n
    <3>3. CASE ~IsRev(f, i)
      <4>1. Begins(f, i, n)
        BY <1>1, <3>1, <3>3 DEF Linked, Nexts
      <4> HIDE DEF n
      <4>2. /\ n \in Ids(f) /\ IsRev(f, n) /\ IsBranch(f, i)
            /\ f.item[n].first_on_branch_id = i /\ f.item[n].lod = f.item[i].symbol
        BY <4>1 DEF Begins
      <4>3. n # first
        <5>1. i # None
          BY <1>5
        <5> QED BY <4>2, <1>3, <5>1, <1>2
      <4>4. n \notin R /\ n \in Ids(g)
        BY <1>2, <1>4, <1>13, <4>2, <4>3
      <4> QED BY <4>4, <1>4, <3>3, <4>2, <4>3 DEF Begins, n
    <3> QED BY <3>2, <3>3
  <2> QED BY <2>1, <2>2, <2>3
<1>19. Prevs(g)
  <2> SUFFICES ASSUME NEW j \in Ids(g), IsRev(g, j)
               PROVE  LET p == g.item[j].prev_id
                          c == g.item[j].first_on_branch_id
                      IN  IF c = None
                          THEN p # None => p \in Ids(g) /\ IsRev(g, p) /\ g.item[p].next_id = j
                          ELSE c \in Ids(g) /\ IsBranch(g, c) /\ g.item[c].next_id = j
                               /\ g.item[c].source_id = p
    BY DEF Prevs
  <2> DEFINE p == g.item[j].prev_id
             c == g.item[j].first_on_branch_id
  <2>1. j \in Ids(f) /\ IsRev(f, j) /\ j # None
    BY <1>4
  <2>2. ASSUME c = None, p # None PROVE p \in Ids(g) /\ IsRev(g, p) /\ g.item[p].next_id = j
    <3>1. CASE j = b
      <4>1. p = last /\ last \in Ids(f) /\ IsRev(f, last) /\ last # a
        BY <1>2, <1>4, <3>1
      <4> HIDE DEF p
      <4> QED BY <1>4, <1>13, <3>1, <4>1
    <3>2. CASE j = first /\ j # b
      <4>1. p = a /\ a \in Ids(f) /\ IsRev(f, a)
        BY <1>2, <1>4, <2>2, <3>2 DEF a
      <4> HIDE DEF p
      <4> QED BY <1>4, <1>13, <3>2, <4>1
    <3>3. CASE j # first /\ j # b
      <4>1. p = f.item[j].prev_id /\ f.item[j].first_on_branch_id = None
        BY <1>4, <2>2, <3>3
      <4>2. p \in Ids(f) /\ IsRev(f, p) /\ f.item[p].next_id = j
        BY <1>1, <2>1, <2>2, <4>1, Surroundings
      <4>3. p # a /\ p # last
        <5>1. p # a
          BY <1>10, <2>1, <2>2, <3>3, <4>2
        <5> QED BY <5>1, <1>2, <2>1, <4>2
      <4> HIDE DEF p
      <4> QED BY <1>4, <1>13, <4>2, <4>3
    <3> QED BY <3>1, <3>2, <3>3
  <2>3. ASSUME c # None
        PROVE  c \in Ids(g) /\ IsBranch(g, c) /\ g.item[c].next_id = j /\ g.item[c].source_id = p
    <3>1. j # first /\ c = f.item[j].first_on_branch_id
      BY <1>4, <2>3
    <3>2. /\ c \in Ids(f) /\ IsBranch(f, c) /\ ~IsRev(f, c)
          /\ f.item[c].next_id = j /\ f.item[c].source_id = f.item[j].prev_id
      BY <1>1, <2>1, <2>3, <3>1, Surroundings
    <3>3. c # s /\ j # b /\ c # a /\ c # last
      <4>1. j # b
        BY <1>10, <2>1, <2>3, <3>1
      <4>2. c # a /\ c # last
        BY <1>10, <1>11, <2>3, <3>2
      <4> QED BY <1>2, <3>1, <3>2, <4>1, <4>2
    <3> HIDE DEF c
    <3> QED BY <1>4, <1>13, <3>2, <3>3
  <2> QED BY <2>2, <2>3
<1>20. Commits(g)
  <2> SUFFICES ASSUME NEW i \in Ids(g), IsRev(g, i)
               PROVE  g.item[i].branch_commit_ids =
                        {j \in Ids(g) : /\ IsRev(g, j) /\ g.item[j].first_on_branch_id # None
                                        /\ g.item[j].prev_id = i}
    BY DEF Commits
  <2>1. f.item[i].branch_commit_ids =
          {j \in Ids(f) : /\ IsRev(f, j) /\ f.item[j].first_on_branch_id # None
                          /\ f.item[j].prev_id = i}
    BY <1>1, <1>4 DEF Linked, Commits
  <2>2. ASSUME NEW j \in Ids(g)
        PROVE  (IsRev(g, j) /\ g.item[j].first_on_branch_id # None /\ g.item[j].prev_id = i)
                 <=> (/\ j # first /\ IsRev(f, j) /\ f.item[j].first_on_branch_id # None
                      /\ f.item[j].prev_id = i)
    <3>1. f.item[j].first_on_branch_id # None => j # b
      BY <1>10, <1>5
    <3> QED BY <1>4, <3>1
  <2> QED BY <1>4, <1>13, <2>1, <2>2
<1>21. NtdbrPairs(g)
  BY <1>4 DEF NtdbrPairs
<1>22. PredLive(g)
  <2> SUFFICES ASSUME NEW i \in Ids(g), IsRev(g, i)
               PROVE  LET p == EffectivePrev(g.item[i])
                      IN  g.item[i].pred_live = (p # None /\ g.item[p].live)
    BY DEF PredLive
  <2>1. EffectivePrev(g.item[i]) = EffectivePrev(f.item[i])
    <3>1. EffectivePrev(g.item[i]) = g.item[i].prev_id
      BY <1>4 DEF EffectivePrev
    <3>2. CASE i = b
      <4>1. g.item[i].prev_id = last
        BY <1>6, <3>2
      <4>2. f.item[i].ntdbr_prev_id = last
        BY <1>10, <1>5, <3>2
      <4> QED BY <1>14, <3>1, <4>1, <4>2 DEF EffectivePrev
    <3>3. CASE i # b
      BY <1>2, <1>4, <3>1, <3>3 DEF EffectivePrev
    <3> QED BY <3>2, <3>3
  <2> DEFINE p == EffectivePrev(f.item[i])
  <2>2. f.item[i].pred_live = (p # None /\ f.item[p].live)
    BY <1>1, <1>4 DEF Linked, PredLive
  <2>3. p # None => p \in Ids(g)
    <3>1. CASE i = b
      <4>1. f.item[i].ntdbr_prev_id = last
        BY <1>10, <1>5, <3>1
      <4> QED BY <1>14, <4>1, <1>2, <1>13 DEF EffectivePrev
    <3>2. CASE i # b
      <4>1. i \in Ids(f) /\ IsRev(f, i)
        BY <1>5
      <4> QED BY <1>13, <1>1, <1>2, <1>4, <3>2, <4>1, Surroundings DEF EffectivePrev
    <3> QED BY <3>1, <3>2
  <2> HIDE DEF p
  <2> QED BY <2>1, <2>2, <1>4, <2>3 DEF p
<1>23. Roots(g)
  <2>1. ASSUME NEW j \in Ids(g)
        PROVE  IsRev(g, j) /\ g.item[j].prev_id = None
                 <=> j # b /\ IsRev(f, j) /\ f.item[j].prev_id = None
    BY <1>4, <1>14
  <2> QED BY <1>3, <1>4, <1>13, <1>1, <2>1 DEF Roots, Linked
<1>24. PrevsEnd(g)
  <2> SUFFICES ASSUME NEW S \in SUBSET {i \in Ids(g) : IsRev(g, i)}, S # {},
                      \A i \in S : g.item[i].prev_id \in S
               PROVE  FALSE
    BY DEF PrevsEnd
  <2>1. \A i \in S : i \in Ids(g) /\ i \in Ids(f) /\ IsRev(f, i) /\ i # None
    BY <1>4
  <2>2. CASE b \notin S
    <3>1. PICK i \in S : f.item[i].prev_id \notin S
      BY <1>1, <1>4 DEF Linked, PrevsEnd
    <3> QED BY <1>4, <2>1, <2>2, <3>1
  <2>3. CASE b \in S
    \* 1.2 follows the last of R, and the first of R follows 1.1.
    <3>1. last \in S
      BY <1>6, <2>1, <2>3
    <3>2. PICK i \in S \cap R : f.item[i].prev_id \notin S \cap R
      BY <1>1, <1>2, <2>1, <3>1 DEF Linked, PrevsEnd
    <3>3. f.item[i].prev_id \in S
      BY <1>2, <1>4, <2>1, <3>2
    <3> DEFINE A == {k \in S : f.item[k].lod = Trunk}
    <3>4. A \in SUBSET {k \in Ids(f) : IsRev(f, k)} /\ a \in A
      BY <1>2, <2>1, <3>2, <3>3 DEF a
    <3>5. PICK k \in A : f.item[k].prev_id \notin A
      BY <1>1, <3>4 DEF Linked, PrevsEnd
    <3>6. k \in S /\ k \in Ids(f) /\ IsRev(f, k) /\ f.item[k].lod = Trunk
      BY <2>1, <3>5
    <3>7. k # b
      BY <1>2, <2>1, <2>3, <3>4, <3>5
    <3> DEFINE p == f.item[k].prev_id
    <3>8. p \in S /\ p \in Ids(f) /\ IsRev(f, p) /\ p # None /\ p \notin A
      BY <2>1, <3>5, <1>4, <3>6, <3>7
    <3> HIDE DEF p
    <3> QED BY <3>6, <3>8, <1>1, <2>1, Surroundings, NamesAssumption DEF p, Named
  <2> QED BY <2>2, <2>3
<1>25. Shaped(g, U)
  BY <1>1, <1>3 DEF Shaped
<1>26. Linked(g, U)
  BY <1>15, <1>16, <1>17, <1>18, <1>19, <1>20, <1>21, <1>22, <1>23, <1>24, <1>25 DEF Linked
<1>27. NtdbLinked(g)
  <2>1. \A i \in Ids(g) : g.item[i].next_id # None => g.item[i].next_id \in Ids(g)
    BY <1>26, Surroundings
  <2> QED BY <1>4, <2>1 DEF NtdbLinked, NtdbrsFirst, NtdbStarts, Rev12, IsNtdbStart
<1>28. Named(g)
  <2>1. \A i \in Ids(g) : /\ i \in Ids(f) /\ (IsRev(g, i) <=> IsRev(f, i))
                          /\ g.item[i].symbol = f.item[i].symbol
    BY <1>4
  <2> QED BY <1>1, <2>1 DEF Named
<1>29. ASSUME NEW T, TagsEmpty(f, T) PROVE TagsEmpty(g, T)
  <2> SUFFICES ASSUME NEW i \in Ids(g), IsBranch(g, i), g.item[i].symbol \in T
               PROVE  g.item[i].next_id = None
    BY DEF TagsEmpty
  <2>1. i \in Ids(f) /\ IsBranch(f, i) /\ ~IsRev(f, i) /\ f.item[i].symbol \in T
    BY <1>4 DEF IsBranch, IsRev
  <2>2. i # last /\ i # a
    BY <1>10, <1>11, <1>5, <2>1
  <2> QED BY <1>4, <1>29, <2>1, <2>2 DEF TagsEmpty
<1> QED BY <1>26, <1>27, <1>28, <1>29 DEF g, Good
(***************************************************************************)
(* What CVS's default branch has put on trunk: adjust_ntdbrs() of the      *)
(* first revisions H on the branch b, which sprouts from 1.1.              *)
(***************************************************************************)
Fresh(f) ==
  \A i \in Ids(f) : ~f.item[i].ntdbr /\ f.item[i].ntdbr_prev_id = None
                                     /\ f.item[i].ntdbr_next_id = None

MayAdjustNtdbrs(f, U, b, H) ==
  /\ Good(f, U) /\ Fresh(f) /\ b \in Ids(f) /\ IsBranch(f, b)
  /\ f.item[f.item[b].source_id].prev_id = None
  /\ f.item[f.item[b].source_id].lod = Trunk
  /\ \A k \in Ids(f) : IsRev(f, k) /\ f.item[k].prev_id # None /\ f.item[k].first_on_branch_id = None =>
       ~f.item[k].is_rev_1_1 /\ f.item[k].log # "added on branch"
  /\ H \subseteq Revisions(f, b) /\ H # {}
  /\ \A i \in Revisions(f, b) : f.item[i].next_id \in H => i \in H

Between(f, b, H, a, first, next, last) ==
  /\ a \in Ids(f) /\ IsRev(f, a) /\ first \in H /\ last \in H
  /\ f.item[last].next_id \notin H
  /\ a \notin H /\ next \notin H
  /\ f.item[first].first_on_branch_id = b /\ f.item[first].prev_id = a
  /\ \A i \in H : /\ i \in Ids(f) /\ IsRev(f, i) /\ f.item[i].lod # Trunk
                  /\ i # first => /\ f.item[i].prev_id # None
                                  /\ f.item[i].first_on_branch_id = None
  /\ \A i \in Ids(f) : IsRev(f, i) /\ f.item[i].next_id \in H => i \in H
  /\ next # None =>
       /\ next \in Ids(f) /\ IsRev(f, next) /\ f.item[next].prev_id = a
       /\ f.item[next].first_on_branch_id = None /\ f.item[next].lod = Trunk
       /\ ~f.item[next].is_rev_1_1 /\ f.item[next].log # "added on branch"

LEMMA AdjustFacts ==
  ASSUME NEW f, NEW U, NEW b, NEW H, MayAdjustNtdbrs(f, U, b, H)
  PROVE  Between(f, b, H, f.item[b].source_id, f.item[b].next_id,
                 f.item[f.item[b].source_id].next_id,
                 CHOOSE i \in H : f.item[i].next_id \notin H)
<1> DEFINE R == Revisions(f, b)
           a == f.item[b].source_id
           first == f.item[b].next_id
           next == f.item[a].next_id
           last == CHOOSE i \in H : f.item[i].next_id \notin H
<1>1. /\ Linked(f, U) /\ None \notin Ids(f) /\ b \in Lods(f) /\ b \in Ids(f) /\ ~IsRev(f, b)
      /\ f.item[a].prev_id = None /\ f.item[a].lod = Trunk
      /\ H \subseteq R /\ H # {} /\ \A i \in R : f.item[i].next_id \in H => i \in H
  BY Surroundings DEF MayAdjustNtdbrs, Good, Lods, IsBranch, IsRev
<1>2. /\ Walkable(f) /\ MayStart(f, b) /\ FirstRev(f, b) = first
      /\ first # None => f.item[first].first_on_branch_id = b
      /\ \A i \in R :
           /\ i \in Ids(f) /\ IsRev(f, i) /\ f.item[i].lod = LodAt(f, b)
           /\ i # first => f.item[i].prev_id \in R /\ f.item[i].first_on_branch_id = None
  BY <1>1, LodRevisions
<1>3. /\ first = None => R = {}
      /\ first # None => first \in R
      /\ \A i \in R : f.item[i].next_id # None => f.item[i].next_id \in R
      /\ \A i \in R : f.item[i].next_id = None <=> i = LastRev(f, b)
      /\ R # {} => LastRev(f, b) \in R
  BY <1>2, RevisionsOf
<1>4. a \in Ids(f) /\ IsRev(f, a)
  BY <1>1, Surroundings
<1>5. first \in R /\ first # None
  BY <1>1, <1>3
<1>6. f.item[first].prev_id = a
  BY <1>1, <1>2, <1>5, Surroundings
<1>7. first \in H
  <2> SUFFICES ASSUME first \notin H PROVE FALSE
    OBVIOUS
  <2>1. FirstRev(f, b) \in R \ H
    BY <1>2, <1>5
  <2> HIDE DEF R
  <2>2. R \subseteq R \ H
    BY <1>2, <1>1, <2>1, RevisionsLeast DEF R
  <2> QED BY <1>1, <2>2
<1>8. last \in H /\ f.item[last].next_id \notin H
  BY <1>2, <1>7, RevisionsLeast, <1>1, <1>3, <1>5
<1> HIDE DEF R, last
<1>9. a \notin R
  BY <1>1, <1>5, <1>6, <1>2
<1>10. next # None =>
         /\ next \in Ids(f) /\ IsRev(f, next) /\ f.item[next].prev_id = a
         /\ f.item[next].first_on_branch_id = None /\ f.item[next].lod = Trunk
  BY <1>1, <1>4, Surroundings
<1>11. next \notin R
  BY <1>1, <1>2, <1>5, <1>10, <1>9
<1>12. ASSUME NEW i \in Ids(f), IsRev(f, i), f.item[i].next_id \in H PROVE i \in H
  BY <1>1, <1>2, <1>12, Surroundings, <1>5
<1>13. next # None => ~f.item[next].is_rev_1_1 /\ f.item[next].log # "added on branch"
  BY <1>1, <1>4, <1>10 DEF MayAdjustNtdbrs
<1>14. \A i \in H : /\ i \in Ids(f) /\ IsRev(f, i) /\ f.item[i].lod # Trunk
                    /\ i # first => f.item[i].prev_id # None /\ f.item[i].first_on_branch_id = None
  BY <1>1, <1>2, NamesAssumption DEF LodAt, MayAdjustNtdbrs, Good, Named
<1> QED
  BY <1>1, <1>2, <1>4, <1>5, <1>6, <1>7, <1>8, <1>9, <1>10, <1>11, <1>12, <1>13, <1>14 DEF last,
     Between

\* What adjust_ntdbrs() leaves alone in an item.
SameButNtdbrs(r, q) ==
  /\ q.kind = r.kind /\ q.live = r.live /\ q.lod = r.lod /\ q.symbol = r.symbol
  /\ q.is_rev_1_1 = r.is_rev_1_1 /\ q.log = r.log
  /\ q.deltatext_exists = r.deltatext_exists
  /\ q.prev_id = r.prev_id /\ q.next_id = r.next_id
  /\ q.first_on_branch_id = r.first_on_branch_id
  /\ q.source_id = r.source_id /\ q.source_lod = r.source_lod /\ q.tag_ids = r.tag_ids
  /\ q.branch_ids = r.branch_ids /\ q.branch_commit_ids = r.branch_commit_ids

AdjustedItem(f, b, H, j, q) ==
  LET r == f.item[j]
      next == f.item[f.item[b].source_id].next_id
      last == CHOOSE i \in H : f.item[i].next_id \notin H
  IN  /\ SameButNtdbrs(r, q)
      /\ q.ntdbr = (j \in H)
      /\ q.ntdbr_next_id = IF j = last THEN next ELSE None
      /\ q.ntdbr_prev_id = IF j = next THEN last ELSE None
      /\ q.pred_live = IF j = next THEN f.item[last].live ELSE r.pred_live

MarksLast(U, r, next, q) ==
  /\ q \in ItemRecord(U) /\ SameButNtdbrs(r, q) /\ q.ntdbr = TRUE /\ q.ntdbr_next_id = next
  /\ q.ntdbr_prev_id = r.ntdbr_prev_id /\ q.pred_live = r.pred_live

LEMMA LastMarked ==
  ASSUME NEW U, NEW r \in ItemRecord(U), NEW next \in U
  PROVE  MarksLast(U, r, next, [r EXCEPT !.ntdbr = TRUE, !.ntdbr_next_id = next])
BY DEF ItemRecord, MarksLast, SameButNtdbrs

Marks(U, r, q) ==
  /\ q \in ItemRecord(U) /\ SameButNtdbrs(r, q) /\ q.ntdbr = TRUE
  /\ q.ntdbr_next_id = r.ntdbr_next_id /\ q.ntdbr_prev_id = r.ntdbr_prev_id
  /\ q.pred_live = r.pred_live

LEMMA NtdbrMarked ==
  ASSUME NEW U, NEW r \in ItemRecord(U)
  PROVE  Marks(U, r, [r EXCEPT !.ntdbr = TRUE])
<1> DEFINE q == [r EXCEPT !.ntdbr = TRUE]
<1>1. q \in ItemRecord(U)
  BY DEF ItemRecord
<1> QED BY <1>1 DEF Marks, ItemRecord, SameButNtdbrs

Follows12(r, last, live) == [r EXCEPT !.ntdbr_prev_id = last, !.pred_live = live]

Marks12(U, r, last, live, q) ==
  /\ q \in ItemRecord(U) /\ SameButNtdbrs(r, q) /\ q.ntdbr = r.ntdbr
  /\ q.ntdbr_next_id = r.ntdbr_next_id /\ q.ntdbr_prev_id = last /\ q.pred_live = live

LEMMA Rev12Marked ==
  ASSUME NEW U, NEW r \in ItemRecord(U), NEW last \in U, NEW live \in BOOLEAN
  PROVE  Marks12(U, r, last, live, Follows12(r, last, live))
<1> DEFINE q == [r EXCEPT !.ntdbr_prev_id = last, !.pred_live = live]
           q1 == [r EXCEPT !.ntdbr_prev_id = last]
<1>1. q \in ItemRecord(U)
  <2>1. q1 \in ItemRecord(U)
    BY DEF ItemRecord
  <2>2. q = [q1 EXCEPT !.pred_live = live]
    OBVIOUS
  <2> HIDE DEF q, q1
  <2> QED BY <2>1, <2>2, LiveSet
<1> QED BY <1>1 DEF Marks12, Follows12, ItemRecord, SameButNtdbrs

LEMMA AdjustedItems ==
  ASSUME NEW f, NEW U, NEW b, NEW H, MayAdjustNtdbrs(f, U, b, H)
  PROVE  LET g == AdjustNtdbrs(f, b, H)
         IN  /\ Ids(g) = Ids(f) /\ g.root = f.root
             /\ g = [item |-> g.item, root |-> g.root] /\ g.item = [j \in Ids(g) |-> g.item[j]]
             /\ \A j \in Ids(g) : g.item[j] \in ItemRecord(U) /\ AdjustedItem(f, b, H, j, g.item[j])
<1> DEFINE g == AdjustNtdbrs(f, b, H)
           first == f.item[b].next_id
           next == f.item[f.item[b].source_id].next_id
           last == CHOOSE i \in H : f.item[i].next_id \notin H
           Adjusted(i) ==
             IF i = last /\ next # None
             THEN [f.item[i] EXCEPT !.ntdbr = TRUE, !.ntdbr_next_id = next]
             ELSE IF i \in H THEN [f.item[i] EXCEPT !.ntdbr = TRUE]
             ELSE IF i = next
             THEN [f.item[i] EXCEPT !.ntdbr_prev_id = last, !.pred_live = f.item[last].live]
             ELSE f.item[i]
<1>1. /\ Shaped(f, U) /\ Fresh(f) /\ H # {} /\ None \notin Ids(f)
      /\ f = [item |-> f.item, root |-> f.root]
  BY Surroundings DEF MayAdjustNtdbrs, Good, Linked, Shaped
<1>2. /\ last \in H /\ next \notin H /\ \A i \in H : i \in Ids(f)
      /\ next # None => next \in Ids(f)
  BY AdjustFacts DEF Between
<1>3. /\ Ids(g) = Ids(f) /\ g.root = f.root
      /\ g = [item |-> g.item, root |-> g.root] /\ g.item = [j \in Ids(g) |-> g.item[j]]
      /\ \A j \in Ids(g) : g.item[j] = Adjusted(j)
  <2>1. g = [f EXCEPT !.item = [i \in Ids(f) |-> Adjusted(i)]]
    BY <1>1 DEF AdjustNtdbrs
  <2> HIDE DEF g, Adjusted
  <2> QED BY <1>1, <2>1, ItemsReplaced DEF Ids
<1> HIDE DEF g, last, next
<1>4. ASSUME NEW j \in Ids(g)
      PROVE  g.item[j] \in ItemRecord(U) /\ AdjustedItem(f, b, H, j, g.item[j])
  <2> DEFINE r == f.item[j]
             q == g.item[j]
  <2>1. /\ j \in Ids(f) /\ r \in ItemRecord(U) /\ ~r.ntdbr /\ r.ntdbr_prev_id = None
        /\ r.ntdbr_next_id = None /\ j # None
    BY <1>1, <1>3, ShapedItem DEF Fresh
  <2>2. r.ntdbr = FALSE
    BY <2>1 DEF ItemRecord
  <2>3. q = Adjusted(j)
    BY <1>3
  <2>4. last \in U /\ (next # None => next \in U) /\ f.item[last].live \in BOOLEAN
    BY <1>1, <1>2, ShapedItem DEF Shaped, ItemRecord
  <2>5. q \in ItemRecord(U) /\ SameButNtdbrs(r, q) /\ q.ntdbr = (j \in H)
        /\ q.ntdbr_next_id = (IF j = last THEN next ELSE None)
        /\ q.ntdbr_prev_id = (IF j = next THEN last ELSE None)
        /\ q.pred_live = (IF j = next THEN f.item[last].live ELSE r.pred_live)
    <3> HIDE DEF r, q
    <3>1. CASE j = last /\ next # None
      <4>1. MarksLast(U, r, next, q)
        BY <2>1, <2>4, <3>1, <2>3, LastMarked DEF r
      <4> QED BY <1>2, <2>1, <3>1, <4>1 DEF MarksLast
    <3>2. CASE ~ (j = last /\ next # None) /\ j \in H
      BY <2>3, <3>2, <2>1, NtdbrMarked, <1>2 DEF r, Marks
    <3>3. CASE j \notin H /\ j = next
      <4>1. q = [r EXCEPT !.ntdbr_prev_id = last, !.pred_live = f.item[last].live]
        BY <1>2, <2>3, <3>3 DEF r
      <4>2. Marks12(U, r, last, f.item[last].live, q)
        BY <2>1, <2>4, Rev12Marked, <4>1 DEF Follows12
      <4>3. r.ntdbr_next_id = None /\ j # last /\ (j \in H) = FALSE
        BY <1>2, <2>1, <3>3
      <4> QED BY <2>2, <3>3, <4>2, <4>3 DEF Marks12
    <3>4. CASE j \notin H /\ j # next
      <4>1. r.ntdbr_next_id = None /\ r.ntdbr_prev_id = None /\ j # last /\ (j \in H) = FALSE
        BY <1>2, <2>1, <3>4
      <4> QED BY <2>1, <2>2, <3>4, <1>2, <2>3, <4>1 DEF SameButNtdbrs, r
    <3> QED BY <3>1, <3>2, <3>3, <3>4
  <2> QED BY <2>5 DEF AdjustedItem, last, next
<1> QED BY <1>3, <1>4 DEF g

LEMMA NtdbrsAdjusted ==
  ASSUME NEW f, NEW U, NEW b, NEW H, MayAdjustNtdbrs(f, U, b, H)
  PROVE  LET g == AdjustNtdbrs(f, b, H)
         IN  /\ Good(g, U) /\ b \in Ids(g) /\ IsBranch(g, b)
             /\ StartsWithNtdbr(g, b) /\ FirstRev(g, b) = g.item[b].next_id
             /\ g.item[b].source_id = f.item[b].source_id
             /\ g.item[g.item[b].source_id].prev_id = None
             /\ g.item[g.item[b].source_id].live = f.item[f.item[b].source_id].live
<1> DEFINE g == AdjustNtdbrs(f, b, H)
           a == f.item[b].source_id
           first == f.item[b].next_id
           next == f.item[a].next_id
           last == CHOOSE i \in H : f.item[i].next_id \notin H
<1>1. /\ Linked(f, U) /\ Named(f) /\ Shaped(f, U) /\ None \notin Ids(f) /\ Fresh(f)
      /\ b \in Ids(f) /\ IsBranch(f, b) /\ f.item[a].prev_id = None /\ f.item[a].lod = Trunk
  BY Surroundings DEF MayAdjustNtdbrs, Good, Linked
<1>2. /\ a \in Ids(f) /\ IsRev(f, a) /\ first \in H /\ last \in H
      /\ f.item[last].next_id \notin H
      /\ a \notin H /\ next \notin H
      /\ f.item[first].first_on_branch_id = b /\ f.item[first].prev_id = a
      /\ \A i \in H : /\ i \in Ids(f) /\ IsRev(f, i) /\ f.item[i].lod # Trunk
                      /\ i # first => /\ f.item[i].prev_id # None
                                      /\ f.item[i].first_on_branch_id = None
      /\ \A i \in Ids(f) : IsRev(f, i) /\ f.item[i].next_id \in H => i \in H
      /\ next # None =>
           /\ next \in Ids(f) /\ IsRev(f, next) /\ f.item[next].prev_id = a
           /\ f.item[next].first_on_branch_id = None /\ f.item[next].lod = Trunk
           /\ ~f.item[next].is_rev_1_1 /\ f.item[next].log # "added on branch"
  <2>1. Between(f, b, H, a, first, next, last)
    BY AdjustFacts
  <2> HIDE DEF last
  <2> QED BY <2>1 DEF Between
<1>3. /\ Ids(g) = Ids(f) /\ g.root = f.root
      /\ g = [item |-> g.item, root |-> g.root] /\ g.item = [j \in Ids(g) |-> g.item[j]]
      /\ \A j \in Ids(g) : g.item[j] \in ItemRecord(U) /\ AdjustedItem(f, b, H, j, g.item[j])
  BY AdjustedItems
<1> HIDE DEF g
<1>4. ASSUME NEW j \in Ids(g)
      PROVE  /\ SameButNtdbrs(f.item[j], g.item[j])
             /\ g.item[j].ntdbr = (j \in H)
             /\ g.item[j].ntdbr_next_id = (IF j = last THEN next ELSE None)
             /\ g.item[j].ntdbr_prev_id = (IF j = next THEN last ELSE None)
             /\ g.item[j].pred_live = (IF j = next THEN f.item[last].live ELSE f.item[j].pred_live)
  BY <1>3 DEF AdjustedItem
<1> HIDE DEF last
<1>5. ASSUME NEW j \in Ids(f)
      PROVE  /\ IsRev(g, j) <=> IsRev(f, j)
             /\ IsBranch(g, j) <=> IsBranch(f, j)
             /\ g.item[j].kind = f.item[j].kind
  BY <1>3, <1>4 DEF SameButNtdbrs, IsRev, IsBranch
<1>6. ASSUME NEW j \in Ids(f)
      PROVE  /\ g.item[j].prev_id = f.item[j].prev_id /\ g.item[j].next_id = f.item[j].next_id
             /\ g.item[j].first_on_branch_id = f.item[j].first_on_branch_id
             /\ g.item[j].lod = f.item[j].lod /\ g.item[j].symbol = f.item[j].symbol
             /\ g.item[j].live = f.item[j].live
             /\ g.item[j].is_rev_1_1 = f.item[j].is_rev_1_1 /\ g.item[j].log = f.item[j].log
  BY <1>3, <1>4 DEF SameButNtdbrs
<1>7. ASSUME NEW j \in Ids(f)
      PROVE  /\ g.item[j].source_id = f.item[j].source_id
             /\ g.item[j].source_lod = f.item[j].source_lod
             /\ g.item[j].tag_ids = f.item[j].tag_ids
             /\ g.item[j].branch_ids = f.item[j].branch_ids
             /\ g.item[j].branch_commit_ids = f.item[j].branch_commit_ids
  BY <1>3, <1>4 DEF SameButNtdbrs
<1>8. ASSUME NEW j \in Ids(f)
      PROVE  /\ g.item[j].ntdbr <=> (j \in H)
             /\ g.item[j].ntdbr_next_id = (IF j = last THEN next ELSE None)
             /\ g.item[j].ntdbr_prev_id = (IF j = next THEN last ELSE None)
  BY <1>3, <1>4
<1>9. ASSUME NEW j \in Ids(f)
      PROVE  g.item[j].pred_live = (IF j = next THEN f.item[last].live ELSE f.item[j].pred_live)
  BY <1>3, <1>4
<1>10. \A i \in H : /\ i \in Ids(f) /\ f.item[i].lod # Trunk
                    /\ i # first => f.item[i].prev_id # None /\ f.item[i].first_on_branch_id = None
  BY <1>2
<1>11. last \in Ids(f) /\ last # None /\ first \in Ids(f) /\ first # None /\ IsRev(f, last)
  BY <1>1, <1>2
<1> HIDE DEF a, first, next
<1>12. Classes(g)
  <2>1. \A i \in Ids(f) : ~IsRev(f, i) => i # next /\ i # last /\ i \notin H
    BY <1>2, <1>1
  <2> QED BY <1>1, <1>3, <1>5, <1>6, <1>7, <1>8, <2>1 DEF Linked, Classes
<1>13. Sprouting(g)
  BY <1>1, <1>3, <1>5, <1>7 DEF Linked, Sprouting
<1>14. Sprouts(g)
  <2> SUFFICES ASSUME NEW i \in Ids(f), ~IsRev(f, i)
               PROVE  LET source == f.item[i].source_id
                      IN  /\ source \in Ids(g) /\ IsRev(g, source)
                          /\ g.item[i].source_lod = g.item[source].lod
                          /\ i \in IF IsBranch(g, i) THEN ToSet(g.item[source].branch_ids)
                                   ELSE g.item[source].tag_ids
    BY <1>3, <1>5, <1>7 DEF Sprouts
  <2>1. LET source == f.item[i].source_id
        IN  /\ source \in Ids(f) /\ IsRev(f, source)
            /\ f.item[i].source_lod = f.item[source].lod
            /\ i \in IF IsBranch(f, i) THEN ToSet(f.item[source].branch_ids)
                     ELSE f.item[source].tag_ids
    BY <1>1 DEF Linked, Sprouts
  <2> QED BY <1>3, <1>5, <1>6, <1>7, <2>1
<1>15. Nexts(g)
  BY <1>1, <1>3, <1>5, <1>6 DEF Linked, Nexts, Follows, Begins
<1>16. Prevs(g)
  BY <1>1, <1>3, <1>5, <1>6, <1>7 DEF Linked, Prevs
<1>17. Commits(g)
  <2> SUFFICES ASSUME NEW i \in Ids(f), IsRev(f, i)
               PROVE  f.item[i].branch_commit_ids =
                        {j \in Ids(g) : /\ IsRev(g, j) /\ g.item[j].first_on_branch_id # None
                                        /\ g.item[j].prev_id = i}
    BY <1>3, <1>5, <1>7 DEF Commits
  <2>1. f.item[i].branch_commit_ids =
          {j \in Ids(f) : /\ IsRev(f, j) /\ f.item[j].first_on_branch_id # None
                          /\ f.item[j].prev_id = i}
    BY <1>1 DEF Linked, Commits
  <2> QED BY <1>3, <1>5, <1>6, <2>1
<1>18. NtdbrPairs(g)
  <2> SUFFICES ASSUME NEW i \in Ids(f)
               PROVE  /\ g.item[i].ntdbr_next_id # None =>
                           /\ g.item[i].ntdbr /\ g.item[i].ntdbr_next_id \in Ids(f)
                           /\ g.item[g.item[i].ntdbr_next_id].ntdbr_prev_id = i
                      /\ g.item[i].ntdbr_prev_id # None =>
                           /\ g.item[i].ntdbr_prev_id \in Ids(f)
                           /\ g.item[g.item[i].ntdbr_prev_id].ntdbr_next_id = i
    BY <1>3 DEF NtdbrPairs
  <2> QED BY <1>2, <1>8, <1>11
<1>19. PredLive(g)
  <2> SUFFICES ASSUME NEW i \in Ids(f), IsRev(f, i)
               PROVE  LET p == EffectivePrev(g.item[i])
                      IN  g.item[i].pred_live = (p # None /\ g.item[p].live)
    BY <1>3, <1>5 DEF PredLive
  <2>1. CASE i = next
    <3>1. EffectivePrev(g.item[i]) = last
      BY <1>8, <1>11, <2>1 DEF EffectivePrev
    <3>2. g.item[i].pred_live = f.item[last].live /\ g.item[last].live = f.item[last].live
      BY <1>9, <1>6, <1>11, <2>1
    <3> QED BY <1>11, <3>1, <3>2, <1>1, ShapedItem DEF ItemRecord
  <2>2. CASE i # next
    <3> DEFINE p == f.item[i].prev_id
    <3>1. EffectivePrev(g.item[i]) = p
      BY <1>8, <1>6, <2>2 DEF EffectivePrev
    <3>2. f.item[i].pred_live = (p # None /\ f.item[p].live)
      BY <1>1 DEF Linked, PredLive, Fresh, EffectivePrev
    <3>3. p # None => p \in Ids(f)
      BY <1>1, Surroundings
    <3>4. g.item[i].pred_live = f.item[i].pred_live
      BY <1>9, <2>2
    <3> HIDE DEF p
    <3>5. p # None => g.item[p].live = f.item[p].live
      BY <1>6, <3>3
    <3> QED BY <3>1, <3>2, <3>4, <3>5
  <2> QED BY <2>1, <2>2
<1>20. Roots(g)
  <2>1. f.root = {j \in Ids(f) : IsRev(f, j) /\ f.item[j].prev_id = None}
    BY <1>1 DEF Linked, Roots
  <2> QED BY <1>3, <1>5, <1>6, <2>1 DEF Roots
<1>21. PrevsEnd(g)
  <2> SUFFICES ASSUME NEW S \in SUBSET {i \in Ids(g) : IsRev(g, i)}, S # {}
               PROVE  \E i \in S : g.item[i].prev_id \notin S
    BY DEF PrevsEnd
  <2>1. S \in SUBSET {i \in Ids(f) : IsRev(f, i)}
    BY <1>3, <1>5
  <2>2. PICK i \in S : f.item[i].prev_id \notin S
    BY <1>1, <2>1 DEF Linked, PrevsEnd
  <2> QED BY <1>6, <2>1, <2>2
<1>22. Shaped(g, U)
  BY <1>1, <1>3 DEF Shaped
<1>23. Linked(g, U)
  BY <1>12, <1>13, <1>14, <1>15, <1>16, <1>17, <1>18, <1>19, <1>20, <1>21, <1>22 DEF Linked
<1>24. NtdbrsFirst(g)
  <2> SUFFICES ASSUME NEW i \in Ids(f)
               PROVE  /\ g.item[i].ntdbr => g.item[i].lod # Trunk
                      /\ IsRev(g, i) /\ g.item[i].next_id # None
                           /\ g.item[g.item[i].next_id].ntdbr =>
                           g.item[i].ntdbr /\ g.item[i].ntdbr_next_id = None
    BY <1>3 DEF NtdbrsFirst
  <2>1. g.item[i].ntdbr => g.item[i].lod # Trunk
    BY <1>10, <1>6, <1>8
  <2>2. ASSUME IsRev(g, i), g.item[i].next_id # None, g.item[g.item[i].next_id].ntdbr
        PROVE  g.item[i].ntdbr /\ g.item[i].ntdbr_next_id = None
    <3>1. IsRev(f, i) /\ g.item[i].next_id = f.item[i].next_id
      BY <1>5, <1>6, <2>2
    <3>2. f.item[i].next_id \in Ids(f)
      BY <1>1, <2>2, <3>1, Surroundings
    <3>3. f.item[i].next_id \in H
      BY <1>8, <2>2, <3>1, <3>2
    <3>4. i \in H /\ i # last
      BY <1>2, <3>1, <3>3
    <3> QED BY <1>8, <3>4
  <2> QED BY <2>1, <2>2
<1>25. ASSUME NEW t \in Ids(g), IsNtdbStart(g, t) PROVE t = first
  <2>1. t \in H
    BY <1>3, <1>25, <1>8 DEF IsNtdbStart
  <2> QED BY <1>10, <1>25, <1>6, <2>1 DEF IsNtdbStart
<1>26. NtdbStarts(g)
  <2> SUFFICES ASSUME NEW t \in Ids(g), IsNtdbStart(g, t)
               PROVE  /\ \A u \in Ids(g) : IsNtdbStart(g, u) => u = t
                      /\ LET p == g.item[t].prev_id
                         IN  p # None => /\ g.item[p].lod = Trunk
                                         /\ g.item[p].next_id # None =>
                                              g.item[g.item[p].next_id].ntdbr_prev_id # None
    BY DEF NtdbStarts
  <2>1. t = first /\ \A u \in Ids(g) : IsNtdbStart(g, u) => u = t
    BY <1>25
  <2>2. g.item[t].prev_id = a
    BY <1>2, <1>6, <1>11, <2>1
  <2>3. g.item[a].lod = Trunk /\ g.item[a].next_id = next
    BY <1>1, <1>2, <1>6 DEF next
  <2>4. next # None => g.item[next].ntdbr_prev_id # None
    BY <1>2, <1>8, <1>11
  <2> QED BY <2>1, <2>2, <2>3, <2>4
<1>27. Rev12(g)
  <2> SUFFICES ASSUME NEW k \in Ids(g), g.item[k].ntdbr_prev_id # None
               PROVE  /\ g.item[k].first_on_branch_id = None /\ g.item[k].lod = Trunk
                      /\ ~g.item[k].is_rev_1_1 /\ g.item[k].log # "added on branch"
                      /\ \A t \in Ids(g) : IsNtdbStart(g, t) => g.item[k].prev_id = g.item[t].prev_id
    BY DEF Rev12
  <2>1. k = next /\ next # None
    BY <1>1, <1>3, <1>8
  <2>2. g.item[k].prev_id = a /\ g.item[first].prev_id = a
    BY <1>2, <1>3, <1>6, <1>11, <2>1
  <2>3. /\ g.item[k].first_on_branch_id = None /\ g.item[k].lod = Trunk
        /\ ~g.item[k].is_rev_1_1 /\ g.item[k].log # "added on branch"
    BY <1>2, <1>3, <1>6, <2>1
  <2> QED BY <1>25, <2>2, <2>3
<1>28. Named(g)
  BY <1>1, <1>3, <1>5, <1>6 DEF Named
<1>29. /\ b \in Ids(g) /\ IsBranch(g, b) /\ ~IsRev(g, b) /\ g.item[b].source_id = a
       /\ g.item[b].next_id = first
  BY <1>1, <1>3, <1>5, <1>6, <1>7 DEF IsBranch, IsRev, a, first
<1>30. FirstRev(g, b) = first /\ StartsWithNtdbr(g, b)
  <2>1. FirstRev(g, b) = first
    BY <1>29 DEF FirstRev
  <2> QED BY <1>2, <1>11, <1>8, <2>1 DEF StartsWithNtdbr
<1>31. g.item[a].prev_id = None /\ g.item[a].live = f.item[a].live
  BY <1>1, <1>2, <1>6
<1> QED BY <1>23, <1>24, <1>26, <1>27, <1>28, <1>29, <1>30, <1>31 DEF g, a, NtdbLinked, Good

(***************************************************************************)
(* imported_remove_1_1(): the first revision on the vendor branch b takes  *)
(* over what sprouts from 1.1.                                             *)
(***************************************************************************)
MayRemove11(f, U, b) ==
  /\ Good(f, U) /\ b \in Ids(f) /\ IsBranch(f, b) /\ f.item[b].next_id # None
  /\ f.item[f.item[b].next_id].ntdbr
  /\ f.item[f.item[b].source_id].prev_id = None
  /\ f.item[f.item[b].source_id].live /\ f.item[f.item[b].next_id].live

\* What 1.1, the first revision on the branch and 1.2 are to each other.
Importing(f, b, a, first, next) ==
  /\ b # None /\ ~IsRev(f, b) /\ a \in Ids(f) /\ IsRev(f, a) /\ a # first /\ a # next
  /\ first \in Ids(f) /\ IsRev(f, first) /\ first # None /\ next # first
  /\ f.item[first].first_on_branch_id = b /\ f.item[first].prev_id = a
  /\ f.item[first].ntdbr_prev_id = None
  /\ ~f.item[a].ntdbr /\ f.item[a].ntdbr_prev_id = None /\ f.item[a].ntdbr_next_id = None
  /\ \A k \in Ids(f) : f.item[k].ntdbr_prev_id # None => k = next
  /\ next # None =>
       /\ next \in Ids(f) /\ IsRev(f, next) /\ f.item[next].prev_id = a
       /\ f.item[next].first_on_branch_id = None /\ f.item[next].ntdbr_prev_id # None
  /\ \A t \in Ids(f) : IsNtdbStart(f, t) => t = first

LEMMA ImportFacts ==
  ASSUME NEW f, NEW U, NEW b, MayRemove11(f, U, b)
  PROVE  Importing(f, b, f.item[b].source_id, f.item[b].next_id,
                   f.item[f.item[b].source_id].next_id)
<1> DEFINE a == f.item[b].source_id
           first == f.item[b].next_id
           next == f.item[a].next_id
<1>1. /\ Linked(f, U) /\ NtdbLinked(f) /\ None \notin Ids(f) /\ b \in Ids(f) /\ IsBranch(f, b)
      /\ first # None /\ f.item[first].ntdbr /\ f.item[a].prev_id = None
  BY Surroundings DEF MayRemove11, Good
<1>2. b # None /\ ~IsRev(f, b)
  BY <1>1 DEF IsBranch, IsRev
<1>3. a \in Ids(f) /\ IsRev(f, a)
  BY <1>1, <1>2, Surroundings
<1>4. first \in Ids(f) /\ IsRev(f, first) /\ f.item[first].first_on_branch_id = b
  BY <1>1, <1>2, Surroundings
<1>5. f.item[first].prev_id = a
  BY <1>1, <1>2, <1>4, Surroundings
<1>6. a # None /\ a # first
  BY <1>1, <1>3, <1>5
<1>7. IsNtdbStart(f, first)
  BY <1>1, <1>2, <1>4 DEF IsNtdbStart
<1>8. \A t \in Ids(f) : IsNtdbStart(f, t) => t = first
  BY <1>1, <1>4, <1>7 DEF NtdbLinked, NtdbStarts
<1>9. f.item[a].lod = Trunk /\ (next # None => f.item[next].ntdbr_prev_id # None)
  BY <1>1, <1>4, <1>5, <1>6, <1>7 DEF NtdbLinked, NtdbStarts
<1>10. next # None =>
         /\ next \in Ids(f) /\ IsRev(f, next) /\ f.item[next].prev_id = a
         /\ f.item[next].first_on_branch_id = None
  BY <1>1, <1>3, Surroundings
<1>11. ASSUME NEW k \in Ids(f), f.item[k].ntdbr_prev_id # None PROVE k = next
  <2>1. f.item[k].first_on_branch_id = None /\ f.item[k].prev_id = a
    BY <1>1, <1>4, <1>5, <1>7, <1>11 DEF NtdbLinked, Rev12
  <2> QED BY <1>1, <1>6, <2>1, Surroundings
<1>12. a # next
  BY <1>1, <1>6, <1>10
<1>13. next # first
  BY <1>1, <1>2, <1>4, <1>10
<1>14. f.item[first].ntdbr_prev_id = None /\ f.item[a].ntdbr_prev_id = None
  BY <1>3, <1>4, <1>11, <1>12, <1>13
<1>15. ~f.item[a].ntdbr
  BY <1>1, <1>3, <1>9 DEF NtdbLinked, NtdbrsFirst
<1>16. f.item[a].ntdbr_next_id = None
  BY <1>1, <1>3, <1>15 DEF Linked, NtdbrPairs
<1> HIDE DEF a, first, next
<1>17. \A k \in Ids(f) : f.item[k].ntdbr_prev_id # None => k = next
  BY <1>11
<1>18. Importing(f, b, a, first, next)
  BY <1>1, <1>2, <1>3, <1>4, <1>5, <1>6, <1>8, <1>9, <1>10, <1>12, <1>13, <1>14, <1>15, <1>16,
     <1>17 DEF Importing
<1> QED BY <1>18 DEF a, first, next

\* What keeps its links to the revisions before and after it.
SamePlaceInTime(r, q) ==
  /\ q.kind = r.kind /\ q.live = r.live /\ q.lod = r.lod /\ q.symbol = r.symbol
  /\ q.is_rev_1_1 = r.is_rev_1_1 /\ q.log = r.log /\ q.ntdbr = r.ntdbr
  /\ q.ntdbr_prev_id = r.ntdbr_prev_id /\ q.ntdbr_next_id = r.ntdbr_next_id
  /\ q.next_id = r.next_id

RemovedItem(f, b, j, q) ==
  LET r == f.item[j]
      a == f.item[b].source_id
      first == f.item[b].next_id
      next == f.item[a].next_id
  IN  /\ SamePlaceInTime(r, q)
      /\ q.first_on_branch_id = IF j = first THEN None ELSE r.first_on_branch_id
      /\ q.prev_id = IF j = first \/ j = next THEN None
                     ELSE IF r.prev_id = a THEN first ELSE r.prev_id
      /\ q.pred_live = IF j = first THEN FALSE ELSE r.pred_live
      /\ q.source_id = IF r.source_id = a THEN first ELSE r.source_id
      /\ q.source_lod = IF r.source_id = a THEN f.item[first].lod ELSE r.source_lod
      /\ q.tag_ids = IF j = first THEN r.tag_ids \cup f.item[a].tag_ids ELSE r.tag_ids
      /\ ToSet(q.branch_ids) = IF j = first THEN ToSet(r.branch_ids) \cup (ToSet(f.item[a].branch_ids) \ {b})
                               ELSE ToSet(r.branch_ids)
      /\ IsInjective(q.branch_ids)
      /\ q.branch_commit_ids = IF j = first
                               THEN r.branch_commit_ids \cup (f.item[a].branch_commit_ids \ {first})
                               ELSE r.branch_commit_ids

\* The three ways in which an item changes.
TakesOverNow(r, tag_ids, branch_ids, commits) ==
  [r EXCEPT !.tag_ids = tag_ids, !.branch_ids = branch_ids, !.branch_commit_ids = commits]
TakesOver(U, r, tag_ids, branch_ids, commits, q) ==
  /\ q \in ItemRecord(U) /\ SamePlaceInTime(r, q)
  /\ q.first_on_branch_id = r.first_on_branch_id /\ q.prev_id = r.prev_id
  /\ q.pred_live = r.pred_live /\ q.source_id = r.source_id /\ q.source_lod = r.source_lod
  /\ q.tag_ids = tag_ids /\ q.branch_ids = branch_ids /\ q.branch_commit_ids = commits

LEMMA TakenOver ==
  ASSUME NEW U, NEW r \in ItemRecord(U), NEW tag_ids \in SUBSET U, NEW branch_ids \in Seq(U),
         NEW commits \in SUBSET U
  PROVE  TakesOver(U, r, tag_ids, branch_ids, commits,
                   TakesOverNow(r, tag_ids, branch_ids, commits))
<1> DEFINE q == [r EXCEPT !.tag_ids = tag_ids, !.branch_ids = branch_ids,
                          !.branch_commit_ids = commits]
<1>1. q \in ItemRecord(U)
  BY DEF ItemRecord
<1> QED BY <1>1 DEF TakesOver, TakesOverNow, ItemRecord, SamePlaceInTime

MovesTo(U, r, source, lod, prev, q) ==
  /\ q \in ItemRecord(U) /\ SamePlaceInTime(r, q)
  /\ q.first_on_branch_id = r.first_on_branch_id /\ q.prev_id = prev
  /\ q.pred_live = r.pred_live /\ q.source_id = source /\ q.source_lod = lod
  /\ q.tag_ids = r.tag_ids /\ q.branch_ids = r.branch_ids
  /\ q.branch_commit_ids = r.branch_commit_ids

MovedNow(r, source, lod) == [r EXCEPT !.source_id = source, !.source_lod = lod]

LEMMA SourceMoved ==
  ASSUME NEW U, NEW r \in ItemRecord(U), NEW source \in U, NEW lod \in Nat
  PROVE  MovesTo(U, r, source, lod, r.prev_id, MovedNow(r, source, lod))
<1> DEFINE q == [r EXCEPT !.source_id = source, !.source_lod = lod]
<1>1. q \in ItemRecord(U)
  BY DEF ItemRecord
<1> QED BY <1>1 DEF MovesTo, MovedNow, ItemRecord, SamePlaceInTime

LEMMA PrevMoved ==
  ASSUME NEW U, NEW r \in ItemRecord(U), NEW prev \in U \cup {None}
  PROVE  MovesTo(U, r, r.source_id, r.source_lod, prev, [r EXCEPT !.prev_id = prev])
BY DEF ItemRecord, SamePlaceInTime, MovesTo

LEMMA RemovedItems ==
  ASSUME NEW f, NEW U, NEW b, MayRemove11(f, U, b), RepeatsSource(f, b)
  PROVE  LET g == ImportedRemove11(f, b)
             a == f.item[b].source_id
             next == f.item[a].next_id
         IN  /\ Ids(g) = Ids(f) \ {a, b}
             /\ g.root = ((f.root \cup {f.item[b].next_id}) \ {a}) \cup ({next} \ {None})
             /\ g = [item |-> g.item, root |-> g.root] /\ g.item = [j \in Ids(g) |-> g.item[j]]
             /\ \A j \in Ids(g) : g.item[j] \in ItemRecord(U) /\ RemovedItem(f, b, j, g.item[j])
<1> DEFINE g == ImportedRemove11(f, b)
           a == f.item[b].source_id
           first == f.item[b].next_id
           next == f.item[a].next_id
           cut == SeverBranch(f, b)
           old == cut.item[a]
           Moved(i) ==
             CASE i = first ->
                    [cut.item[i] EXCEPT !.tag_ids = @ \cup old.tag_ids,
                                        !.branch_ids = old.branch_ids \o @,
                                        !.branch_commit_ids = @ \cup old.branch_commit_ids]
               [] i \in old.tag_ids \cup ToSet(old.branch_ids) ->
                    [cut.item[i] EXCEPT !.source_id = first,
                                        !.source_lod = cut.item[first].lod]
               [] i \in old.branch_commit_ids -> [cut.item[i] EXCEPT !.prev_id = first]
               [] i = old.next_id -> [cut.item[i] EXCEPT !.prev_id = None]
               [] OTHER -> cut.item[i]
<1>1. /\ Linked(f, U) /\ Shaped(f, U) /\ None \notin Ids(f) /\ b \in Ids(f) /\ IsBranch(f, b)
      /\ first # None
  BY Surroundings DEF MayRemove11, Good, Linked
<1>2. Importing(f, b, a, first, next)
  BY ImportFacts
<1>3. /\ Ids(cut) = Ids(f) \ {b} /\ cut.root = f.root \cup ({first} \ {None})
      /\ \A j \in Ids(cut) : cut.item[j] \in ItemRecord(U) /\ SeveredItem(f, b, j, cut.item[j])
  BY <1>1, Severed
<1>4. g = [item |-> [i \in Ids(cut) \ {a} |-> Moved(i)],
           root |-> (cut.root \ {a}) \cup ({old.next_id} \ {None})]
  BY DEF ImportedRemove11
<1> HIDE DEF g, cut, first, next, Moved
<1>5. /\ old.tag_ids = f.item[a].tag_ids /\ old.next_id = next
      /\ ToSet(old.branch_ids) = ToSet(f.item[a].branch_ids) \ {b} /\ IsInjective(old.branch_ids)
      /\ old.branch_commit_ids = f.item[a].branch_commit_ids \ {first}
      /\ old.branch_ids \in Seq(U) /\ old.tag_ids \in SUBSET U /\ old.branch_commit_ids \in SUBSET U
  <2>1. old \in ItemRecord(U) /\ SeveredItem(f, b, a, old)
    BY <1>3, <1>1, <1>2 DEF Importing, IsBranch, IsRev
  <2> HIDE DEF old
  <2> QED BY <2>1 DEF first, next, SeveredItem, ItemRecord
<1> HIDE DEF old
<1>6. /\ Ids(g) = Ids(f) \ {a, b}
      /\ g.root = ((f.root \cup {first}) \ {a}) \cup ({next} \ {None})
      /\ g = [item |-> g.item, root |-> g.root] /\ g.item = [j \in Ids(g) |-> g.item[j]]
      /\ \A j \in Ids(g) : g.item[j] = Moved(j)
  BY <1>4, <1>1, <1>3, <1>5 DEF Ids
<1>7. ASSUME NEW j \in Ids(g)
      PROVE  g.item[j] \in ItemRecord(U) /\ RemovedItem(f, b, j, g.item[j])
  <2> DEFINE r == f.item[j]
             p == cut.item[j]
             q == g.item[j]
             tags == f.item[a].tag_ids
             branches == ToSet(f.item[a].branch_ids)
             commits == f.item[a].branch_commit_ids
  <2>1. j \in Ids(f) /\ j # a /\ j # b /\ j # None /\ j \in Ids(cut)
    BY <1>1, <1>3, <1>6
  <2>2. p \in ItemRecord(U) /\ SeveredItem(f, b, j, p)
    BY <1>3, <2>1
  <2>3. r \in ItemRecord(U) /\ IsInjective(r.branch_ids)
    BY <1>1, <2>1, ShapedItem DEF Linked, Sprouting
  <2>4. /\ b # None /\ a \in Ids(f) /\ IsRev(f, a) /\ a # first /\ a # next /\ a # None
        /\ first \in Ids(f) /\ IsRev(f, first) /\ next # first /\ f.item[first].prev_id = a
        /\ f.item[first].first_on_branch_id = b
        /\ next # None => next \in Ids(f) /\ IsRev(f, next) /\ f.item[next].prev_id = a
                          /\ f.item[next].first_on_branch_id = None
    BY <1>1, <1>2 DEF Importing
  <2>5. /\ \A t \in tags : t \in Ids(f) /\ ~IsRev(f, t) /\ f.item[t].source_id = a
        /\ \A t \in branches : t \in Ids(f) /\ ~IsRev(f, t) /\ f.item[t].source_id = a
        /\ \A c \in commits : /\ c \in Ids(f) /\ IsRev(f, c) /\ f.item[c].prev_id = a
                              /\ f.item[c].first_on_branch_id # None
    BY <1>1, <2>4, Surroundings
  <2>6. /\ IsRev(f, j) => r.source_id = None
        /\ ~IsRev(f, j) => r.prev_id = None
        /\ ~IsRev(f, j) /\ r.source_id = a => j \in tags \cup branches
        /\ r.prev_id = a /\ r.first_on_branch_id = None => j = next
        /\ r.prev_id = a /\ r.first_on_branch_id # None => j \in commits
    BY <1>1, <2>1, <2>4, Surroundings DEF next
  <2>7. /\ SamePlaceInTime(r, p) /\ p.tag_ids = r.tag_ids
        /\ p.source_id = r.source_id /\ p.source_lod = r.source_lod
        /\ p.branch_ids = r.branch_ids /\ p.branch_commit_ids = r.branch_commit_ids
        /\ IF j = first THEN p.prev_id = None /\ p.first_on_branch_id = None /\ p.pred_live = FALSE
           ELSE NotCut(r, p)
    BY <2>1, <2>2 DEF SeveredItem, first, Kept, SamePlaceInTime
  <2>8. q = Moved(j)
    BY <1>6
  <2>9. first \in U /\ cut.item[first].lod = f.item[first].lod /\ f.item[first].lod \in Nat
    <3>1. cut.item[first].lod = f.item[first].lod
      BY <1>3, <1>1, <2>4 DEF SeveredItem, Kept, IsBranch, IsRev
    <3> QED BY <1>1, <2>4, <3>1, ShapedItem DEF Shaped, ItemRecord
  <2> HIDE DEF r, p, q, a, tags, branches, commits
  <2>10. CASE j = first
    <3> DEFINE ids == old.branch_ids \o p.branch_ids
               t == p.tag_ids \cup old.tag_ids
               c == p.branch_commit_ids \cup old.branch_commit_ids
    <3>1. /\ j \notin old.tag_ids \cup ToSet(old.branch_ids) /\ j \notin old.branch_commit_ids
          /\ j # old.next_id
      BY <1>5, <2>4, <2>5, <2>10 DEF tags, branches, commits
    <3>2. q = TakesOverNow(p, t, ids, c)
      BY <2>8, <2>10, <3>1 DEF Moved, TakesOverNow, p
    <3>3. ToSet(old.branch_ids) \cap ToSet(p.branch_ids) = {}
      BY <1>1, <2>1, Surroundings, <1>5, <2>5, <2>7 DEF r, branches
    <3>4. p.branch_ids \in Seq(U) /\ p.tag_ids \in SUBSET U /\ p.branch_commit_ids \in SUBSET U
      BY <2>2 DEF ItemRecord
    <3>5. /\ ids \in Seq(U) /\ IsInjective(ids)
          /\ ToSet(ids) = ToSet(old.branch_ids) \cup ToSet(p.branch_ids)
      BY <1>5, <2>3, <2>7, <3>3, <3>4, ConcatFacts
    <3>6. t \in SUBSET U /\ c \in SUBSET U
      BY <1>5, <3>4
    <3> HIDE DEF ids, t, c
    <3>7. /\ q \in ItemRecord(U) /\ SamePlaceInTime(r, q)
          /\ q.first_on_branch_id = None /\ q.prev_id = None
          /\ q.pred_live = FALSE /\ q.source_id = r.source_id /\ q.source_lod = r.source_lod
          /\ q.tag_ids = t /\ q.branch_ids = ids /\ q.branch_commit_ids = c
      BY <2>7, <2>10, <2>2, <3>2, <3>5, <3>6, TakenOver DEF TakesOver, SamePlaceInTime
    <3>8. r.source_id # a
      BY <2>4, <2>6, <2>10
    <3>9. /\ t = r.tag_ids \cup tags /\ c = r.branch_commit_ids \cup (commits \ {first})
          /\ ToSet(ids) = ToSet(r.branch_ids) \cup (branches \ {b})
      BY <1>5, <2>7, <3>5 DEF t, c, tags, commits, branches
    <3> QED
      BY <2>10, <3>5, <3>7, <3>8, <3>9 DEF RemovedItem, q, r, a, first, tags, commits, branches
  <2>11. CASE j # first
    <3> DEFINE source == IF r.source_id = a THEN first ELSE r.source_id
               lod == IF r.source_id = a THEN f.item[first].lod ELSE r.source_lod
               prev == IF j = next THEN None ELSE IF r.prev_id = a THEN first ELSE r.prev_id
    <3>1. MovesTo(U, p, source, lod, prev, q)
      <4>1. CASE j \in old.tag_ids \cup ToSet(old.branch_ids)
        <5>1. j \notin old.branch_commit_ids /\ j # old.next_id
          BY <1>5, <2>1, <2>4, <2>5, <4>1 DEF tags, branches, commits
        <5>2. q = MovedNow(p, first, f.item[first].lod)
          BY <2>8, <2>9, <2>11, <4>1, <5>1 DEF Moved, MovedNow, p
        <5>3. ~IsRev(f, j) /\ r.source_id = a
          BY <1>5, <2>5, <4>1 DEF tags, branches, r
        <5>4. source = first /\ lod = f.item[first].lod /\ prev = p.prev_id
          BY <2>4, <5>3, <2>1, <2>6, <2>7, <2>11 DEF NotCut
        <5> QED BY <2>2, <2>9, <5>2, SourceMoved, <5>4
      <4>2. CASE j \in old.branch_commit_ids
        <5>1. IsRev(f, j) /\ r.prev_id = a /\ r.first_on_branch_id # None
          BY <1>5, <2>5, <4>2 DEF commits, r
        <5>2. j \notin old.tag_ids \cup ToSet(old.branch_ids)
          BY <1>5, <2>5, <5>1 DEF tags, branches
        <5>3. j # old.next_id
          BY <1>5, <2>1, <2>4, <5>1 DEF r
        <5>4. q = [p EXCEPT !.prev_id = first]
          BY <2>8, <2>11, <4>2, <5>2, <5>3 DEF Moved, p
        <5>5. source = p.source_id /\ lod = p.source_lod /\ prev = first
          BY <2>7, <5>1, <2>1, <2>4, <2>6 DEF r
        <5> QED BY <2>2, <2>9, <5>4, PrevMoved, <5>5
      <4>3. CASE j = next
        <5>1. IsRev(f, j) /\ r.first_on_branch_id = None
          BY <2>1, <2>4, <4>3 DEF r
        <5>2. j \notin old.tag_ids \cup ToSet(old.branch_ids) /\ j \notin old.branch_commit_ids
          BY <1>5, <2>5, <5>1 DEF tags, branches, commits, r
        <5>3. MovesTo(U, p, p.source_id, p.source_lod, None, q)
          BY <2>2, <1>5, <2>8, <2>11, <4>3, <5>2, PrevMoved DEF Moved, p
        <5> QED BY <5>3, <2>7, <4>3, <2>4, <2>6, <5>1
      <4>4. CASE /\ j \notin old.tag_ids \cup ToSet(old.branch_ids) /\ j \notin old.branch_commit_ids
                 /\ j # next
        <5>1. q = p
          BY <1>5, <2>8, <2>11, <4>4 DEF Moved, p
        <5>2. r.source_id # a
          BY <1>5, <2>1, <2>4, <2>6, <4>4 DEF tags, branches
        <5>3. source = p.source_id /\ lod = p.source_lod /\ prev = p.prev_id
          BY <2>7, <2>11, <4>4, <5>2, <1>5, <2>6 DEF NotCut, commits
        <5> HIDE DEF source, lod, prev
        <5> QED BY <2>2, <5>1, <5>3 DEF MovesTo, SamePlaceInTime
      <4> QED BY <4>1, <4>2, <4>3, <4>4
    <3> HIDE DEF source, lod, prev
    <3>2. /\ q \in ItemRecord(U) /\ SamePlaceInTime(r, q)
          /\ q.first_on_branch_id = r.first_on_branch_id /\ q.prev_id = prev
          /\ q.pred_live = r.pred_live /\ q.source_id = source /\ q.source_lod = lod
          /\ q.tag_ids = r.tag_ids /\ q.branch_ids = r.branch_ids
          /\ q.branch_commit_ids = r.branch_commit_ids
      BY <2>7, <2>11, <3>1 DEF MovesTo, SamePlaceInTime, NotCut
    <3> QED BY <2>3, <2>11, <3>2 DEF RemovedItem, source, lod, prev, q, r, a, first, next
  <2> QED BY <2>10, <2>11 DEF q
<1> QED BY <1>6, <1>7 DEF g, first, next

LEMMA ImportedRemoved ==
  ASSUME NEW f, NEW U, NEW b, MayRemove11(f, U, b)
  PROVE  Good(ImportedRemove11(f, b), U)
<1>1. SUFFICES ASSUME RepeatsSource(f, b) PROVE Good(ImportedRemove11(f, b), U)
  BY DEF ImportedRemove11, MayRemove11
<1> DEFINE g == ImportedRemove11(f, b)
           a == f.item[b].source_id
           first == f.item[b].next_id
           next == f.item[a].next_id
<1>2. /\ Linked(f, U) /\ NtdbLinked(f) /\ Named(f) /\ Shaped(f, U) /\ None \notin Ids(f)
      /\ b \in Ids(f) /\ f.item[a].live /\ f.item[first].live /\ f.item[first].ntdbr
  BY Surroundings DEF MayRemove11, Good, Linked
<1>3. Importing(f, b, a, first, next)
  BY ImportFacts
<1>4. /\ Ids(g) = Ids(f) \ {a, b}
      /\ g.root = ((f.root \cup {first}) \ {a}) \cup ({next} \ {None})
      /\ g = [item |-> g.item, root |-> g.root] /\ g.item = [j \in Ids(g) |-> g.item[j]]
      /\ \A j \in Ids(g) : g.item[j] \in ItemRecord(U) /\ RemovedItem(f, b, j, g.item[j])
  BY <1>1, RemovedItems
<1> HIDE DEF g
<1>5. ASSUME NEW j \in Ids(g)
      PROVE  /\ j \in Ids(f) /\ j # None /\ j # a /\ j # b
             /\ IsRev(g, j) <=> IsRev(f, j)
             /\ IsBranch(g, j) <=> IsBranch(f, j)
             /\ g.item[j].kind = f.item[j].kind
  <2>1. g.item[j].kind = f.item[j].kind
    BY <1>4 DEF RemovedItem, SamePlaceInTime
  <2> QED BY <1>2, <1>4, <2>1 DEF IsRev, IsBranch
<1>6. ASSUME NEW j \in Ids(g)
      PROVE  /\ g.item[j].next_id = f.item[j].next_id
             /\ g.item[j].lod = f.item[j].lod /\ g.item[j].symbol = f.item[j].symbol
             /\ g.item[j].live = f.item[j].live
             /\ g.item[j].is_rev_1_1 = f.item[j].is_rev_1_1 /\ g.item[j].log = f.item[j].log
             /\ g.item[j].ntdbr = f.item[j].ntdbr
             /\ g.item[j].ntdbr_prev_id = f.item[j].ntdbr_prev_id
             /\ g.item[j].ntdbr_next_id = f.item[j].ntdbr_next_id
  BY <1>4 DEF RemovedItem, SamePlaceInTime
<1>7. ASSUME NEW j \in Ids(g)
      PROVE  /\ g.item[j].first_on_branch_id =
                  IF j = first THEN None ELSE f.item[j].first_on_branch_id
             /\ g.item[j].prev_id =
                  IF j = first \/ j = next THEN None
                  ELSE IF f.item[j].prev_id = a THEN first ELSE f.item[j].prev_id
             /\ g.item[j].pred_live = IF j = first THEN FALSE ELSE f.item[j].pred_live
  BY <1>4 DEF RemovedItem
<1>8. ASSUME NEW j \in Ids(g)
      PROVE  /\ g.item[j].source_id = IF f.item[j].source_id = a THEN first ELSE f.item[j].source_id
             /\ g.item[j].source_lod =
                  IF f.item[j].source_id = a THEN f.item[first].lod ELSE f.item[j].source_lod
             /\ g.item[j].tag_ids =
                  IF j = first THEN f.item[j].tag_ids \cup f.item[a].tag_ids ELSE f.item[j].tag_ids
             /\ ToSet(g.item[j].branch_ids) =
                  IF j = first THEN ToSet(f.item[j].branch_ids) \cup (ToSet(f.item[a].branch_ids) \ {b})
                  ELSE ToSet(f.item[j].branch_ids)
             /\ IsInjective(g.item[j].branch_ids)
             /\ g.item[j].branch_commit_ids =
                  IF j = first
                  THEN f.item[j].branch_commit_ids \cup (f.item[a].branch_commit_ids \ {first})
                  ELSE f.item[j].branch_commit_ids
  BY <1>4 DEF RemovedItem
<1> HIDE DEF a, first, next
<1>9. /\ b # None /\ ~IsRev(f, b) /\ a \in Ids(f) /\ IsRev(f, a) /\ a # None
      /\ first \in Ids(f) /\ IsRev(f, first) /\ first # None /\ first \in Ids(g)
      /\ a # first /\ b # first
  BY <1>2, <1>3, <1>4 DEF Importing
<1>10. /\ f.item[first].first_on_branch_id = b /\ f.item[first].prev_id = a
       /\ f.item[first].ntdbr_prev_id = None
       /\ \A k \in Ids(f) : f.item[k].ntdbr_prev_id # None => k = next
       /\ ~f.item[a].ntdbr /\ f.item[a].ntdbr_prev_id = None /\ f.item[a].ntdbr_next_id = None
       /\ \A t \in Ids(f) : IsNtdbStart(f, t) => t = first
  BY <1>3 DEF Importing
<1>11. /\ next # first /\ next # a /\ next # b
       /\ next # None =>
            /\ next \in Ids(g) /\ next \in Ids(f) /\ IsRev(f, next) /\ f.item[next].prev_id = a
            /\ f.item[next].first_on_branch_id = None /\ f.item[next].ntdbr_prev_id # None
  BY <1>2, <1>3, <1>4, <1>9 DEF Importing
\* What is neighbour to 1.1.
<1>12. ASSUME NEW j \in Ids(f)
       PROVE  /\ f.item[j].next_id # a
              /\ f.item[j].prev_id = a /\ f.item[j].first_on_branch_id = None => j = next
              /\ f.item[j].first_on_branch_id # a
              /\ f.item[j].first_on_branch_id = b => j = first
              /\ f.item[j].next_id = first => j = b
              /\ f.item[j].source_id # b
  <2>1. f.item[a].prev_id = None /\ f.item[b].next_id = first /\ f.item[a].next_id = next
    BY DEF MayRemove11, a, first, next
  <2>2. f.item[j].next_id # a
    <3>1. SUFFICES ASSUME f.item[j].next_id = a PROVE FALSE
      OBVIOUS
    <3>2. IsRev(f, j) => f.item[a].prev_id = j
      BY <1>2, <1>9, <3>1, Surroundings
    <3>3. ~IsRev(f, j) => f.item[a].first_on_branch_id = j
      BY <1>2, <1>9, <3>1, Surroundings
    <3> QED BY <1>2, <2>1, <1>9, Surroundings, <3>2, <3>3
  <2> QED BY <2>2, <1>2, <1>9, <2>1, Surroundings, <1>10
<1>13. Classes(g)
  <2> SUFFICES ASSUME NEW i \in Ids(g)
               PROVE  IF IsRev(g, i) THEN g.item[i].source_id = None
                      ELSE /\ g.item[i].prev_id = None /\ g.item[i].first_on_branch_id = None
                           /\ g.item[i].ntdbr_prev_id = None /\ g.item[i].ntdbr_next_id = None
                           /\ g.item[i].branch_commit_ids = {} /\ ~g.item[i].ntdbr
    BY DEF Classes
  <2>1. CASE IsRev(f, i)
    <3>1. f.item[i].source_id = None
      BY <1>2, <1>5, <2>1 DEF Linked, Classes
    <3> QED BY <1>9, <1>5, <1>8, <2>1, <3>1
  <2>2. CASE ~IsRev(f, i)
    <3>1. /\ f.item[i].prev_id = None /\ f.item[i].first_on_branch_id = None
          /\ f.item[i].ntdbr_prev_id = None /\ f.item[i].ntdbr_next_id = None
          /\ f.item[i].branch_commit_ids = {} /\ ~f.item[i].ntdbr
      BY <1>2, <1>5, <2>2 DEF Linked, Classes
    <3>2. i # first
      BY <1>9, <2>2
    <3>3. g.item[i].prev_id = None /\ g.item[i].first_on_branch_id = None
      BY <1>9, <1>7, <3>1, <3>2
    <3>4. g.item[i].branch_commit_ids = {}
      BY <1>8, <3>1, <3>2
    <3> QED BY <1>5, <1>6, <2>2, <3>1, <3>3, <3>4
  <2> QED BY <2>1, <2>2
<1>14. Sprouting(g)
  <2> SUFFICES ASSUME NEW i \in Ids(g)
               PROVE  /\ IsInjective(g.item[i].branch_ids)
                      /\ \A t \in g.item[i].tag_ids :
                           t \in Ids(g) /\ g.item[t].kind = "tag" /\ g.item[t].source_id = i
                      /\ \A t \in ToSet(g.item[i].branch_ids) :
                           t \in Ids(g) /\ IsBranch(g, t) /\ g.item[t].source_id = i
    BY DEF Sprouting
  <2> DEFINE from == IF i = first THEN {i, a} ELSE {i}
  <2>1. from \subseteq Ids(f)
    BY <1>9, <1>5
  <2>2. ASSUME NEW t \in g.item[i].tag_ids
        PROVE  t \in Ids(g) /\ g.item[t].kind = "tag" /\ g.item[t].source_id = i
    <3>1. PICK k \in from : t \in f.item[k].tag_ids
      BY <1>8, <2>2
    <3>2. t \in Ids(f) /\ f.item[t].kind = "tag" /\ f.item[t].source_id = k
      BY <1>2, <2>1, <3>1 DEF Linked, Sprouting
    <3>3. t \in Ids(g)
      BY <1>4, <3>2, <1>9 DEF IsRev, IsBranch, MayRemove11
    <3>4. g.item[t].source_id = i
      BY <1>5, <1>8, <3>1, <3>2, <3>3
    <3> QED BY <1>5, <3>2, <3>3, <3>4
  <2>3. ASSUME NEW t \in ToSet(g.item[i].branch_ids)
        PROVE  t \in Ids(g) /\ IsBranch(g, t) /\ g.item[t].source_id = i
    <3>1. PICK k \in from : t \in ToSet(f.item[k].branch_ids) /\ (k = a => t # b)
      BY <1>5, <1>8, <2>3
    <3>2. t \in Ids(f) /\ IsBranch(f, t) /\ f.item[t].source_id = k
      BY <1>2, <2>1, <3>1 DEF Linked, Sprouting
    <3>3. t \in Ids(g)
      BY <1>4, <3>2, <1>9, <3>1 DEF IsRev, IsBranch, a
    <3>4. g.item[t].source_id = i
      BY <1>5, <1>8, <3>1, <3>2, <3>3
    <3> QED BY <1>5, <3>2, <3>3, <3>4
  <2> QED BY <1>8, <2>2, <2>3
<1>15. Sprouts(g)
  <2> SUFFICES ASSUME NEW i \in Ids(g), ~IsRev(g, i)
               PROVE  LET source == g.item[i].source_id
                      IN  /\ source \in Ids(g) /\ IsRev(g, source)
                          /\ g.item[i].source_lod = g.item[source].lod
                          /\ i \in IF IsBranch(g, i) THEN ToSet(g.item[source].branch_ids)
                                   ELSE g.item[source].tag_ids
    BY DEF Sprouts
  <2> DEFINE old == f.item[i].source_id
             source == g.item[i].source_id
  <2>1. /\ old \in Ids(f) /\ IsRev(f, old)
        /\ f.item[i].source_lod = f.item[old].lod
        /\ i \in IF IsBranch(f, i) THEN ToSet(f.item[old].branch_ids)
                 ELSE f.item[old].tag_ids
    BY <1>2, <1>5 DEF Linked, Sprouts
  <2>2. source = IF old = a THEN first ELSE old
    BY <1>8
  <2>3. g.item[i].source_lod = IF old = a THEN f.item[first].lod ELSE f.item[i].source_lod
    BY <1>8
  <2>4. i # b /\ (IsBranch(g, i) <=> IsBranch(f, i))
    BY <1>5
  <2> HIDE DEF old, source
  <2>5. source \in Ids(g) /\ IsRev(g, source) /\ IsRev(f, source)
    <3>1. source \in Ids(g)
      BY <1>4, <1>9, <2>1, <2>2
    <3> QED BY <1>9, <1>5, <2>1, <2>2, <3>1
  <2>6. g.item[i].source_lod = g.item[source].lod
    BY <1>6, <2>1, <2>2, <2>3, <2>5
  <2>7. /\ ToSet(f.item[old].branch_ids) \ {b} \subseteq ToSet(g.item[source].branch_ids)
        /\ f.item[old].tag_ids \subseteq g.item[source].tag_ids
    BY <1>8, <2>2, <2>5
  <2> QED BY <2>1, <2>4, <2>5, <2>6, <2>7 DEF source
<1>16. Nexts(g)
  <2> SUFFICES ASSUME NEW i \in Ids(g), g.item[i].next_id # None
               PROVE  IF IsRev(g, i) THEN Follows(g, i, g.item[i].next_id)
                      ELSE Begins(g, i, g.item[i].next_id)
    BY DEF Nexts
  <2> DEFINE n == f.item[i].next_id
  <2>1. g.item[i].next_id = n /\ i \in Ids(f) /\ n # None
    BY <1>5, <1>6
  <2>2. n # a /\ n # first
    BY <1>5, <1>12
  <2>3. n \in Ids(f) /\ IsRev(f, n) /\ n \in Ids(g)
    BY <1>2, <1>4, <1>9, <2>1, <2>2, Surroundings
  <2>4. CASE IsRev(f, i)
    <3>1. f.item[n].prev_id = i /\ f.item[n].first_on_branch_id = None /\ f.item[n].lod = f.item[i].lod
      BY <1>2, <2>1, <2>4, Surroundings
    <3>2. n # next
      BY <1>11, <1>5, <2>1, <3>1
    <3> HIDE DEF n
    <3>3. g.item[n].prev_id = i
      BY <1>5, <1>7, <2>2, <2>3, <3>1, <3>2
    <3>4. g.item[n].first_on_branch_id = None
      BY <1>7, <2>2, <2>3, <3>1
    <3>5. IsRev(g, i) /\ IsRev(g, n) /\ g.item[n].lod = g.item[i].lod
      BY <1>5, <1>6, <2>3, <2>4, <3>1
    <3> QED BY <2>1, <2>3, <3>3, <3>4, <3>5 DEF Follows
  <2>5. CASE ~IsRev(f, i)
    <3>1. Begins(f, i, n)
      BY <1>2, <2>1, <2>5 DEF Linked, Nexts
    <3> HIDE DEF n
    <3>2. IsBranch(f, i) /\ f.item[n].first_on_branch_id = i /\ f.item[n].lod = f.item[i].symbol
      BY <3>1 DEF Begins
    <3>3. IsBranch(g, i) /\ ~IsRev(g, i) /\ IsRev(g, n)
      BY <1>5, <2>3, <2>5, <3>2
    <3>4. g.item[n].first_on_branch_id = i
      BY <1>7, <2>2, <2>3, <3>2
    <3>5. g.item[n].lod = g.item[i].symbol
      BY <1>6, <2>3, <3>2
    <3> QED BY <2>1, <2>3, <3>3, <3>4, <3>5 DEF Begins
  <2> QED BY <2>4, <2>5
<1>17. Prevs(g)
  <2> SUFFICES ASSUME NEW j \in Ids(g), IsRev(g, j)
               PROVE  LET p == g.item[j].prev_id
                          c == g.item[j].first_on_branch_id
                      IN  IF c = None
                          THEN p # None => p \in Ids(g) /\ IsRev(g, p) /\ g.item[p].next_id = j
                          ELSE c \in Ids(g) /\ IsBranch(g, c) /\ g.item[c].next_id = j
                               /\ g.item[c].source_id = p
    BY DEF Prevs
  <2> DEFINE p == f.item[j].prev_id
             c == f.item[j].first_on_branch_id
  <2>1. j \in Ids(f) /\ IsRev(f, j)
    BY <1>5
  <2>2. CASE j = first \/ j = next
    <3>1. f.item[j].first_on_branch_id = None \/ j = first
      BY <1>11, <1>5, <2>2
    <3>2. g.item[j].prev_id = None /\ g.item[j].first_on_branch_id = None
      BY <1>7, <2>2, <3>1
    <3> QED BY <3>2
  <2>3. CASE j # first /\ j # next
    <3>1. /\ g.item[j].prev_id = IF p = a THEN first ELSE p
          /\ g.item[j].first_on_branch_id = c
      BY <1>7, <2>3
    <3>2. CASE c = None
      <4>1. p # a
        BY <1>12, <2>1, <2>3, <3>2
      <4>2. p # None => p \in Ids(f) /\ IsRev(f, p) /\ f.item[p].next_id = j
        BY <1>2, <2>1, <3>2, Surroundings
      <4>3. p # None => p \in Ids(g)
        BY <1>4, <1>9, <4>1, <4>2
      <4> HIDE DEF p, c
      <4> QED BY <1>5, <1>6, <3>1, <3>2, <4>1, <4>2, <4>3
    <3>3. CASE c # None
      <4>1. /\ c \in Ids(f) /\ IsBranch(f, c) /\ ~IsRev(f, c) /\ f.item[c].next_id = j
            /\ f.item[c].source_id = p
        BY <1>2, <2>1, <3>3, Surroundings
      <4>2. c \in Ids(g)
        BY <1>4, <1>9, <1>12, <2>1, <2>3, <4>1
      <4> HIDE DEF p, c
      <4>3. g.item[c].source_id = IF p = a THEN first ELSE p
        BY <1>8, <4>1, <4>2
      <4> QED BY <1>5, <1>6, <3>1, <3>3, <4>1, <4>2, <4>3
    <3> QED BY <3>2, <3>3
  <2> QED BY <2>2, <2>3
<1>18. Commits(g)
  <2> SUFFICES ASSUME NEW i \in Ids(g), IsRev(g, i)
               PROVE  g.item[i].branch_commit_ids =
                        {j \in Ids(g) : /\ IsRev(g, j) /\ g.item[j].first_on_branch_id # None
                                        /\ g.item[j].prev_id = i}
    BY DEF Commits
  <2> DEFINE C(k) == {j \in Ids(f) : /\ IsRev(f, j) /\ f.item[j].first_on_branch_id # None
                                     /\ f.item[j].prev_id = k}
  <2>1. \A k \in Ids(f) : IsRev(f, k) => f.item[k].branch_commit_ids = C(k)
    BY <1>2 DEF Linked, Commits
  <2>2. g.item[i].branch_commit_ids = IF i = first THEN C(i) \cup (C(a) \ {first}) ELSE C(i)
    BY <1>9, <1>5, <1>8, <2>1
  <2>3. ASSUME NEW j \in Ids(g)
        PROVE  (IsRev(g, j) /\ g.item[j].first_on_branch_id # None /\ g.item[j].prev_id = i)
                 <=> j \in IF i = first THEN C(i) \cup (C(a) \ {first}) ELSE C(i)
    <3>1. j \in Ids(f) /\ (IsRev(g, j) <=> IsRev(f, j)) /\ i # None /\ i # a
      BY <1>5
    <3>2. CASE j = first
      <4>1. g.item[j].first_on_branch_id = None
        BY <1>7, <3>2
      <4> QED BY <1>9, <3>1, <3>2, <4>1, <1>10
    <3>3. CASE j = next
      <4>1. f.item[j].first_on_branch_id = None /\ g.item[j].first_on_branch_id = None
        BY <1>9, <1>11, <1>7, <3>1, <3>3, <1>5
      <4> QED BY <4>1
    <3>4. CASE j # first /\ j # next
      <4>1. /\ g.item[j].first_on_branch_id = f.item[j].first_on_branch_id
            /\ g.item[j].prev_id = IF f.item[j].prev_id = a THEN first ELSE f.item[j].prev_id
        BY <1>7, <3>4
      <4> QED BY <1>9, <3>1, <3>4, <4>1
    <3> QED BY <3>2, <3>3, <3>4
  <2>4. \A j \in (IF i = first THEN C(i) \cup (C(a) \ {first}) ELSE C(i)) : j \in Ids(g)
    BY <1>2, <1>9, Surroundings, <1>4 DEF MayRemove11, a
  <2> HIDE DEF C
  <2> QED BY <2>2, <2>3, <2>4
<1>19. NtdbrPairs(g)
  <2> SUFFICES ASSUME NEW i \in Ids(g)
               PROVE  /\ g.item[i].ntdbr_next_id # None =>
                           /\ g.item[i].ntdbr /\ g.item[i].ntdbr_next_id \in Ids(g)
                           /\ g.item[g.item[i].ntdbr_next_id].ntdbr_prev_id = i
                      /\ g.item[i].ntdbr_prev_id # None =>
                           /\ g.item[i].ntdbr_prev_id \in Ids(g)
                           /\ g.item[g.item[i].ntdbr_prev_id].ntdbr_next_id = i
    BY DEF NtdbrPairs
  <2> DEFINE n == f.item[i].ntdbr_next_id
             p == f.item[i].ntdbr_prev_id
  <2>1. g.item[i].ntdbr_next_id = n /\ g.item[i].ntdbr_prev_id = p /\ i \in Ids(f)
        /\ g.item[i].ntdbr = f.item[i].ntdbr /\ i # None
    BY <1>5, <1>6
  <2>2. /\ n # None => /\ f.item[i].ntdbr /\ n \in Ids(f) /\ f.item[n].ntdbr_prev_id = i
        /\ p # None => p \in Ids(f) /\ f.item[p].ntdbr_next_id = i
    BY <1>2, <2>1 DEF Linked, NtdbrPairs
  <2> HIDE DEF n, p
  <2>3. /\ n # None => n \in Ids(g)
        /\ p # None => p \in Ids(g)
    BY <1>4, <2>1, <2>2, <1>2, <1>9, <1>10 DEF Linked, Classes
  <2> QED BY <1>6, <2>1, <2>2, <2>3
<1>20. PredLive(g)
  <2> SUFFICES ASSUME NEW i \in Ids(g), IsRev(g, i)
               PROVE  LET p == EffectivePrev(g.item[i])
                      IN  g.item[i].pred_live = (p # None /\ g.item[p].live)
    BY DEF PredLive
  <2>1. i \in Ids(f) /\ IsRev(f, i) /\ i # None /\ i # a
    BY <1>5
  <2>2. CASE i = first
    <3>1. EffectivePrev(g.item[i]) = None
      BY <1>10, <1>6, <1>7, <2>2 DEF EffectivePrev
    <3>2. g.item[i].pred_live = FALSE
      BY <1>7, <2>2
    <3> QED BY <3>1, <3>2
  <2>3. CASE i # first
    <3> DEFINE p == EffectivePrev(f.item[i])
               q == EffectivePrev(g.item[i])
    <3>1. f.item[i].pred_live = (p # None /\ f.item[p].live)
      BY <1>2, <2>1 DEF Linked, PredLive
    <3>2. g.item[i].pred_live = f.item[i].pred_live
      BY <1>7, <2>3
    <3>3. p # None => p \in Ids(f)
      BY <1>2, <2>1, Surroundings DEF Linked, NtdbrPairs, EffectivePrev
    <3>4. q = IF p = a THEN first ELSE p
      <4>1. CASE i = next
        <5>1. f.item[i].ntdbr_prev_id # None
          BY <1>11, <2>1, <4>1
        <5>2. p = f.item[i].ntdbr_prev_id /\ q = p
          BY <1>6, <5>1 DEF EffectivePrev
        <5> QED BY <1>10, <2>1, <5>2, <1>2, <5>1 DEF Linked, NtdbrPairs
      <4>2. CASE i # next
        <5>1. f.item[i].ntdbr_prev_id = None /\ g.item[i].ntdbr_prev_id = None
          BY <1>10, <1>6, <2>1, <4>2
        <5>2. p = f.item[i].prev_id /\ q = g.item[i].prev_id
          BY <5>1 DEF EffectivePrev
        <5> HIDE DEF p, q
        <5> QED BY <1>7, <2>3, <4>2, <5>2
      <4> QED BY <4>1, <4>2
    <3> HIDE DEF p, q
    <3>5. CASE p = a
      <4>1. q = first /\ g.item[first].live = f.item[first].live
        BY <1>9, <1>6, <3>4, <3>5
      <4> QED BY <3>2, <1>2, <1>9, <3>1, <3>5, <4>1 DEF q
    <3>6. CASE p # a
      <4>1. p # None => p \in Ids(g)
        <5>1. p # b
          <6>1. SUFFICES ASSUME p = b PROVE FALSE
            OBVIOUS
          <6>2. f.item[i].prev_id # b
            BY <1>2, <1>9, <2>1, Surroundings
          <6>3. f.item[i].ntdbr_prev_id = b /\ b # None
            BY <1>9, <6>1, <6>2 DEF p, EffectivePrev
          <6> QED BY <2>1, <1>2, <6>3, <1>9 DEF Linked, NtdbrPairs, Classes
        <5> QED BY <1>4, <3>3, <3>6, <5>1
      <4>2. p # None => g.item[p].live = f.item[p].live
        BY <1>6, <4>1
      <4> QED BY <3>4, <3>6, <3>1, <3>2, <4>2 DEF q
    <3> QED BY <3>5, <3>6
  <2> QED BY <2>2, <2>3
<1>21. Roots(g)
  <2>1. f.root = {j \in Ids(f) : IsRev(f, j) /\ f.item[j].prev_id = None}
    BY <1>2 DEF Linked, Roots
  <2>2. ASSUME NEW j \in Ids(g)
        PROVE  (IsRev(g, j) /\ g.item[j].prev_id = None)
                 <=> (j \in f.root \/ j = first \/ j = next)
    <3>1. j \in Ids(f) /\ (IsRev(g, j) <=> IsRev(f, j)) /\ j # None
      BY <1>5
    <3>2. g.item[j].prev_id = IF j = first \/ j = next THEN None
                              ELSE IF f.item[j].prev_id = a THEN first ELSE f.item[j].prev_id
      BY <1>7
    <3> QED BY <1>9, <2>1, <3>1, <3>2, <1>11
  <2>3. ASSUME NEW j \in g.root PROVE j \in Ids(g) /\ (j \in f.root \/ j = first \/ j = next)
    BY <1>4, <2>1, <1>9, <1>11, <2>3
  <2>4. ASSUME NEW j \in Ids(g), j \in f.root \/ j = first \/ j = next PROVE j \in g.root
    BY <1>4, <1>9, <1>5, <2>4
  <2> QED BY <2>2, <2>3, <2>4 DEF Roots
<1>22. PrevsEnd(g)
  <2> SUFFICES ASSUME NEW S \in SUBSET {i \in Ids(g) : IsRev(g, i)}, S # {},
                      \A i \in S : g.item[i].prev_id \in S
               PROVE  FALSE
    BY DEF PrevsEnd
  <2>1. \A i \in S : i \in Ids(g) /\ i \in Ids(f) /\ IsRev(f, i) /\ i # None
    BY <1>5
  <2>2. PICK i \in S : f.item[i].prev_id \notin S
    BY <1>2, <2>1 DEF Linked, PrevsEnd
  <2>3. first \notin S /\ next \notin S
    BY <1>7, <2>1
  <2> QED BY <1>7, <2>1, <2>2, <2>3
<1>23. Shaped(g, U)
  BY <1>2, <1>4, <1>9, <1>11 DEF Shaped
<1>24. Linked(g, U)
  BY <1>13, <1>14, <1>15, <1>16, <1>17, <1>18, <1>19, <1>20, <1>21, <1>22, <1>23 DEF Linked
<1>25. NtdbrsFirst(g)
  <2> SUFFICES ASSUME NEW i \in Ids(g)
               PROVE  /\ g.item[i].ntdbr => g.item[i].lod # Trunk
                      /\ IsRev(g, i) /\ g.item[i].next_id # None
                           /\ g.item[g.item[i].next_id].ntdbr =>
                           g.item[i].ntdbr /\ g.item[i].ntdbr_next_id = None
    BY DEF NtdbrsFirst
  <2>1. /\ f.item[i].ntdbr => f.item[i].lod # Trunk
        /\ IsRev(f, i) /\ f.item[i].next_id # None /\ f.item[f.item[i].next_id].ntdbr =>
             f.item[i].ntdbr /\ f.item[i].ntdbr_next_id = None
    BY <1>2, <1>5 DEF NtdbLinked, NtdbrsFirst
  <2>2. g.item[i].next_id # None => g.item[i].next_id \in Ids(g)
    BY <1>24, Surroundings
  <2>3. g.item[i].next_id = f.item[i].next_id
    BY <1>6
  <2> DEFINE n == f.item[i].next_id
  <2>4. n # None => g.item[n].ntdbr = f.item[n].ntdbr
    BY <1>6, <2>2, <2>3
  <2> QED BY <1>5, <1>6, <2>1, <2>3, <2>4
<1>26. ASSUME NEW t \in Ids(g), IsNtdbStart(g, t) PROVE t = first
  <2> SUFFICES ASSUME t # first PROVE FALSE
    OBVIOUS
  <2>1. t \in Ids(f) /\ f.item[t].ntdbr
    BY <1>26, <1>5, <1>6 DEF IsNtdbStart
  <2>2. t # next
    BY <1>2, <1>11, <2>1 DEF NtdbLinked, Rev12, NtdbrsFirst
  <2>3. f.item[t].prev_id # None /\ f.item[t].first_on_branch_id = None
    BY <2>1, <1>10 DEF IsNtdbStart
  <2>4. g.item[t].first_on_branch_id = None
    BY <1>7, <2>3
  <2>5. g.item[t].prev_id # None
    BY <1>9, <1>7, <2>2, <2>3
  <2> QED BY <1>26, <2>4, <2>5 DEF IsNtdbStart
<1>27. NtdbStarts(g)
  <2>1. g.item[first].prev_id = None
    BY <1>9, <1>7
  <2> QED BY <1>26, <2>1 DEF NtdbStarts
<1>28. Rev12(g)
  <2> SUFFICES ASSUME NEW k \in Ids(g), g.item[k].ntdbr_prev_id # None
               PROVE  /\ g.item[k].first_on_branch_id = None /\ g.item[k].lod = Trunk
                      /\ ~g.item[k].is_rev_1_1 /\ g.item[k].log # "added on branch"
                      /\ \A t \in Ids(g) : IsNtdbStart(g, t) => g.item[k].prev_id = g.item[t].prev_id
    BY DEF Rev12
  <2>1. k \in Ids(f) /\ f.item[k].ntdbr_prev_id # None /\ k = next /\ k # first
    BY <1>10, <1>11, <1>5, <1>6
  <2>2. /\ f.item[k].first_on_branch_id = None /\ f.item[k].lod = Trunk
        /\ ~f.item[k].is_rev_1_1 /\ f.item[k].log # "added on branch"
    BY <1>2, <2>1 DEF NtdbLinked, Rev12
  <2>3. g.item[k].prev_id = None /\ g.item[first].prev_id = None
    BY <1>9, <1>7, <2>1
  <2>4. g.item[k].first_on_branch_id = None
    BY <1>7, <2>1, <2>2
  <2>5. g.item[k].lod = Trunk /\ ~g.item[k].is_rev_1_1 /\ g.item[k].log # "added on branch"
    BY <1>6, <2>2
  <2> QED BY <1>26, <2>3, <2>4, <2>5
<1>29. Named(g)
  BY <1>2, <1>5, <1>6 DEF Named
<1> QED BY <1>24, <1>25, <1>27, <1>28, <1>29 DEF g, NtdbLinked, Good

\* What CVS says of the branch that is, or once was, the default branch.
LEMMA ParsedBranch ==
  ASSUME NEW p \in Parsed, NEW f, f = ParsedFile(p),
         NEW b \in {p.default_branch, p.vendor_branch}, b \in Ids(f)
  PROVE  /\ IsBranch(f, b) /\ f.item[f.item[b].source_id].prev_id = None
         /\ f.item[f.item[b].source_id].lod = Trunk
         /\ p.file_imported => f.item[f.item[b].source_id].live
<1>1. /\ ParsedLinks(f) /\ Ids(f) = DOMAIN p.item /\ f.item = p.item /\ Roots(f)
  BY ParsedFacts
<1>2. /\ IsBranch(f, b) /\ f.item[b].source_id \in f.root
      /\ p.file_imported => f.item[f.item[b].source_id].live
  BY <1>1, ParsedAssumption DEF IsParsed, ParsedFile, RootIds
<1> QED BY <1>2, <1>1 DEF ParsedLinks, Roots

LEMMA ParsedAdjusts ==
  ASSUME NEW p \in Parsed, NEW f, f = ParsedFile(p),
         NEW b \in {p.default_branch, p.vendor_branch}, b \in Ids(f),
         NEW H, H \subseteq Revisions(f, b), H # {},
         \A i \in Revisions(f, b) : f.item[i].next_id \in H => i \in H
  PROVE  MayAdjustNtdbrs(f, DOMAIN p.item, b, H)
<1>1. Linked(f, DOMAIN p.item) /\ Fresh(f)
  BY ParsedLinked DEF Fresh
<1>2. Named(f) /\ ParsedLinks(f)
  BY ParsedFacts
<1>3. NtdbLinked(f)
  BY <1>1, Surroundings DEF Fresh, NtdbLinked, NtdbrsFirst, NtdbStarts, Rev12, IsNtdbStart
<1>4. \A k \in Ids(f) : IsRev(f, k) /\ f.item[k].prev_id # None /\ f.item[k].first_on_branch_id = None =>
        ~f.item[k].is_rev_1_1 /\ f.item[k].log # "added on branch"
  BY <1>2 DEF ParsedLinks
<1> QED BY <1>1, <1>2, <1>3, ParsedBranch, <1>4 DEF MayAdjustNtdbrs, Good

\* Without an NTDB the file stays as it is.
LEMMA ParsedGood ==
  ASSUME NEW p \in Parsed, NEW f, f = ParsedFile(p)
  PROVE  Good(f, DOMAIN p.item)
<1>1. Linked(f, DOMAIN p.item) /\ Fresh(f)
  BY ParsedLinked DEF Fresh
<1>2. NtdbLinked(f)
  BY <1>1, Surroundings DEF Fresh, NtdbLinked, NtdbrsFirst, NtdbStarts, Rev12, IsNtdbStart
<1> QED BY <1>1, ParsedFacts, <1>2 DEF Good

\* The two ways to process an NTDB.
LEMMA NtdbProcessed ==
  ASSUME NEW p \in Parsed, NEW f, f = ParsedFile(p),
         NEW b \in {p.default_branch, p.vendor_branch}, b \in Ids(f),
         NEW H, H \subseteq Revisions(f, b), H # {},
         \A i \in Revisions(f, b) : f.item[i].next_id \in H => i \in H
  PROVE  /\ Good(AdjustNtdbrs(f, b, H), DOMAIN p.item)
         /\ p.file_imported => Good(ImportedRemove11(AdjustNtdbrs(f, b, H), b), DOMAIN p.item)
<1> DEFINE g == AdjustNtdbrs(f, b, H)
<1>1. /\ Good(g, DOMAIN p.item) /\ b \in Ids(g) /\ IsBranch(g, b)
      /\ StartsWithNtdbr(g, b) /\ FirstRev(g, b) = g.item[b].next_id
      /\ g.item[b].source_id = f.item[b].source_id
      /\ g.item[g.item[b].source_id].prev_id = None
      /\ g.item[g.item[b].source_id].live = f.item[f.item[b].source_id].live
  <2>1. MayAdjustNtdbrs(f, DOMAIN p.item, b, H)
    BY ParsedAdjusts
  <2> QED BY <2>1, NtdbrsAdjusted
<1> HIDE DEF g
<1>2. ASSUME p.file_imported PROVE Good(ImportedRemove11(g, b), DOMAIN p.item)
  <2>1. CASE RepeatsSource(g, b)
    BY <1>2, ParsedBranch, <1>1, <2>1, ImportedRemoved DEF MayRemove11, StartsWithNtdbr,
       RepeatsSource
  <2>2. CASE ~RepeatsSource(g, b)
    BY <1>1, <2>2 DEF ImportedRemove11
  <2> QED BY <2>1, <2>2
<1> QED BY <1>1, <1>2 DEF g

LEMMA LiveNtdb ==
  ASSUME NEW p \in Parsed, NEW f, f = ParsedFile(p), p.default_branch \in Ids(f)
  PROVE  Good(LiveNtdbProcessed(f, p.default_branch, p.file_imported), DOMAIN p.item)
BY ParsedGood, NtdbProcessed DEF LiveNtdbProcessed

\* The revisions that were made before 1.2 are the first ones.
LEMMA HistoricalPrefix ==
  ASSUME NEW f, NEW U, Linked(f, U), NEW b \in Ids(f), IsBranch(f, b)
  PROVE  /\ HistoricalNtdbrs(f, b) \subseteq Revisions(f, b)
         /\ \A i \in Revisions(f, b) :
              f.item[i].next_id \in HistoricalNtdbrs(f, b) => i \in HistoricalNtdbrs(f, b)
<1> DEFINE H == HistoricalNtdbrs(f, b)
<1>1. H \subseteq Revisions(f, b)
  BY DEF HistoricalNtdbrs
<1>2. ASSUME NEW i \in Revisions(f, b), f.item[i].next_id \in H PROVE i \in H
  <2>1. f.item[i].next_id # None
    BY <1>1, <1>2 DEF Revisions
  <2> QED
    BY <1>2, <2>1, LodRevisions, LinkedWalkable, LinkedStarts, RevisionsOf DEF HistoricalNtdbrs,
       Lods
<1> QED BY <1>1, <1>2

LEMMA HistoricalNtdb ==
  ASSUME NEW p \in Parsed, NEW f, f = ParsedFile(p), p.vendor_branch # None, p.file_imported
  PROVE  Good(HistoricalNtdbProcessed(f, p.vendor_branch), DOMAIN p.item)
BY ParsedAssumption, ParsedFacts, ParsedLinked, ParsedBranch, HistoricalPrefix, ParsedGood,
   NtdbProcessed DEF IsParsed, HistoricalNtdbProcessed

-----------------------------------------------------------------------------
(* The plan of CollateSymbolsPass, and the file that it is carried out on. *)

\* trunk_only excludes every symbol.
LEMMA ExcludesAll ==
  ASSUME NEW f, NEW U, Good(f, U)
  PROVE  Excluding(f, U, Lods(f), Symbols, FALSE)
BY NamesAssumption DEF Excluding, Good, Named, Orphanless, Visited

\* A plan without objections leaves no symbol without its source.
LEMMA PlanExcludes ==
  ASSUME NEW f, NEW U, Good(f, U), NEW d \in [Symbols -> {"branch", "tag", "exclude"}],
         IsConsistent(f, d)
  PROVE  /\ Excluding(f, U, Lods(f), ExcludedOf(d), FALSE)
         /\ TagsEmpty(f, {x \in Symbols : d[x] = "tag"})
<1> DEFINE E == ExcludedOf(d)
<1>1. Linked(f, U) /\ NtdbLinked(f) /\ Named(f) /\ None \notin Ids(f)
  BY Surroundings DEF Good
<1>2. Trunk \notin Symbols /\ \A x : x \in E <=> x \in Symbols /\ d[x] = "exclude"
  BY NamesAssumption DEF ExcludedOf
<1>3. \A s \in Lods(f) : LodAt(f, s) # Trunk =>
        /\ d[LodAt(f, s)] = "exclude" => Blockers(f, s) \subseteq E
        /\ d[LodAt(f, s)] = "tag" => Revisions(f, s) = {}
  BY DEF IsConsistent
<1> HIDE DEF E
<1>4. ASSUME NEW j \in Ids(f), ~IsRev(f, j), ~f.item[f.item[j].source_id].ntdbr,
             f.item[f.item[j].source_id].lod \in E
      PROVE  f.item[j].symbol \in E
  <2> DEFINE i == f.item[j].source_id
  <2>1. /\ i \in Ids(f) /\ IsRev(f, i)
        /\ j \in IF IsBranch(f, j) THEN ToSet(f.item[i].branch_ids) ELSE f.item[i].tag_ids
    BY <1>1, <1>4, Surroundings
  <2>2. PICK s \in Lods(f) : i \in Revisions(f, s)
    BY <1>1, <2>1, RevisionLods
  <2>3. f.item[j].symbol \in Blockers(f, s)
    BY <1>4, <2>1, <1>1, <2>2, LodNtdbrs DEF Blockers, SproutsFrom, TagsOf, BranchesOf
  <2> QED BY <1>2, <1>3, <1>4, <1>1, <2>2, LodRevisions, <2>3
<1>5. ASSUME NEW i \in Ids(f), IsBranch(f, i), f.item[i].symbol \in Symbols,
             d[f.item[i].symbol] = "tag", f.item[i].next_id # None
      PROVE  FALSE
  <2>1. ~IsRev(f, i) /\ i \in Lods(f)
    BY <1>5 DEF IsBranch, IsRev, Lods
  <2> QED BY <1>1, <1>5, <2>1, <1>2, <1>3, LodRevisions, RevisionsOf DEF LodAt, FirstRev
<1> QED BY <1>2, <1>4, <1>5 DEF TagsEmpty, E, Excluding, Orphanless, Visited

\* The end of either loop.
LEMMA GraftedIfExcluded ==
  ASSUME NEW f, NEW U, NEW P, NEW E, NEW ntdbr, Excluding(f, U, P, E, ntdbr)
  PROVE  /\ Good(GraftIfExcluded(f, ntdbr), U)
         /\ \A T : TagsEmpty(f, T) => TagsEmpty(GraftIfExcluded(f, ntdbr), T)
BY Grafted DEF Excluding, GraftIfExcluded, MayGraft

-----------------------------------------------------------------------------
(***************************************************************************)
(* The content of the revisions.                                           *)
(***************************************************************************)
\* A function that goes on from item to item until it may stop is defined
\* whether or not it ever stops.
GoesOn(h, D, step, Stop, value) ==
  h = [i \in D |-> IF i \in Stop THEN value[i] ELSE h[step[i]]]

LEMMA ChainFunction ==
  ASSUME NEW D, NEW step \in [D -> D], NEW Stop \in SUBSET D, NEW value
  PROVE  \E h : GoesOn(h, D, step, Stop, value)
<1> DEFINE Closed(S) == \A j \in S \ Stop : step[j] \in S
           Reach(i) == {z \in D : \A S \in SUBSET D : i \in S /\ Closed(S) => z \in S}
           OneOf(S) == CHOOSE z \in S : TRUE
           h == [i \in D |-> value[OneOf(Reach(i) \cap Stop)]]
<1>1. ASSUME NEW i \in Stop PROVE Reach(i) \cap Stop = {i}
  OBVIOUS
<1>2. ASSUME NEW i \in D \ Stop PROVE Reach(i) \cap Stop = Reach(step[i]) \cap Stop
  <2>1. ASSUME NEW z \in Reach(i) \cap Stop PROVE z \in Reach(step[i])
    <3> SUFFICES ASSUME NEW S \in SUBSET D, step[i] \in S, Closed(S) PROVE z \in S
      OBVIOUS
    <3>1. z \in S \cup {i}
      BY <2>1
    <3> QED BY <2>1, <3>1
  <2>2. ASSUME NEW z \in Reach(step[i]) PROVE z \in Reach(i)
    BY <2>2
  <2> QED BY <2>1, <2>2
<1>3. \A i \in D : h[i] = IF i \in Stop THEN value[i] ELSE h[step[i]]
  <2> SUFFICES ASSUME NEW i \in D PROVE h[i] = IF i \in Stop THEN value[i] ELSE h[step[i]]
    OBVIOUS
  <2>1. CASE i \in Stop
    BY <1>1, <2>1
  <2>2. CASE i \notin Stop
    <3> HIDE DEF Reach, OneOf
    <3> QED BY <2>2, <1>2
  <2> QED BY <2>1, <2>2
<1>4. h = [i \in D |-> h[i]]
  OBVIOUS
<1> HIDE DEF h
<1> QED BY <1>3, <1>4 DEF GoesOn

\* The contents of the revisions of a parsed file.
Texts(p) ==
  LET r == p.item
      text[j \in DOMAIN r] == IF ~r[j].live THEN None
                              ELSE IF r[j].deltatext_exists \/ r[j].prev_id = None THEN j
                              ELSE text[r[j].prev_id]
  IN  text

LEMMA TextsOf ==
  ASSUME NEW p \in Parsed, NEW j \in DOMAIN p.item
  PROVE  LET r == p.item[j]
         IN  Texts(p)[j] = IF ~r.live THEN None
                           ELSE IF r.deltatext_exists \/ r.prev_id = None THEN j
                           ELSE Texts(p)[r.prev_id]
<1> DEFINE D == DOMAIN p.item
           Stop == {i \in D : ~p.item[i].live \/ p.item[i].deltatext_exists \/ p.item[i].prev_id = None}
           step == [i \in D |-> IF i \in Stop THEN i ELSE p.item[i].prev_id]
           value == [i \in D |-> IF ~p.item[i].live THEN None ELSE i]
           Rec(h) == [i \in D |-> IF ~p.item[i].live THEN None
                                  ELSE IF p.item[i].deltatext_exists \/ p.item[i].prev_id = None THEN i
                                  ELSE h[p.item[i].prev_id]]
<1>1. \A i \in D \ Stop : p.item[i].prev_id \in D
  <2>1. Linked(ParsedFile(p), D)
    BY ParsedLinked
  <2> QED BY <2>1, Surroundings DEF ParsedFile, Ids
<1>2. step \in [D -> D] /\ Stop \in SUBSET D
  BY <1>1
<1>3. PICK h : h = [i \in D |-> IF i \in Stop THEN value[i] ELSE h[step[i]]]
  <2> HIDE DEF D, step, Stop, value
  <2>1. \E h : GoesOn(h, D, step, Stop, value)
    BY <1>2, ChainFunction
  <2> QED BY <2>1 DEF GoesOn
<1>4. h = Rec(h)
  BY <1>3
<1> DEFINE T == CHOOSE t : t = Rec(t)
<1> HIDE DEF T
<1> QED BY <1>4 DEF Texts

(***************************************************************************)
(* What a checkout yields, as a fact about every end of a line of          *)
(* development rather than about the one that Checkout chooses: text are   *)
(* the contents of the revisions, c is the content that is expected.       *)
(***************************************************************************)
RevsOn(f, x) == {i \in Ids(f) : IsRev(f, i) /\ f.item[i].lod = x}
SymbolsNamed(f, x) == {i \in Ids(f) : ~IsRev(f, i) /\ f.item[i].symbol = x}

Yields(f, text, x, c) ==
  IF RevsOn(f, x) # {} THEN \A i \in RevsOn(f, x) : f.item[i].next_id = None => text[i] = c
  ELSE IF SymbolsNamed(f, x) # {}
       THEN \A i \in SymbolsNamed(f, x) : text[RevisionSource(f, i)] = c
       ELSE c = None

NtdbEnds(f) ==
  {i \in Ids(f) : /\ IsRev(f, i) /\ f.item[i].ntdbr
                  /\ f.item[i].next_id = None /\ f.item[i].ntdbr_next_id = None}

TrunkYields(f, text, c) ==
  IF NtdbEnds(f) # {} THEN \A i \in NtdbEnds(f) : text[i] = c ELSE Yields(f, text, Trunk, c)

\* Checkout, with the contents of the revisions as a parameter.
Found(f, text, x) ==
  IF RevsOn(f, x) # {} THEN text[CHOOSE i \in RevsOn(f, x) : f.item[i].next_id = None]
  ELSE IF SymbolsNamed(f, x) # {}
       THEN text[RevisionSource(f, CHOOSE i \in SymbolsNamed(f, x) : TRUE)]
       ELSE None

\* After every revision its LOD comes to an end.
LEMMA EndExists ==
  ASSUME NEW f, Walkable(f), Nexts(f), NEW i \in Ids(f), IsRev(f, i)
  PROVE  \E e \in RevsOn(f, f.item[i].lod) : e \in Revisions(f, i) /\ f.item[e].next_id = None
<1> DEFINE S == {j \in Revisions(f, i) : f.item[j].lod = f.item[i].lod}
<1>1. MayStart(f, i) /\ FirstRev(f, i) = i /\ i # None
  BY DEF MayStart, FirstRev, Walkable
<1>2. /\ Revisions(f, i) \subseteq {j \in Ids(f) : IsRev(f, j)} /\ i \in Revisions(f, i)
      /\ LastRev(f, i) \in Revisions(f, i) /\ f.item[LastRev(f, i)].next_id = None
  BY <1>1, RevisionsOf
<1>3. ASSUME NEW j \in S, f.item[j].next_id \in Revisions(f, i) PROVE f.item[j].next_id \in S
  BY <1>2, <1>3 DEF Walkable, Nexts, Follows
<1>4. Revisions(f, i) \subseteq S
  <2> HIDE DEF S
  <2>1. FirstRev(f, i) \in S
    BY <1>1, <1>2 DEF S
  <2> QED BY <1>1, <1>3, <2>1, RevisionsLeast
<1> QED BY <1>2, <1>4 DEF RevsOn

\* In a parsed file an LOD starts once, and so it ends once.
LEMMA ParsedEnds ==
  ASSUME NEW p \in Parsed, NEW f, f = ParsedFile(p), NEW x,
         NEW i \in RevsOn(f, x), f.item[i].next_id = None,
         NEW j \in RevsOn(f, x), f.item[j].next_id = None
  PROVE  i = j
<1>1. Linked(f, DOMAIN p.item) /\ Named(f)
  BY ParsedLinked, ParsedFacts
<1>2. i \in Ids(f) /\ IsRev(f, i) /\ f.item[i].lod = x /\ j \in Ids(f) /\ IsRev(f, j) /\ f.item[j].lod = x
  BY DEF RevsOn
<1>3. PICK s \in Lods(f) : i \in Revisions(f, s)
  BY <1>1, <1>2, RevisionLods
<1>4. PICK t \in Lods(f) : j \in Revisions(f, t)
  BY <1>1, <1>2, RevisionLods
<1>5. /\ s \in Ids(f) /\ Walkable(f) /\ MayStart(f, s) /\ LodAt(f, s) = x
      /\ IsRev(f, s) => f.item[s].prev_id = None
  BY <1>1, <1>2, <1>3, LodRevisions
<1>6. /\ t \in Ids(f) /\ MayStart(f, t) /\ LodAt(f, t) = x
      /\ IsRev(f, t) => f.item[t].prev_id = None
  BY <1>1, <1>2, <1>4, LodRevisions
<1>7. s = t
  <2>1. \A k \in Ids(f) : IsRev(f, k) /\ f.item[k].prev_id = None => k \in f.root
    BY <1>1 DEF Linked, Roots
  <2>2. \A k, l \in f.root : k = l /\ f.item[k].lod = Trunk
    BY ParsedFacts DEF ParsedLinks
  <2>3. IsRev(f, s) <=> IsRev(f, t)
    BY <1>5, <1>6, <2>1, <2>2, <1>1, NamesAssumption DEF LodAt, Named
  <2>4. CASE IsRev(f, s)
    BY <1>5, <1>6, <2>1, <2>2, <2>3, <2>4
  <2>5. CASE ~IsRev(f, s)
    BY <1>1, <1>5, <1>6, <2>3, <2>5 DEF LodAt, Named
  <2> QED BY <2>4, <2>5
<1> QED BY <1>3, <1>4, <1>5, <1>7, RevisionsOf

LEMMA ParsedYields ==
  ASSUME NEW p \in Parsed, NEW f, f = ParsedFile(p), NEW text, NEW x
  PROVE  Yields(f, text, x, Found(f, text, x))
BY ParsedLinked, ParsedFacts, ParsedEnds DEF Yields, Found, SymbolsNamed, Named

\* What decides about the content of the lines of development...
SameLods(f, g) ==
  /\ Ids(g) = Ids(f)
  /\ \A j \in Ids(f) :
       /\ IsRev(g, j) <=> IsRev(f, j)
       /\ g.item[j].lod = f.item[j].lod /\ g.item[j].symbol = f.item[j].symbol
       /\ g.item[j].next_id = f.item[j].next_id
       /\ RevisionSource(g, j) = RevisionSource(f, j)

\* ... and of trunk.
SameNtdbrs(f, g) ==
  \A j \in Ids(f) :
    g.item[j].ntdbr = f.item[j].ntdbr /\ g.item[j].ntdbr_next_id = f.item[j].ntdbr_next_id

LEMMA SameYields ==
  ASSUME NEW f, NEW g, SameLods(f, g), NEW text
  PROVE  /\ \A x : RevsOn(g, x) = RevsOn(f, x) /\ SymbolsNamed(g, x) = SymbolsNamed(f, x)
         /\ \A x, c : Yields(f, text, x, c) => Yields(g, text, x, c)
         /\ SameNtdbrs(f, g) =>
              \A c : TrunkYields(f, text, c) => TrunkYields(g, text, c)
BY DEF SameLods, RevsOn, SymbolsNamed, Yields, NtdbEnds, SameNtdbrs, TrunkYields

\* A checkout finds the same, on every LOD.
SameCheckouts(f, g) == SameLods(f, g) /\ SameNtdbrs(f, g)

-----------------------------------------------------------------------------
(***************************************************************************)
(* _mutate_branch_to_tag() and _mutate_tag_to_branch(): the symbol has no  *)
(* revisions, and its source lists it among its tags or its branches.      *)
(***************************************************************************)
KeepsPlace(r, q) ==
  /\ q.live = r.live /\ q.pred_live = r.pred_live /\ q.lod = r.lod /\ q.symbol = r.symbol
  /\ q.prev_id = r.prev_id /\ q.next_id = r.next_id
  /\ q.first_on_branch_id = r.first_on_branch_id
  /\ q.ntdbr = r.ntdbr /\ q.ntdbr_prev_id = r.ntdbr_prev_id /\ q.ntdbr_next_id = r.ntdbr_next_id
  /\ q.source_id = r.source_id /\ q.source_lod = r.source_lod
  /\ q.branch_commit_ids = r.branch_commit_ids

MutatedItem(f, i, kind, j, q) ==
  LET r == f.item[j]
  IN  /\ KeepsPlace(r, q) /\ q.kind = IF j = i THEN kind ELSE r.kind
      /\ IsInjective(q.branch_ids)
      /\ IF j = f.item[i].source_id
         THEN IF kind = "tag"
              THEN q.tag_ids = r.tag_ids \cup {i} /\ ToSet(q.branch_ids) = ToSet(r.branch_ids) \ {i}
              ELSE q.tag_ids = r.tag_ids \ {i} /\ ToSet(q.branch_ids) = ToSet(r.branch_ids) \cup {i}
         ELSE q.tag_ids = r.tag_ids /\ q.branch_ids = r.branch_ids

Mutates(f, g, U, i, kind) ==
  /\ Ids(g) = Ids(f) /\ g.root = f.root
  /\ g = [item |-> g.item, root |-> g.root] /\ g.item = [j \in Ids(g) |-> g.item[j]]
  /\ \A j \in Ids(g) : g.item[j] \in ItemRecord(U) /\ MutatedItem(f, i, kind, j, g.item[j])

MayMutate(f, U, i, kind) ==
  /\ Linked(f, U) /\ i \in Ids(f) /\ ~IsRev(f, i) /\ f.item[i].next_id = None
  /\ kind = IF IsBranch(f, i) THEN "tag" ELSE "branch"

LEMMA MutatedLinked ==
  ASSUME NEW f, NEW g, NEW U, NEW i, NEW kind, MayMutate(f, U, i, kind), Mutates(f, g, U, i, kind)
  PROVE  /\ Linked(g, U)
         /\ \A j \in Ids(f) : /\ IsRev(g, j) <=> IsRev(f, j)
                              /\ j # i => (IsBranch(g, j) <=> IsBranch(f, j))
                              /\ g.item[j].symbol = f.item[j].symbol
                              /\ g.item[j].next_id = f.item[j].next_id
         /\ IsBranch(g, i) <=> kind = "branch"
         /\ SameCheckouts(f, g)
<1> DEFINE source == f.item[i].source_id
<1>1. /\ Linked(f, U) /\ i \in Ids(f) /\ ~IsRev(f, i) /\ f.item[i].next_id = None
      /\ kind = IF IsBranch(f, i) THEN "tag" ELSE "branch"
  BY DEF MayMutate
<1>2. None \notin Ids(f) /\ source \in Ids(f) /\ IsRev(f, source) /\ source # i
  BY <1>1, Surroundings
<1>3. ASSUME NEW j \in Ids(f) PROVE MutatedItem(f, i, kind, j, g.item[j])
  BY DEF Mutates
<1>4. ASSUME NEW j \in Ids(f)
      PROVE  /\ IsRev(g, j) <=> IsRev(f, j)
             /\ j # i => (IsBranch(g, j) <=> IsBranch(f, j)) /\ g.item[j].kind = f.item[j].kind
             /\ j = i => g.item[j].kind = kind
             /\ KeepsPlace(f.item[j], g.item[j])
             /\ IsInjective(g.item[j].branch_ids)
  BY <1>1, <1>3 DEF MutatedItem, IsRev, IsBranch
<1>5. /\ IsBranch(g, i) <=> kind = "branch"
      /\ f.item[i].kind = (IF kind = "tag" THEN "branch" ELSE "tag") /\ kind \in {"branch", "tag"}
  BY <1>1, ShapedItem, <1>4 DEF Linked, ItemRecord, IsRev, IsBranch
<1>6. ASSUME NEW j \in Ids(f)
      PROVE  IF j = source
             THEN /\ \A t : t \in g.item[j].tag_ids <=>
                              IF t = i THEN kind = "tag" ELSE t \in f.item[j].tag_ids
                  /\ \A t : t \in ToSet(g.item[j].branch_ids) <=>
                              IF t = i THEN kind # "tag" ELSE t \in ToSet(f.item[j].branch_ids)
             ELSE /\ g.item[j].tag_ids = f.item[j].tag_ids
                  /\ ToSet(g.item[j].branch_ids) = ToSet(f.item[j].branch_ids)
  BY <1>3 DEF MutatedItem
<1>7. Ids(g) = Ids(f) /\ g.root = f.root
  BY DEF Mutates
<1>8. Shaped(g, U)
  BY <1>1, <1>7 DEF Linked, Mutates, Shaped
<1>9. Classes(g)
  BY <1>1, <1>4, <1>7 DEF Linked, Classes, KeepsPlace
<1>10. Sprouting(g)
  BY <1>4, <1>7, <1>1, <1>5, <1>6 DEF Sprouting, Linked, KeepsPlace
<1>11. Sprouts(g)
  BY <1>4, <1>7, <1>1, <1>2, <1>5, <1>6 DEF Sprouts, Linked, KeepsPlace
<1>12. Nexts(g)
  BY <1>7, <1>1, <1>4 DEF Nexts, KeepsPlace, Linked, Follows, Begins
<1>13. Prevs(g)
  BY <1>4, <1>7, <1>1, <1>2 DEF Prevs, Linked, KeepsPlace
<1>14. Commits(g)
  BY <1>4, <1>7, <1>1 DEF Commits, Linked, KeepsPlace
<1>15. NtdbrPairs(g)
  BY <1>1, <1>4, <1>7 DEF Linked, NtdbrPairs, KeepsPlace
<1>16. PredLive(g)
  <2> SUFFICES ASSUME NEW j \in Ids(f), IsRev(f, j)
               PROVE  LET p == EffectivePrev(g.item[j])
                      IN  g.item[j].pred_live = (p # None /\ g.item[p].live)
    BY <1>4, <1>7 DEF PredLive
  <2> DEFINE p == EffectivePrev(f.item[j])
  <2>1. f.item[j].pred_live = (p # None /\ f.item[p].live)
    BY <1>1 DEF Linked, PredLive
  <2>2. EffectivePrev(g.item[j]) = p /\ g.item[j].pred_live = f.item[j].pred_live
    BY <1>4 DEF KeepsPlace, EffectivePrev
  <2> HIDE DEF p
  <2> QED
    BY <2>1, <2>2, <1>4, <1>1, Surroundings DEF KeepsPlace, EffectivePrev, Linked, NtdbrPairs
<1>17. Roots(g)
  BY <1>1, <1>4, <1>7 DEF Linked, Roots, KeepsPlace
<1>18. PrevsEnd(g)
  BY <1>1, <1>4, <1>7 DEF Linked, PrevsEnd, KeepsPlace
<1>19. Linked(g, U)
  BY <1>8, <1>9, <1>10, <1>11, <1>12, <1>13, <1>14, <1>15, <1>16, <1>17, <1>18 DEF Linked
<1>20. SameCheckouts(f, g)
  BY <1>1, LinkedSources, <1>19, <1>4, <1>7 DEF SameCheckouts, SameLods, SameNtdbrs, KeepsPlace
<1> QED BY <1>4, <1>5, <1>19, <1>20 DEF KeepsPlace

SameSprouts(r, q) == q.tag_ids = r.tag_ids /\ q.branch_ids = r.branch_ids

LEMMA KindSet ==
  ASSUME NEW U, NEW r \in ItemRecord(U), NEW kind \in {"branch", "tag"},
         NEW q, q = [r EXCEPT !.kind = kind]
  PROVE  q \in ItemRecord(U) /\ KeepsPlace(r, q) /\ SameSprouts(r, q) /\ q.kind = kind
BY DEF ItemRecord, KeepsPlace, SameSprouts

SproutsNow(r, tags, list) == [r EXCEPT !.branch_ids = list, !.tag_ids = tags]
LEMMA SproutsOrder ==
  ASSUME NEW U, NEW r \in ItemRecord(U), NEW tags, NEW list
  PROVE  [r EXCEPT !.tag_ids = tags, !.branch_ids = list] = SproutsNow(r, tags, list)
BY DEF ItemRecord, SproutsNow

HasSprouts(U, r, tags, list, q) ==
  /\ q \in ItemRecord(U) /\ KeepsPlace(r, q)
  /\ q.kind = r.kind /\ q.tag_ids = tags /\ q.branch_ids = list

LEMMA SproutsSet ==
  ASSUME NEW U, NEW r \in ItemRecord(U), NEW tags \in SUBSET U, NEW list \in Seq(U)
  PROVE  HasSprouts(U, r, tags, list, SproutsNow(r, tags, list))
<1> DEFINE q == SproutsNow(r, tags, list)
<1>1. q \in ItemRecord(U)
  BY DEF ItemRecord, SproutsNow
<1> QED BY <1>1 DEF HasSprouts, ItemRecord, SproutsNow, KeepsPlace

\* How the source of a symbol lists it when its kind is changed.
SourceOfMutated(r, i, kind, q) ==
  IF kind = "tag"
  THEN q = [r EXCEPT !.branch_ids = RemoveFirst(@, i), !.tag_ids = @ \cup {i}]
  ELSE q = [r EXCEPT !.tag_ids = @ \ {i}, !.branch_ids = Append(@, i)]

NowListed(r, i, kind, q) ==
  IF kind = "tag"
  THEN q.tag_ids = r.tag_ids \cup {i} /\ ToSet(q.branch_ids) = ToSet(r.branch_ids) \ {i}
  ELSE q.tag_ids = r.tag_ids \ {i} /\ ToSet(q.branch_ids) = ToSet(r.branch_ids) \cup {i}

LEMMA SourceMutated ==
  ASSUME NEW U, NEW r \in ItemRecord(U), NEW i \in U, NEW kind \in {"branch", "tag"}, NEW q,
         IsInjective(r.branch_ids), kind = "branch" => i \notin ToSet(r.branch_ids),
         SourceOfMutated(r, i, kind, q)
  PROVE  /\ q \in ItemRecord(U) /\ KeepsPlace(r, q) /\ q.kind = r.kind /\ IsInjective(q.branch_ids)
         /\ NowListed(r, i, kind, q)
<1>1. r.branch_ids \in Seq(U) /\ r.tag_ids \in SUBSET U
  BY DEF ItemRecord
<1>2. CASE kind = "tag"
  <2> DEFINE list == RemoveFirst(r.branch_ids, i)
             tags == r.tag_ids \cup {i}
  <2>1. list \in Seq(U) /\ IsInjective(list) /\ ToSet(list) = ToSet(r.branch_ids) \ {i}
    BY <1>1, RemoveFirstFacts
  <2>2. q = SproutsNow(r, tags, list)
    BY <1>2 DEF SourceOfMutated, SproutsNow
  <2> HIDE DEF list
  <2> QED BY <1>2, <2>1, <2>2, <1>1, SproutsSet DEF NowListed, HasSprouts
<1>3. CASE kind # "tag"
  <2> DEFINE list == Append(r.branch_ids, i)
             tags == r.tag_ids \ {i}
  <2>1. list \in Seq(U) /\ IsInjective(list) /\ ToSet(list) = ToSet(r.branch_ids) \cup {i}
    BY <1>1, <1>3, AppendFacts
  <2>2. q = SproutsNow(r, tags, list)
    BY <1>3, SproutsOrder DEF SourceOfMutated
  <2> HIDE DEF list
  <2> QED BY <1>3, <2>1, <2>2, <1>1, SproutsSet DEF NowListed, HasSprouts
<1> QED BY <1>2, <1>3

\* Either method.
MutatedFile(f, i, kind) == IF kind = "tag" THEN MutateBranchToTag(f, i) ELSE MutateTagToBranch(f, i)

LEMMA Mutated ==
  ASSUME NEW f, NEW U, NEW i, NEW kind, MayMutate(f, U, i, kind)
  PROVE  Mutates(f, MutatedFile(f, i, kind), U, i, kind)
<1> DEFINE g == MutatedFile(f, i, kind)
           source == f.item[i].source_id
<1>1. /\ Linked(f, U) /\ i \in Ids(f) /\ ~IsRev(f, i) /\ Shaped(f, U)
      /\ kind = IF IsBranch(f, i) THEN "tag" ELSE "branch"
  BY DEF MayMutate, Linked
<1>2. source \in Ids(f) /\ IsRev(f, source) /\ source # i /\ i \in U
  BY <1>1, Surroundings DEF Shaped
<1>3. /\ f = [item |-> f.item, root |-> f.root] /\ f.item = [j \in Ids(f) |-> f.item[j]]
  BY <1>1 DEF Shaped
<1>4. /\ Ids(g) = Ids(f) /\ g.root = f.root
      /\ g = [item |-> g.item, root |-> g.root] /\ g.item = [j \in Ids(g) |-> g.item[j]]
      /\ \A j \in Ids(f) :
           /\ j = i => g.item[j] = [f.item[j] EXCEPT !.kind = kind]
           /\ j = source => SourceOfMutated(f.item[j], i, kind, g.item[j])
           /\ j # i /\ j # source => g.item[j] = f.item[j]
  <2>1. CASE kind = "tag"
    <3> DEFINE Now(j) == IF j = i THEN [f.item[j] EXCEPT !.kind = "tag"]
                         ELSE IF j = source
                         THEN [f.item[j] EXCEPT !.branch_ids = RemoveFirst(@, i), !.tag_ids = @ \cup {i}]
                         ELSE f.item[j]
    <3>1. g = [item |-> [j \in Ids(f) |-> Now(j)], root |-> f.root]
      BY <1>3, <2>1, ItemsReplaced DEF MutatedFile, MutateBranchToTag
    <3> HIDE DEF g
    <3> QED BY <1>1, <1>2, <2>1, <3>1 DEF SourceOfMutated, Ids
  <2>2. CASE kind # "tag"
    <3> DEFINE Now(j) == IF j = i THEN [f.item[j] EXCEPT !.kind = "branch"]
                         ELSE IF j = source
                         THEN [f.item[j] EXCEPT !.tag_ids = @ \ {i}, !.branch_ids = Append(@, i)]
                         ELSE f.item[j]
    <3>1. g = [item |-> [j \in Ids(f) |-> Now(j)], root |-> f.root]
      BY <1>3, <2>2, ItemsReplaced DEF MutatedFile, MutateTagToBranch
    <3> HIDE DEF g
    <3> QED BY <1>1, <1>2, <2>2, <3>1 DEF SourceOfMutated, Ids
  <2> QED BY <2>1, <2>2
<1> HIDE DEF g
<1>5. ASSUME NEW j \in Ids(f)
      PROVE  g.item[j] \in ItemRecord(U) /\ MutatedItem(f, i, kind, j, g.item[j])
  <2> DEFINE r == f.item[j]
             q == g.item[j]
  <2>1. r \in ItemRecord(U) /\ IsInjective(r.branch_ids) /\ kind \in {"branch", "tag"}
    BY <1>1, ShapedItem DEF Linked, Sprouting
  <2>2. CASE j = i
    <3>1. q = [r EXCEPT !.kind = kind]
      BY <1>4, <2>2
    <3> HIDE DEF r, q
    <3> QED BY <1>2, <2>1, <2>2, <3>1, KindSet DEF MutatedItem, SameSprouts, r, q
  <2>3. CASE j = source
    <3>1. kind = "branch" => i \notin ToSet(r.branch_ids)
      BY <1>1, Surroundings
    <3>2. SourceOfMutated(r, i, kind, q)
      BY <1>4, <2>3
    <3> HIDE DEF r, q
    <3>3. /\ q \in ItemRecord(U) /\ KeepsPlace(r, q) /\ q.kind = r.kind /\ IsInjective(q.branch_ids)
          /\ NowListed(r, i, kind, q)
      BY <1>2, <2>1, <3>1, <3>2, SourceMutated
    <3> QED BY <1>2, <2>3, <3>3 DEF MutatedItem, NowListed, r, q
  <2>4. CASE j # i /\ j # source
    BY <1>4, <2>4, <2>1 DEF MutatedItem, KeepsPlace
  <2> QED BY <2>2, <2>3, <2>4
<1> QED BY <1>4, <1>5 DEF Mutates, g

(***************************************************************************)
(* What NtdbLinked says of the links, for the steps after which nothing    *)
(* asks any more for the log message or the number of a revision.          *)
(***************************************************************************)
NtdbrsPlaced(f) ==
  /\ NtdbrsFirst(f) /\ NtdbStarts(f)
  /\ \A k \in Ids(f) : f.item[k].ntdbr_prev_id # None =>
       /\ f.item[k].first_on_branch_id = None /\ f.item[k].lod = Trunk
       /\ \A t \in Ids(f) : IsNtdbStart(f, t) => f.item[k].prev_id = f.item[t].prev_id

SameRun(r, q) ==
  /\ q.lod = r.lod /\ q.prev_id = r.prev_id /\ q.next_id = r.next_id
  /\ q.first_on_branch_id = r.first_on_branch_id
  /\ q.ntdbr = r.ntdbr /\ q.ntdbr_prev_id = r.ntdbr_prev_id /\ q.ntdbr_next_id = r.ntdbr_next_id

LEMMA PlacedKept ==
  ASSUME NEW f, NEW g, NtdbrsPlaced(f), Ids(g) = Ids(f),
         \A j \in Ids(f) : /\ f.item[j].prev_id \in Ids(f) \cup {None}
                           /\ f.item[j].next_id \in Ids(f) \cup {None}
                           /\ SameRun(f.item[j], g.item[j]) /\ (IsRev(g, j) <=> IsRev(f, j))
  PROVE  NtdbrsPlaced(g)
<1>1. \A t : IsNtdbStart(g, t) <=> IsNtdbStart(f, t)
  BY DEF IsNtdbStart, SameRun
<1>2. NtdbStarts(g)
  <2> SUFFICES ASSUME NEW t \in Ids(f), IsNtdbStart(f, t)
               PROVE  /\ \A u \in Ids(f) : IsNtdbStart(f, u) => u = t
                      /\ LET p == g.item[t].prev_id
                         IN  p # None => /\ g.item[p].lod = Trunk
                                         /\ g.item[p].next_id # None =>
                                              g.item[g.item[p].next_id].ntdbr_prev_id # None
    BY <1>1 DEF NtdbStarts
  <2>1. \A u \in Ids(f) : IsNtdbStart(f, u) => u = t
    BY DEF NtdbrsPlaced, NtdbStarts
  <2> DEFINE p == f.item[t].prev_id
  <2>2. p # None => /\ f.item[p].lod = Trunk
                    /\ f.item[p].next_id # None => f.item[f.item[p].next_id].ntdbr_prev_id # None
    BY DEF NtdbrsPlaced, NtdbStarts
  <2>3. g.item[t].prev_id = p
    BY DEF SameRun
  <2> QED BY <2>1, <2>2, <2>3 DEF SameRun
<1> QED BY <1>1, <1>2 DEF NtdbrsPlaced, NtdbrsFirst, SameRun

\* A turn of the loop of mutate_symbols().
Mutating(f, U, d) ==
  /\ Linked(f, U) /\ NtdbrsPlaced(f) /\ Named(f)
  /\ TagsEmpty(f, {x \in Symbols : d[x] = "tag"})

LEMMA SymbolMutated ==
  ASSUME NEW f, NEW U, NEW d, Mutating(f, U, d), NEW i, NEW kind,
         i \in Ids(f), ~IsRev(f, i), kind = IF IsBranch(f, i) THEN "tag" ELSE "branch",
         d[f.item[i].symbol] = kind
  PROVE  LET g == MutatedFile(f, i, kind)
         IN  /\ Mutating(g, U, d) /\ SameCheckouts(f, g)
             /\ Ids(g) = Ids(f) /\ \A j \in Ids(f) : IsRev(g, j) <=> IsRev(f, j)
<1> DEFINE g == MutatedFile(f, i, kind)
           T == {x \in Symbols : d[x] = "tag"}
<1>1. Linked(f, U) /\ NtdbrsPlaced(f) /\ Named(f) /\ TagsEmpty(f, T)
  BY DEF Mutating
<1>2. f.item[i].next_id = None
  BY <1>1 DEF TagsEmpty, Linked, Nexts, Begins, Named
<1>3. MayMutate(f, U, i, kind)
  BY <1>1, <1>2 DEF MayMutate
<1>4. Mutates(f, g, U, i, kind)
  BY <1>3, Mutated
<1> HIDE DEF g
<1>5. /\ Linked(g, U) /\ Ids(g) = Ids(f)
      /\ \A j \in Ids(f) : /\ IsRev(g, j) <=> IsRev(f, j)
                           /\ j # i => (IsBranch(g, j) <=> IsBranch(f, j))
                           /\ g.item[j].symbol = f.item[j].symbol
                           /\ g.item[j].next_id = f.item[j].next_id
      /\ IsBranch(g, i) <=> kind = "branch"
  BY <1>3, <1>4, MutatedLinked DEF Mutates
<1>6. NtdbrsPlaced(g)
  BY <1>4, <1>1, Surroundings, <1>5, PlacedKept DEF Mutates, MutatedItem, KeepsPlace, SameRun
<1>7. SameCheckouts(f, g)
  BY <1>3, <1>4, MutatedLinked
<1> QED BY <1>5, <1>1, <1>2, <1>6, <1>7 DEF Mutating, g, Named, TagsEmpty

-----------------------------------------------------------------------------
(***************************************************************************)
(* From here on symbols may sprout from other symbols, and the links are   *)
(* those of check_links() themselves.  What an operation keeps of every    *)
(* item decides about the links between revisions.                         *)
(***************************************************************************)
SameRevision(r, q) ==
  /\ q.kind = r.kind /\ q.live = r.live /\ q.pred_live = r.pred_live
  /\ q.lod = r.lod /\ q.symbol = r.symbol
  /\ q.prev_id = r.prev_id /\ q.next_id = r.next_id
  /\ q.first_on_branch_id = r.first_on_branch_id
  /\ q.ntdbr = r.ntdbr /\ q.ntdbr_prev_id = r.ntdbr_prev_id /\ q.ntdbr_next_id = r.ntdbr_next_id
  /\ q.branch_commit_ids = r.branch_commit_ids

\* Every symbol's content comes from one revision.
Sourced(f) == Founded(f) /\ \E h : IsSource(h, f)

LEMMA SourcesRange ==
  ASSUME NEW f, Sourced(f), NEW i \in Ids(f)
  PROVE  RevisionSource(f, i) \in Ids(f) /\ IsRev(f, RevisionSource(f, i))
<1>1. PICK h : IsSource(h, f)
  BY DEF Sourced
<1>2. \A j \in Ids(f) : h[j] = IF IsRev(f, j) THEN j ELSE h[f.item[j].source_id]
  BY <1>1 DEF IsSource
<1> DEFINE S == {j \in Ids(f) : ~(h[j] \in Ids(f) /\ IsRev(f, h[j]))}
<1>3. S = {}
  BY <1>2 DEF Sourced, Founded
<1> QED BY <1>3, <1>1, SourceOf DEF Sourced

LEMMA RevisionsKept ==
  ASSUME NEW f, NEW g, LinksHold(f), Sourced(f), None \notin Ids(f),
         Ids(g) = Ids(f), g.root = f.root,
         \A j \in Ids(f) : /\ SameRevision(f.item[j], g.item[j])
                           /\ RevisionSource(g, j) = RevisionSource(f, j)
  PROVE  /\ g.root \subseteq {j \in Ids(g) : IsRev(g, j)}
         /\ \A j \in Ids(f) : /\ IsRev(g, j) <=> IsRev(f, j)
                              /\ IsBranch(g, j) <=> IsBranch(f, j)
                              /\ LodAt(g, j) = LodAt(f, j)
                              /\ IsRev(f, j) => RevisionLinks(g, j)
<1>1. ASSUME NEW j \in Ids(f)
      PROVE  /\ IsRev(g, j) <=> IsRev(f, j)
             /\ IsBranch(g, j) <=> IsBranch(f, j)
             /\ LodAt(g, j) = LodAt(f, j)
  BY <1>1 DEF SameRevision, IsRev, IsBranch, LodAt
<1>2. ASSUME NEW j \in Ids(f), IsRev(f, j) PROVE RevisionLinks(g, j)
  <2> DEFINE r == f.item[j]
             q == g.item[j]
             b == r.first_on_branch_id
             p == r.prev_id
             n == r.next_id
  <2>1. RevisionLinks(f, j)
    BY <1>2 DEF LinksHold
  <2>2. SameRevision(r, q)
    OBVIOUS
  <2>3. {p, n, b, r.ntdbr_prev_id, r.ntdbr_next_id} \subseteq Ids(f) \cup {None}
    BY DEF LinksHold, RefsExist
  <2>4. q.prev_id = None <=> j \in g.root
    BY <2>1, <2>2 DEF RevisionLinks, SameRevision
  <2>5. b # None => /\ IsBranch(g, b)
                    /\ g.item[b].symbol = q.lod /\ g.item[b].next_id = j
                    /\ RevisionSource(g, b) = q.prev_id
                    /\ j \in g.item[q.prev_id].branch_commit_ids
    BY <2>1, <2>3, SourcesRange, <2>2, <1>1 DEF RevisionLinks, SameRevision
  <2>6. b = None /\ p # None => g.item[p].next_id = j /\ g.item[p].lod = q.lod
    BY <2>1, <2>3, <2>2 DEF RevisionLinks, p, b, r, SameRevision
  <2>7. n # None => g.item[n].prev_id = j /\ g.item[n].lod = q.lod
    BY <2>1, <2>3, <2>2 DEF RevisionLinks, n, r, SameRevision
  <2>8. /\ q.ntdbr_next_id # None => q.ntdbr /\ g.item[q.ntdbr_next_id].ntdbr_prev_id = j
        /\ q.ntdbr_prev_id # None => g.item[q.ntdbr_prev_id].ntdbr_next_id = j
    BY <2>1, <2>2, <2>3 DEF RevisionLinks, SameRevision
  <2>9. q.branch_commit_ids =
          {g.item[c].next_id : c \in {c \in Ids(g) : IsBranch(g, c)
                                        /\ RevisionSource(g, c) = j}} \ {None}
    BY <2>1, <1>1, <2>2 DEF RevisionLinks, SameRevision
  <2>10. q.pred_live = (EffectivePrev(q) # None /\ g.item[EffectivePrev(q)].live)
    <3>1. EffectivePrev(r) # None => g.item[EffectivePrev(r)].live = f.item[EffectivePrev(r)].live
      BY <2>3 DEF SameRevision, EffectivePrev
    <3> QED BY <2>1, <2>2, <3>1 DEF RevisionLinks, SameRevision, EffectivePrev
  <2>11. q.first_on_branch_id = b /\ q.prev_id = p /\ q.next_id = n
    BY <2>2 DEF SameRevision
  <2> QED BY <2>4, <2>5, <2>6, <2>7, <2>8, <2>9, <2>10, <2>11 DEF RevisionLinks
<1> QED BY <1>1, <1>2 DEF LinksHold

-----------------------------------------------------------------------------
(* adjust_parents(): a symbol moves to a branch that sprouts where it does. *)

Adjustable(f, U) ==
  /\ Shaped(f, U) /\ LinksHold(f) /\ Sourced(f)
  /\ \A j \in Ids(f) : IsInjective(f.item[j].branch_ids)

\* What the passes on changesets rely on besides.
Borne(f) ==
  \A i \in Ids(f) : ~IsRev(f, i) => f.item[f.item[i].source_id].kind \in {"revision", "branch"}

Ordered(f) ==
  Classes(f) /\ Nexts(f) /\ Borne(f) /\ PrevsEnd(f) /\ NtdbrsPlaced(f) /\ Named(f)

LEMMA OrderedKept ==
  ASSUME NEW f, NEW g, NEW U, Adjustable(f, U), Ordered(f), Ids(g) = Ids(f), Borne(g),
         \A j \in Ids(f) : /\ SameRevision(f.item[j], g.item[j])
                           /\ IsRev(f, j) => g.item[j].source_id = f.item[j].source_id
  PROVE  Ordered(g)
<1>1. \A j \in Ids(f) : /\ f.item[j].prev_id \in Ids(f) \cup {None}
                        /\ f.item[j].next_id \in Ids(f) \cup {None}
  BY DEF Adjustable, LinksHold, RefsExist
<1>2. \A j \in Ids(f) : /\ IsRev(g, j) <=> IsRev(f, j)
                        /\ IsBranch(g, j) <=> IsBranch(f, j)
                        /\ SameRun(f.item[j], g.item[j])
  BY DEF SameRevision, SameRun, IsRev, IsBranch
<1>3. Nexts(g)
  BY <1>2, <1>1 DEF Nexts, SameRun, Ordered, Follows, Begins, SameRevision
<1>4. PrevsEnd(g)
  BY <1>2 DEF Ordered, PrevsEnd, SameRun
<1> QED BY <1>1, <1>2, PlacedKept, <1>3, <1>4 DEF Ordered, Classes, SameRevision, Named

MayReparent(f, U, i, parent, lod) ==
  /\ Adjustable(f, U) /\ i \in Ids(f) /\ ~IsRev(f, i) /\ IsRev(f, f.item[i].source_id)
  /\ parent \in ToSet(f.item[f.item[i].source_id].branch_ids)
  /\ parent # i /\ f.item[parent].symbol = lod

ReparentedItem(f, i, parent, lod, j, q) ==
  LET r == f.item[j]
  IN  /\ SameRevision(r, q) /\ IsInjective(q.branch_ids)
      /\ q.source_id = IF j = i THEN parent ELSE r.source_id
      /\ q.source_lod = IF j = i THEN lod ELSE r.source_lod
      /\ \A t : t \in q.tag_ids <=>
           IF t = i THEN ~IsBranch(f, i) /\ j = parent ELSE t \in r.tag_ids
      /\ \A t : t \in ToSet(q.branch_ids) <=>
           IF t = i THEN IsBranch(f, i) /\ j = parent ELSE t \in ToSet(r.branch_ids)

Reparents(f, g, U, i, parent, lod) ==
  /\ Ids(g) = Ids(f) /\ g.root = f.root
  /\ g = [item |-> g.item, root |-> g.root] /\ g.item = [j \in Ids(g) |-> g.item[j]]
  /\ \A j \in Ids(g) : g.item[j] \in ItemRecord(U) /\ ReparentedItem(f, i, parent, lod, j, g.item[j])

\* Where the symbol, its source and its new parent stand.
LEMMA ReparentFacts ==
  ASSUME NEW f, NEW U, NEW i, NEW parent, NEW lod, MayReparent(f, U, i, parent, lod)
  PROVE  LET source == f.item[i].source_id
         IN  /\ i \in Ids(f) /\ source \in Ids(f) /\ parent \in Ids(f) /\ None \notin Ids(f)
             /\ source # i /\ parent # i /\ parent # source
             /\ ~IsRev(f, parent) /\ IsBranch(f, parent) /\ f.item[parent].source_id = source
             /\ \A j \in Ids(f) : /\ i \in f.item[j].tag_ids <=> j = source /\ ~IsBranch(f, i)
                                  /\ i \in ToSet(f.item[j].branch_ids) <=> j = source /\ IsBranch(f, i)
<1> DEFINE source == f.item[i].source_id
<1>1. /\ i \in Ids(f) /\ ~IsRev(f, i) /\ IsRev(f, source)
      /\ parent \in ToSet(f.item[source].branch_ids) /\ parent # i
      /\ LinksHold(f) /\ Sourced(f) /\ Shaped(f, U)
  BY DEF MayReparent, Adjustable
<1>2. source \in Ids(f) /\ None \notin Ids(f)
  BY <1>1 DEF Sourced, Founded, Shaped
<1>3. ASSUME NEW j \in Ids(f)
      PROVE  /\ i \in f.item[j].tag_ids <=> j = source /\ ~IsBranch(f, i)
             /\ i \in ToSet(f.item[j].branch_ids) <=> j = source /\ IsBranch(f, i)
  BY <1>1 DEF LinksHold, SproutLinks, IsBranch, SymbolLinks
<1> QED BY <1>1, <1>2, <1>3 DEF IsRev, IsBranch, LinksHold, RefsExist, SproutLinks

\* The symbol's content still comes from the same revision.
LEMMA ReparentedSources ==
  ASSUME NEW f, NEW g, NEW U, NEW i, NEW parent, NEW lod,
         MayReparent(f, U, i, parent, lod), Reparents(f, g, U, i, parent, lod)
  PROVE  Sourced(g) /\ \A j \in Ids(f) : RevisionSource(g, j) = RevisionSource(f, j)
<1> DEFINE source == f.item[i].source_id
<1>1. /\ ~IsRev(f, i) /\ IsRev(f, source) /\ Sourced(f)
  BY DEF MayReparent, Adjustable
<1>2. ASSUME NEW j \in Ids(f)
      PROVE  /\ IsRev(g, j) <=> IsRev(f, j)
             /\ g.item[j].source_id = IF j = i THEN parent ELSE f.item[j].source_id
  BY DEF Reparents, ReparentedItem, SameRevision, IsRev
<1>3. Ids(g) = Ids(f)
  BY DEF Reparents
<1>4. PICK h : IsSource(h, f)
  BY <1>1 DEF Sourced
<1> QED BY <1>4, <1>1, ReparentFacts, <1>2, <1>3, SourceOf DEF Sourced, IsSource, Founded

LEMMA ReparentedHolds ==
  ASSUME NEW f, NEW g, NEW U, NEW i, NEW parent, NEW lod,
         MayReparent(f, U, i, parent, lod), Reparents(f, g, U, i, parent, lod)
  PROVE  /\ Adjustable(g, U)
         /\ \A j \in Ids(f) : IsRev(g, j) <=> IsRev(f, j)
<1> DEFINE source == f.item[i].source_id
<1>1. /\ ~IsRev(f, i) /\ IsRev(f, source) /\ Sourced(f) /\ LinksHold(f) /\ Shaped(f, U)
      /\ f.item[parent].symbol = lod
  BY DEF MayReparent, Adjustable
<1>2. /\ i \in Ids(f) /\ source \in Ids(f) /\ parent \in Ids(f) /\ None \notin Ids(f)
      /\ source # i /\ parent # i /\ parent # source
      /\ ~IsRev(f, parent)
      /\ \A j \in Ids(f) : /\ i \in f.item[j].tag_ids <=> j = source /\ ~IsBranch(f, i)
                           /\ i \in ToSet(f.item[j].branch_ids) <=> j = source /\ IsBranch(f, i)
  BY ReparentFacts
<1>3. ASSUME NEW j \in Ids(f) PROVE ReparentedItem(f, i, parent, lod, j, g.item[j])
  BY DEF Reparents
<1>4. Ids(g) = Ids(f) /\ g.root = f.root
  BY DEF Reparents
<1>5. Sourced(g) /\ \A j \in Ids(f) : RevisionSource(g, j) = RevisionSource(f, j)
  BY ReparentedSources
<1>6. \A j \in Ids(f) : SameRevision(f.item[j], g.item[j])
  BY <1>3 DEF ReparentedItem
<1>7. /\ g.root \subseteq {j \in Ids(g) : IsRev(g, j)}
      /\ \A j \in Ids(f) : /\ IsRev(g, j) <=> IsRev(f, j)
                           /\ IsBranch(g, j) <=> IsBranch(f, j)
                           /\ LodAt(g, j) = LodAt(f, j)
                           /\ IsRev(f, j) => RevisionLinks(g, j)
  BY <1>1, <1>2, <1>4, <1>5, <1>6, RevisionsKept
<1>8. LodAt(f, parent) = lod
  BY <1>1, <1>2 DEF LodAt
<1>9. ASSUME NEW j \in Ids(f)
      PROVE  /\ g.item[j].source_id = IF j = i THEN parent ELSE f.item[j].source_id
             /\ g.item[j].source_lod = IF j = i THEN lod ELSE f.item[j].source_lod
             /\ \A t : t \in g.item[j].tag_ids <=>
                         IF t = i THEN ~IsBranch(f, i) /\ j = parent ELSE t \in f.item[j].tag_ids
             /\ \A t : t \in ToSet(g.item[j].branch_ids) <=>
                         IF t = i THEN IsBranch(f, i) /\ j = parent
                         ELSE t \in ToSet(f.item[j].branch_ids)
             /\ IsInjective(g.item[j].branch_ids)
  BY <1>3 DEF ReparentedItem
<1>10. RefsExist(g)
  <2> SUFFICES ASSUME NEW j \in Ids(f)
               PROVE  LET q == g.item[j]
                      IN  /\ {q.prev_id, q.next_id, q.first_on_branch_id, q.ntdbr_prev_id,
                              q.ntdbr_next_id, q.source_id} \subseteq Ids(f) \cup {None}
                          /\ q.tag_ids \cup ToSet(q.branch_ids) \cup q.branch_commit_ids \subseteq Ids(f)
    BY <1>4 DEF RefsExist
  <2> DEFINE r == f.item[j]
  <2>1. /\ {r.prev_id, r.next_id, r.first_on_branch_id, r.ntdbr_prev_id,
            r.ntdbr_next_id, r.source_id} \subseteq Ids(f) \cup {None}
        /\ r.tag_ids \cup ToSet(r.branch_ids) \cup r.branch_commit_ids \subseteq Ids(f)
    BY <1>1 DEF LinksHold, RefsExist
  <2>2. g.item[j].tag_ids \subseteq Ids(f) /\ ToSet(g.item[j].branch_ids) \subseteq Ids(f)
    BY <1>2, <1>9, <2>1
  <2> QED BY <2>1, <1>6, <1>2, <1>9, <2>2 DEF SameRevision
<1>11. ASSUME NEW j \in Ids(f) PROVE SproutLinks(g, j)
  <2>1. SproutLinks(f, j)
    BY <1>1 DEF LinksHold
  <2>2. ASSUME NEW t \in g.item[j].tag_ids
        PROVE  g.item[t].kind = "tag" /\ g.item[t].source_id = j /\ g.item[t].source_lod = LodAt(g, j)
    <3>1. t \in Ids(f)
      BY <1>4, <1>10 DEF RefsExist
    <3>2. g.item[t].kind = f.item[t].kind
      BY <1>6, <3>1 DEF SameRevision
    <3>3. CASE t = i
      <4>1. ~IsBranch(f, i) /\ j = parent
        BY <1>9, <3>3
      <4>2. f.item[i].kind = "tag"
        BY <1>1, <1>2, ShapedItem, <4>1 DEF ItemRecord, IsRev, IsBranch
      <4> QED BY <1>2, <1>7, <1>8, <1>9, <3>2, <3>3, <4>1, <4>2
    <3>4. CASE t # i
      BY <1>7, <1>9, <2>1, <3>1, <3>2, <3>4 DEF SproutLinks
    <3> QED BY <3>3, <3>4
  <2>3. ASSUME NEW t \in ToSet(g.item[j].branch_ids)
        PROVE  IsBranch(g, t) /\ g.item[t].source_id = j /\ g.item[t].source_lod = LodAt(g, j)
    <3>1. t \in Ids(f)
      BY <1>4, <1>10 DEF RefsExist
    <3>2. CASE t = i
      BY <1>9, <3>2, <1>2, <1>7, <1>8
    <3>3. CASE t # i
      BY <1>7, <1>9, <2>1, <3>1, <3>3 DEF SproutLinks
    <3> QED BY <3>2, <3>3
  <2> QED BY <2>2, <2>3 DEF SproutLinks
<1>12. ASSUME NEW j \in Ids(f), ~IsRev(f, j) PROVE SymbolLinks(g, j)
  <2>1. SymbolLinks(f, j)
    BY <1>1, <1>12 DEF LinksHold
  <2>2. f.item[j].source_id \in Ids(f)
    BY <1>1, <1>12 DEF Sourced, Founded
  <2>3. g.item[j].next_id # None =>
          /\ g.item[g.item[j].next_id].lod = g.item[j].symbol
          /\ g.item[g.item[j].next_id].first_on_branch_id = j
    BY <1>1, <1>6, <2>1 DEF LinksHold, RefsExist, SymbolLinks, SameRevision
  <2> QED BY <1>2, <1>7, <1>8, <1>9, <2>1, <2>2, <2>3 DEF SymbolLinks
<1>13. LinksHold(g)
  BY <1>4, <1>7, <1>10, <1>11, <1>12 DEF LinksHold
<1> QED BY <1>4, <1>5, <1>7, <1>9, <1>13, <1>1 DEF Adjustable, Reparents, Shaped

\* The fields of an item that change with its parent or its children.
Relisted(U, r, source, lod, tags, list, q) ==
  /\ q \in ItemRecord(U) /\ SameRevision(r, q)
  /\ q.source_id = source /\ q.source_lod = lod /\ q.tag_ids = tags /\ q.branch_ids = list

ParentSet(r, source, lod) == [r EXCEPT !.source_lod = lod, !.source_id = source]

LEMMA ParentNow ==
  ASSUME NEW U, NEW r \in ItemRecord(U), NEW source \in U, NEW lod \in Nat
  PROVE  Relisted(U, r, source, lod, r.tag_ids, r.branch_ids, ParentSet(r, source, lod))
<1> DEFINE q == ParentSet(r, source, lod)
<1>1. q \in ItemRecord(U)
  BY DEF ItemRecord, ParentSet
<1> QED BY <1>1 DEF Relisted, ItemRecord, ParentSet, SameRevision

LEMMA TagsNow ==
  ASSUME NEW U, NEW r \in ItemRecord(U), NEW tags \in SUBSET U
  PROVE  Relisted(U, r, r.source_id, r.source_lod, tags, r.branch_ids, [r EXCEPT !.tag_ids = tags])
BY DEF ItemRecord, SameRevision, Relisted

LEMMA BranchesNow ==
  ASSUME NEW U, NEW r \in ItemRecord(U), NEW list \in Seq(U)
  PROVE  Relisted(U, r, r.source_id, r.source_lod, r.tag_ids, list, [r EXCEPT !.branch_ids = list])
BY DEF ItemRecord, SameRevision, Relisted

\* A symbol leaves its source...
LeavesNow(r, i, branch) ==
  IF branch THEN [r EXCEPT !.branch_ids = RemoveFirst(@, i)] ELSE [r EXCEPT !.tag_ids = @ \ {i}]
Leaves(U, r, i, branch, q) ==
  \E tags \in SUBSET U : \E list \in Seq(U) :
    /\ Relisted(U, r, r.source_id, r.source_lod, tags, list, q) /\ IsInjective(list)
    /\ tags = (IF branch THEN r.tag_ids ELSE r.tag_ids \ {i})
    /\ ToSet(list) = IF branch THEN ToSet(r.branch_ids) \ {i} ELSE ToSet(r.branch_ids)

LEMMA Left ==
  ASSUME NEW U, NEW r \in ItemRecord(U), IsInjective(r.branch_ids), NEW i, NEW branch
  PROVE  Leaves(U, r, i, branch, LeavesNow(r, i, branch))
<1>1. r.branch_ids \in Seq(U) /\ r.tag_ids \in SUBSET U
  BY DEF ItemRecord
<1>2. CASE branch
  BY <1>1, RemoveFirstFacts, <1>2, BranchesNow DEF LeavesNow, Leaves
<1>3. CASE ~branch
  BY <1>1, <1>3, TagsNow DEF LeavesNow, Leaves
<1> QED BY <1>2, <1>3

\* ... and comes to its new parent.
ComesNow(r, i, branch) ==
  IF branch THEN [r EXCEPT !.branch_ids = Append(@, i)] ELSE [r EXCEPT !.tag_ids = @ \cup {i}]
Comes(U, r, i, branch, q) ==
  \E tags \in SUBSET U : \E list \in Seq(U) :
    /\ Relisted(U, r, r.source_id, r.source_lod, tags, list, q) /\ IsInjective(list)
    /\ tags = (IF branch THEN r.tag_ids ELSE r.tag_ids \cup {i})
    /\ ToSet(list) = IF branch THEN ToSet(r.branch_ids) \cup {i} ELSE ToSet(r.branch_ids)

LEMMA Arrived ==
  ASSUME NEW U, NEW r \in ItemRecord(U), IsInjective(r.branch_ids), NEW i \in U,
         i \notin ToSet(r.branch_ids), NEW branch
  PROVE  Comes(U, r, i, branch, ComesNow(r, i, branch))
<1>1. r.branch_ids \in Seq(U) /\ r.tag_ids \in SUBSET U
  BY DEF ItemRecord
<1>2. CASE branch
  BY <1>1, AppendFacts, <1>2, BranchesNow DEF ComesNow, Comes
<1>3. CASE ~branch
  BY <1>1, <1>3, TagsNow DEF ComesNow, Comes
<1> QED BY <1>2, <1>3

Reparented(f, i, parent, lod) ==
  LET source == f.item[i].source_id
      branch == IsBranch(f, i)
      Now(j) == IF j = i THEN ParentSet(f.item[j], parent, lod)
                ELSE IF j = source THEN LeavesNow(f.item[j], i, branch)
                ELSE IF j = parent THEN ComesNow(f.item[j], i, branch)
                ELSE f.item[j]
  IN  [item |-> [j \in Ids(f) |-> Now(j)], root |-> f.root]

LEMMA ReparentedItems ==
  ASSUME NEW f, NEW U, NEW i, NEW parent, NEW lod \in Nat, MayReparent(f, U, i, parent, lod)
  PROVE  Reparents(f, Reparented(f, i, parent, lod), U, i, parent, lod)
<1> DEFINE g == Reparented(f, i, parent, lod)
           source == f.item[i].source_id
           branch == IsBranch(f, i)
<1>1. Shaped(f, U) /\ \A j \in Ids(f) : IsInjective(f.item[j].branch_ids)
  BY DEF MayReparent, Adjustable
<1>2. /\ i \in Ids(f) /\ source \in Ids(f) /\ parent \in Ids(f)
      /\ source # i /\ parent # i /\ parent # source
      /\ \A j \in Ids(f) : /\ i \in f.item[j].tag_ids <=> j = source /\ ~branch
                           /\ i \in ToSet(f.item[j].branch_ids) <=> j = source /\ branch
  BY ReparentFacts
<1>3. i \in U /\ parent \in U
  BY <1>1, <1>2 DEF Shaped
<1>4. /\ Ids(g) = Ids(f) /\ g.root = f.root
      /\ g = [item |-> g.item, root |-> g.root] /\ g.item = [j \in Ids(g) |-> g.item[j]]
      /\ \A j \in Ids(f) :
           g.item[j] = IF j = i THEN ParentSet(f.item[j], parent, lod)
                       ELSE IF j = source THEN LeavesNow(f.item[j], i, branch)
                       ELSE IF j = parent THEN ComesNow(f.item[j], i, branch)
                       ELSE f.item[j]
  BY DEF Reparented, Ids
<1> HIDE DEF g
<1>5. ASSUME NEW j \in Ids(f)
      PROVE  g.item[j] \in ItemRecord(U) /\ ReparentedItem(f, i, parent, lod, j, g.item[j])
  <2> DEFINE r == f.item[j]
             q == g.item[j]
  <2>1. r \in ItemRecord(U) /\ IsInjective(r.branch_ids)
    BY <1>1, ShapedItem
  <2>2. /\ i \in r.tag_ids <=> j = source /\ ~branch
        /\ i \in ToSet(r.branch_ids) <=> j = source /\ branch
    BY <1>2
  <2>3. CASE j = i
    <3>1. q = ParentSet(r, parent, lod)
      BY <1>4, <2>3
    <3> HIDE DEF r, q, source, branch
    <3>2. Relisted(U, r, parent, lod, r.tag_ids, r.branch_ids, q)
      BY <1>3, <2>1, <3>1, ParentNow
    <3> QED BY <1>2, <2>1, <2>2, <2>3, <3>2 DEF ReparentedItem, Relisted, r, q
  <2>4. CASE j = source
    <3>1. q = LeavesNow(r, i, branch)
      BY <1>2, <1>4, <2>4
    <3> HIDE DEF r, q, source, branch
    <3>2. PICK tags \in SUBSET U, list \in Seq(U) :
            /\ Relisted(U, r, r.source_id, r.source_lod, tags, list, q) /\ IsInjective(list)
            /\ tags = (IF branch THEN r.tag_ids ELSE r.tag_ids \ {i})
            /\ ToSet(list) = IF branch THEN ToSet(r.branch_ids) \ {i} ELSE ToSet(r.branch_ids)
      BY <2>1, <3>1, Left DEF Leaves
    <3> QED BY <1>2, <2>4, <3>2, <2>2 DEF ReparentedItem, Relisted, r, q, source
  <2>5. CASE j = parent
    <3>1. q = ComesNow(r, i, branch)
      BY <1>2, <1>4, <2>5
    <3>2. i \notin ToSet(r.branch_ids) /\ i \notin r.tag_ids
      BY <1>2, <2>2, <2>5
    <3> HIDE DEF r, q, source, branch
    <3>3. Comes(U, r, i, branch, q)
      BY <1>3, <2>1, <3>1, <3>2, Arrived
    <3>4. PICK tags \in SUBSET U, list \in Seq(U) :
            /\ Relisted(U, r, r.source_id, r.source_lod, tags, list, q) /\ IsInjective(list)
            /\ tags = (IF branch THEN r.tag_ids ELSE r.tag_ids \cup {i})
            /\ ToSet(list) = IF branch THEN ToSet(r.branch_ids) \cup {i} ELSE ToSet(r.branch_ids)
      BY <3>3 DEF Comes
    <3> QED BY <1>2, <2>5, <3>4, <3>2 DEF ReparentedItem, Relisted, r, q, branch
  <2>6. CASE j # i /\ j # source /\ j # parent
    BY <1>4, <2>6, <2>1, <2>2 DEF ReparentedItem, SameRevision
  <2> QED BY <2>3, <2>4, <2>5, <2>6
<1> QED BY <1>4, <1>5 DEF Reparents, g

LEMMA ReparentedOrdered ==
  ASSUME NEW f, NEW g, NEW U, NEW i, NEW parent, NEW lod, Ordered(f),
         MayReparent(f, U, i, parent, lod), Reparents(f, g, U, i, parent, lod)
  PROVE  Ordered(g)
<1>1. Adjustable(f, U) /\ ~IsRev(f, i)
  BY DEF MayReparent
<1>2. Ids(g) = Ids(f)
  BY DEF Reparents
<1>3. \A j \in Ids(f) : /\ SameRevision(f.item[j], g.item[j])
                        /\ g.item[j].source_id = IF j = i THEN parent ELSE f.item[j].source_id
  BY DEF Reparents, ReparentedItem
<1>4. \A j \in Ids(f) : g.item[j].kind = f.item[j].kind
  BY <1>3 DEF SameRevision
<1>5. Borne(g)
  <2> SUFFICES ASSUME NEW j \in Ids(f), ~IsRev(g, j)
               PROVE  g.item[g.item[j].source_id].kind \in {"revision", "branch"}
    BY <1>2 DEF Borne
  <2>1. CASE j = i
    BY ReparentFacts, <1>3, <1>4, <2>1 DEF IsBranch
  <2>2. CASE j # i
    <3>1. ~IsRev(f, j)
      BY <1>4 DEF IsRev
    <3>2. f.item[f.item[j].source_id].kind \in {"revision", "branch"}
      BY <3>1 DEF Ordered, Borne
    <3> QED BY <1>3, <1>4, <2>2, <1>1, <3>1, <3>2 DEF Adjustable, Sourced, Founded
  <2> QED BY <2>1, <2>2
<1> QED BY <1>1, <1>2, <1>3, <1>5, OrderedKept

\* _adjust_tag_parent() and _adjust_branch_parents() for one symbol.
LEMMA ParentAdjusted ==
  ASSUME NEW f, NEW U, Adjustable(f, U), NEW i \in Ids(f), ~IsRev(f, i),
         IsRev(f, f.item[i].source_id), NEW lod \in Nat
  PROVE  LET g == AdjustParent(f, i, lod)
         IN  /\ Adjustable(g, U) /\ Ids(g) = Ids(f) /\ SameCheckouts(f, g)
             /\ Ordered(f) => Ordered(g)
             /\ \A j \in Ids(f) : /\ IsRev(g, j) <=> IsRev(f, j)
                                  /\ j # i => g.item[j].source_id = f.item[j].source_id
<1> DEFINE g == AdjustParent(f, i, lod)
           source == f.item[i].source_id
           found == {b \in PossibleParents(f, i) : f.item[b].symbol = lod}
           parent == CHOOSE b \in found : TRUE
<1>1. CASE f.item[i].source_lod = lod \/ found = {}
  BY <1>1 DEF AdjustParent, SameCheckouts, SameLods, SameNtdbrs
<1>2. CASE ~(f.item[i].source_lod = lod \/ found = {})
  <2>1. parent \in PossibleParents(f, i) /\ f.item[parent].symbol = lod
    BY <1>2
  <2>2. g = Reparented(f, i, parent, lod)
    BY <1>2, ItemsReplaced DEF AdjustParent, Reparented, ParentSet, LeavesNow, ComesNow,
       Adjustable, Shaped
  <2> HIDE DEF parent, found, g
  <2>3. PICK k \in DOMAIN f.item[source].branch_ids :
          /\ parent = f.item[source].branch_ids[k]
          /\ IsBranch(f, i) => \A l \in 1 .. k : f.item[source].branch_ids[l] # i
    BY <2>1 DEF PossibleParents
  <2>4. parent \in ToSet(f.item[source].branch_ids)
    BY <2>3 DEF ToSet
  <2>5. parent # i
    BY ShapedItem, <2>3, <2>4 DEF Adjustable, LinksHold, SproutLinks, ItemRecord, Sourced,
       Founded
  <2>6. MayReparent(f, U, i, parent, lod)
    BY <2>1, <2>4, <2>5 DEF MayReparent
  <2>7. Reparents(f, g, U, i, parent, lod)
    BY <2>2, <2>6, ReparentedItems
  <2>8. Adjustable(g, U) /\ \A j \in Ids(f) : IsRev(g, j) <=> IsRev(f, j)
    BY <2>6, <2>7, ReparentedHolds
  <2>9. SameCheckouts(f, g)
    <3>1. Ids(g) = Ids(f) /\ \A j \in Ids(f) : SameRevision(f.item[j], g.item[j])
      BY <2>7 DEF Reparents, ReparentedItem
    <3> QED
      BY <2>8, <2>6, <2>7, ReparentedSources, <3>1 DEF SameCheckouts, SameLods, SameNtdbrs,
         SameRevision
  <2> QED BY <2>7, <2>8, <2>6, ReparentedOrdered, <2>9 DEF Reparents, ReparentedItem, g
<1> QED BY <1>1, <1>2

-----------------------------------------------------------------------------
(* refine_symbols(), record_opened_symbols() and record_closed_symbols().  *)

SameItem(r, q) ==
  /\ SameRevision(r, q) /\ q.source_id = r.source_id /\ q.source_lod = r.source_lod
  /\ q.tag_ids = r.tag_ids /\ q.branch_ids = r.branch_ids

LEMMA NoopSet ==
  ASSUME NEW U, NEW r \in ItemRecord(U), NEW noop \in BOOLEAN
  PROVE  [r EXCEPT !.noop = noop] \in ItemRecord(U) /\ SameItem(r, [r EXCEPT !.noop = noop])
BY DEF ItemRecord, SameItem, SameRevision

RecordedNow(r, opened, closed) == [r EXCEPT !.opened_symbols = opened, !.closed_symbols = closed]

LEMMA RecordedSet ==
  ASSUME NEW U, NEW r \in ItemRecord(U), NEW opened \in SUBSET U, NEW closed \in SUBSET U
  PROVE  LET q == RecordedNow(r, opened, closed)
         IN  /\ q \in ItemRecord(U) /\ SameItem(r, q) /\ q.noop = r.noop
             /\ q.opened_symbols = opened /\ q.closed_symbols = closed
<1> DEFINE q == RecordedNow(r, opened, closed)
<1>1. q \in ItemRecord(U)
  BY DEF RecordedNow, ItemRecord
<1> QED BY <1>1 DEF RecordedNow, ItemRecord, SameItem, SameRevision

\* A file of the same items has the same links.
LEMMA SameHolds ==
  ASSUME NEW f, NEW g, NEW U, Adjustable(f, U), Ids(g) = Ids(f), g.root = f.root,
         \A j \in Ids(f) : SameItem(f.item[j], g.item[j])
  PROVE  LinksHold(g) /\ Sourced(g) /\ SameCheckouts(f, g)
<1>1. LinksHold(f) /\ Sourced(f) /\ None \notin Ids(f)
  BY DEF Adjustable, Shaped
<1>2. ASSUME NEW j \in Ids(f)
      PROVE  /\ SameRevision(f.item[j], g.item[j]) /\ (IsRev(g, j) <=> IsRev(f, j))
             /\ g.item[j].source_id = f.item[j].source_id
             /\ g.item[j].source_lod = f.item[j].source_lod
             /\ g.item[j].tag_ids = f.item[j].tag_ids /\ g.item[j].branch_ids = f.item[j].branch_ids
  BY DEF SameItem, SameRevision, IsRev
<1>3. Sourced(g) /\ \A j \in Ids(f) : RevisionSource(g, j) = RevisionSource(f, j)
  BY <1>1, <1>2, SourceOf DEF Sourced, Founded, IsSource
<1>4. /\ g.root \subseteq {j \in Ids(g) : IsRev(g, j)}
      /\ \A j \in Ids(f) : /\ IsBranch(g, j) <=> IsBranch(f, j)
                           /\ LodAt(g, j) = LodAt(f, j)
                           /\ IsRev(f, j) => RevisionLinks(g, j)
  BY <1>1, <1>2, <1>3, RevisionsKept
<1>5. ASSUME NEW j \in Ids(f)
      PROVE  LET q == g.item[j]
             IN  /\ {q.prev_id, q.next_id, q.first_on_branch_id, q.ntdbr_prev_id,
                     q.ntdbr_next_id, q.source_id} \subseteq Ids(f) \cup {None}
                 /\ q.tag_ids \cup ToSet(q.branch_ids) \cup q.branch_commit_ids \subseteq Ids(f)
  BY <1>1, <1>2 DEF LinksHold, RefsExist, SameRevision
<1>6. ASSUME NEW j \in Ids(f) PROVE SproutLinks(g, j)
  BY <1>1, <1>2, <1>4 DEF LinksHold, RefsExist, SameRevision, SproutLinks
<1>7. ASSUME NEW j \in Ids(f), ~IsRev(f, j) PROVE SymbolLinks(g, j)
  <2>1. SymbolLinks(f, j) /\ f.item[j].source_id \in Ids(f)
    BY <1>1, <1>7 DEF LinksHold, Sourced, Founded
  <2> QED BY <1>2, <1>4, <2>1, <1>1 DEF SymbolLinks, SameRevision, LinksHold, RefsExist
<1>8. SameCheckouts(f, g)
  BY <1>2, <1>3 DEF SameCheckouts, SameLods, SameNtdbrs, SameRevision
<1> QED BY <1>2, <1>3, <1>4, <1>5, <1>6, <1>7, <1>8 DEF LinksHold, RefsExist

LEMMA SameAdjustable ==
  ASSUME NEW f, NEW g, NEW U, Adjustable(f, U), Ordered(f), Ids(g) = Ids(f),
         g = [item |-> g.item, root |-> f.root], g.item = [j \in Ids(g) |-> g.item[j]],
         \A j \in Ids(f) : g.item[j] \in ItemRecord(U) /\ SameItem(f.item[j], g.item[j])
  PROVE  Adjustable(g, U) /\ Ordered(g) /\ SameCheckouts(f, g)
<1>1. g.root = f.root
  OBVIOUS
<1>2. \A j \in Ids(f) : /\ SameRevision(f.item[j], g.item[j])
                        /\ g.item[j].source_id = f.item[j].source_id
                        /\ g.item[j].branch_ids = f.item[j].branch_ids
                        /\ g.item[j].kind = f.item[j].kind
  BY DEF SameItem, SameRevision
<1>3. Ordered(g)
  BY <1>2, OrderedKept DEF Borne, IsRev, Adjustable, Sourced, Founded, Ordered
<1> QED BY <1>1, SameHolds, <1>3, <1>2 DEF Adjustable, Shaped

\* The items know which symbols they open and close.
Recorded(f) ==
  \A i \in Ids(f) :
    /\ f.item[i].opened_symbols = SymbolsOpened(f, i)
    /\ f.item[i].closed_symbols = UNION {SymbolsOpened(f, j) : j \in IdsClosed(f, i)}

\* What opens a symbol, and what closes what it opened, are items of the file.
LEMMA OpenedAndClosed ==
  ASSUME NEW f, NEW U, Adjustable(f, U), NEW i \in Ids(f)
  PROVE  SymbolsOpened(f, i) \subseteq Ids(f) /\ IdsClosed(f, i) \subseteq Ids(f)
BY SourcesRange DEF Adjustable, Shaped, LinksHold, RefsExist, RevisionLinks, IdsClosed,
   SymbolsOpened

LEMMA RecordedHolds ==
  ASSUME NEW f, NEW U, Adjustable(f, U), Ordered(f)
  PROVE  LET h == RecordSymbols(RefineSymbols(f))
         IN  Adjustable(h, U) /\ Ordered(h) /\ Recorded(h) /\ SameCheckouts(f, h)
<1> DEFINE g == RefineSymbols(f)
           h == RecordSymbols(g)
<1>1. f = [item |-> f.item, root |-> f.root] /\ Shaped(f, U)
  BY DEF Adjustable, Shaped
<1>2. /\ Ids(g) = Ids(f) /\ g = [item |-> g.item, root |-> f.root]
      /\ g.item = [j \in Ids(g) |-> g.item[j]]
      /\ \A j \in Ids(f) : g.item[j] \in ItemRecord(U) /\ SameItem(f.item[j], g.item[j])
  <2> DEFINE noop(j) == ~IsRev(f, j) /\ ~f.item[RevisionSource(f, j)].live
  <2>1. g = [item |-> [j \in Ids(f) |-> [f.item[j] EXCEPT !.noop = noop(j)]], root |-> f.root]
    BY <1>1, ItemsReplaced DEF RefineSymbols
  <2> HIDE DEF g
  <2>2. \A j \in Ids(f) : noop(j) \in BOOLEAN
    OBVIOUS
  <2> HIDE DEF noop
  <2>3. /\ Ids(g) = Ids(f) /\ g = [item |-> g.item, root |-> f.root]
        /\ g.item = [j \in Ids(g) |-> g.item[j]]
        /\ \A j \in Ids(f) : g.item[j] = [f.item[j] EXCEPT !.noop = noop(j)]
    BY <2>1 DEF Ids
  <2>4. ASSUME NEW j \in Ids(f) PROVE g.item[j] \in ItemRecord(U) /\ SameItem(f.item[j], g.item[j])
    <3>1. g.item[j] = [f.item[j] EXCEPT !.noop = noop(j)]
      BY <2>3
    <3> QED BY <1>1, <2>2, ShapedItem, <3>1, NoopSet
  <2> QED BY <2>3, <2>4
<1> HIDE DEF g
<1>3. Adjustable(g, U) /\ Ordered(g) /\ SameCheckouts(f, g)
  BY <1>1, <1>2, SameAdjustable
<1>4. /\ Ids(h) = Ids(g) /\ h = [item |-> h.item, root |-> g.root]
      /\ h.item = [j \in Ids(h) |-> h.item[j]]
      /\ \A j \in Ids(g) : /\ h.item[j] \in ItemRecord(U) /\ SameItem(g.item[j], h.item[j])
                            /\ h.item[j].noop = g.item[j].noop
                            /\ h.item[j].opened_symbols = SymbolsOpened(g, j)
                            /\ h.item[j].closed_symbols =
                                 UNION {SymbolsOpened(g, k) : k \in IdsClosed(g, j)}
  <2> DEFINE opened(j) == SymbolsOpened(g, j)
             closed(j) == UNION {SymbolsOpened(g, k) : k \in IdsClosed(g, j)}
  <2>1. h = [item |-> [j \in Ids(g) |->
               [g.item[j] EXCEPT !.opened_symbols = opened(j), !.closed_symbols = closed(j)]],
             root |-> g.root]
    BY <1>2, ItemsReplaced DEF RecordSymbols
  <2>2. \A j \in Ids(g) : opened(j) \in SUBSET U /\ closed(j) \in SUBSET U
    BY <1>3, OpenedAndClosed, <1>1, <1>2 DEF Shaped
  <2> HIDE DEF h, opened, closed
  <2>3. /\ Ids(h) = Ids(g) /\ h = [item |-> h.item, root |-> g.root]
        /\ h.item = [j \in Ids(h) |-> h.item[j]]
        /\ \A j \in Ids(g) :
             h.item[j] = [g.item[j] EXCEPT !.opened_symbols = opened(j), !.closed_symbols = closed(j)]
    BY <2>1 DEF Ids
  <2>4. ASSUME NEW j \in Ids(g)
        PROVE  /\ h.item[j] \in ItemRecord(U) /\ SameItem(g.item[j], h.item[j])
               /\ h.item[j].noop = g.item[j].noop
               /\ h.item[j].opened_symbols = opened(j) /\ h.item[j].closed_symbols = closed(j)
    <3>1. h.item[j] = RecordedNow(g.item[j], opened(j), closed(j))
      BY <2>3 DEF RecordedNow
    <3> QED BY <1>2, <2>2, <3>1, RecordedSet
  <2> QED BY <2>3, <2>4 DEF opened, closed
<1> HIDE DEF h
<1>5. Adjustable(h, U) /\ Ordered(h) /\ SameCheckouts(g, h)
  BY <1>3, <1>4, SameAdjustable
<1>6. Recorded(h)
  <2>1. ASSUME NEW j \in Ids(g)
        PROVE  SymbolsOpened(h, j) = SymbolsOpened(g, j) /\ IdsClosed(h, j) = IdsClosed(g, j)
    BY <1>4 DEF SameItem, SameRevision, SymbolsOpened, IdsClosed, IsRev
  <2>2. ASSUME NEW j \in Ids(g)
        PROVE  UNION {SymbolsOpened(h, k) : k \in IdsClosed(h, j)} =
                 UNION {SymbolsOpened(g, k) : k \in IdsClosed(g, j)}
    BY <1>3, OpenedAndClosed, <2>1
  <2> QED BY <1>4, <2>1, <2>2 DEF Recorded
<1> QED BY <1>5, <1>6, <1>3 DEF g, h, SameCheckouts, SameLods, SameNtdbrs

-----------------------------------------------------------------------------
(***************************************************************************)
(* The inductive invariant: what the step of the conversion that is        *)
(* running may rely on.  U are the items of the parsed file.               *)
(***************************************************************************)
TagNames(d) == {x \in Symbols : d[x] = "tag"}

Phase(p, f, step, pend, ntdbr, d) ==
  LET U == DOMAIN p.item
  IN  /\ p \in Parsed /\ d \in [Symbols -> {"branch", "tag", "exclude"}]
      /\ step \in {"parsed", "ntdbrs_processed", "branch_deletes", "exclude_non_trunk",
                   "collected", "filter", "mutate", "adjust", "done"}
      /\ step = "parsed" => f = ParsedFile(p)
      /\ step \in {"parsed", "ntdbrs_processed", "branch_deletes", "collected"} => ntdbr = FALSE
      /\ step \in {"ntdbrs_processed", "branch_deletes", "collected"} => Good(f, U)
      /\ step = "branch_deletes" => pend \subseteq Lods(f)
      /\ step = "exclude_non_trunk" => Excluding(f, U, pend, Symbols, ntdbr)
      /\ step = "filter" => /\ Excluding(f, U, pend, ExcludedOf(d), ntdbr)
                            /\ TagsEmpty(f, TagNames(d))
      /\ step = "mutate" => Mutating(f, U, d) /\ \A i \in pend : i \in Ids(f) /\ ~IsRev(f, i)
      /\ step \in {"adjust", "done"} => Adjustable(f, U) /\ Ordered(f)
      /\ step = "adjust" =>
           \A i \in pend : i \in Ids(f) /\ ~IsRev(f, i) /\ IsRev(f, f.item[i].source_id)
      /\ step = "done" => Recorded(f)

FileInv == Phase(parsed, file, pc, pending, ntdbr_excluded, fate)

\* The invariant is enough.
LEMMA FileInvLinks ==
  FileInv => LinksConsistent
BY ParsedGood, LinkedHolds DEF FileInv, Phase, Good, LinksConsistent, Excluding, Mutating,
   Adjustable

LEMMA FileInvInit ==
  Init => FileInv
BY DEF Init, FileInv, Phase, ParsedFile

\* CollectRevsPass.
LEMMA NtdbsKeepInv ==
  ASSUME FileInv, ProcessLiveNtdb \/ ProcessHistoricalNtdb \/ NoNtdb
  PROVE  FileInv'
BY ParsedGood, LiveNtdb, HistoricalNtdb DEF Phase, FileInv, ProcessLiveNtdb,
   ProcessHistoricalNtdb, NoNtdb

LEMMA DeletesKeepInv ==
  ASSUME FileInv,
         RemoveUnneededInitialTrunkDelete \/ RemoveInitialBranchDeletes \/ EndOfBranchDeletes
  PROVE  FileInv'
<1> DEFINE U == DOMAIN parsed.item
<1>1. /\ parsed \in Parsed /\ Good(file, U) /\ ntdbr_excluded = FALSE
      /\ fate \in [Symbols -> {"branch", "tag", "exclude"}]
      /\ pc = "branch_deletes" => pending \subseteq Lods(file)
  BY DEF Phase, FileInv, RemoveUnneededInitialTrunkDelete, RemoveInitialBranchDeletes,
     EndOfBranchDeletes
<1>2. parsed' = parsed /\ ntdbr_excluded' = ntdbr_excluded /\ fate' = fate
  BY DEF RemoveUnneededInitialTrunkDelete, RemoveInitialBranchDeletes, EndOfBranchDeletes
<1>3. CASE RemoveUnneededInitialTrunkDelete
  BY <1>3, <1>1, TrunkDeleteRemoved, <1>2 DEF RemoveUnneededInitialTrunkDelete, FileInv, Phase
<1>4. CASE RemoveInitialBranchDeletes
  BY <1>4, <1>1, BranchDeleteRemoved, <1>2 DEF RemoveInitialBranchDeletes, LeafLods, FileInv,
     Phase
<1>5. CASE EndOfBranchDeletes
  BY <1>5, <1>1, ExcludesAll, <1>2 DEF EndOfBranchDeletes, FileInv, Phase
<1> QED BY <1>3, <1>4, <1>5

LEMMA TrunkOnlyKeepsInv ==
  ASSUME FileInv, ExcludeNonTrunk \/ EndOfExcludeNonTrunk
  PROVE  FileInv'
<1> DEFINE U == DOMAIN parsed.item
<1>1. /\ parsed \in Parsed /\ Excluding(file, U, pending, Symbols, ntdbr_excluded)
      /\ fate \in [Symbols -> {"branch", "tag", "exclude"}]
  BY DEF Phase, FileInv, ExcludeNonTrunk, EndOfExcludeNonTrunk
<1>2. parsed' = parsed /\ fate' = fate
  BY DEF ExcludeNonTrunk, Exclude, EndOfExcludeNonTrunk
<1>3. CASE ExcludeNonTrunk
  BY <1>3, <1>1, ExcludedFrom, <1>2 DEF ExcludeNonTrunk, Exclude, FileInv, Phase
<1>4. CASE EndOfExcludeNonTrunk
  BY <1>4, <1>1, GraftedIfExcluded, <1>2 DEF EndOfExcludeNonTrunk, FileInv, Phase
<1> QED BY <1>3, <1>4

\* CollateSymbolsPass and FilterSymbolsPass.
LEMMA FilterKeepsInv ==
  ASSUME FileInv, CollateSymbols \/ FilterExcludedSymbols \/ EndOfFilter
  PROVE  FileInv'
<1> DEFINE U == DOMAIN parsed.item
<1>1. Phase(parsed, file, pc, pending, ntdbr_excluded, fate)
  BY DEF FileInv
<1>2. parsed \in Parsed /\ fate \in [Symbols -> {"branch", "tag", "exclude"}]
  BY <1>1 DEF Phase
<1>3. parsed' = parsed
  BY DEF CollateSymbols, FilterExcludedSymbols, Exclude, EndOfFilter
<1>4. CASE CollateSymbols
  BY <1>4, <1>1, PlanExcludes, <1>2, <1>3 DEF CollateSymbols, Phase, TagNames, FileInv
<1>5. CASE FilterExcludedSymbols
  BY <1>5, <1>1, ExcludedFrom, <1>2, <1>3 DEF FilterExcludedSymbols, Exclude, Phase, FileInv
<1>6. CASE EndOfFilter
  <2>1. /\ pc = "filter" /\ pc' = "mutate" /\ fate' = fate
        /\ file' = GraftIfExcluded(file, ntdbr_excluded)
        /\ pending' = {i \in Ids(file') : ~IsRev(file', i)}
    BY <1>6 DEF EndOfFilter
  <2>2. Good(file', U) /\ TagsEmpty(file', TagNames(fate))
    BY <2>1, <1>1, GraftedIfExcluded DEF Phase
  <2>3. Mutating(file', U, fate)
    BY <2>2 DEF Good, Mutating, TagNames, NtdbLinked, NtdbrsPlaced, Rev12
  <2> QED BY <1>2, <1>3, <2>1, <2>3 DEF FileInv, Phase
<1> QED BY <1>4, <1>5, <1>6

LEMMA MutateKeepsInv ==
  ASSUME FileInv, MutateSymbol \/ EndOfMutate
  PROVE  FileInv'
<1> DEFINE U == DOMAIN parsed.item
<1>1. /\ parsed \in Parsed /\ fate \in [Symbols -> {"branch", "tag", "exclude"}]
      /\ Mutating(file, U, fate) /\ \A i \in pending : i \in Ids(file) /\ ~IsRev(file, i)
  BY DEF Phase, FileInv, MutateSymbol, EndOfMutate
<1>2. parsed' = parsed /\ fate' = fate
  BY DEF MutateSymbol, EndOfMutate
<1>3. CASE MutateSymbol
  BY <1>3, <1>1, SymbolMutated, <1>2 DEF MutateSymbol, MutatedFile, FileInv, Phase
<1>4. CASE EndOfMutate
  <2>1. /\ pc' = "adjust" /\ file' = file /\ pending' = {i \in Ids(file) : ~IsRev(file, i)}
    BY <1>4 DEF EndOfMutate
  <2>2. Linked(file, U) /\ NtdbrsPlaced(file) /\ Named(file)
    BY <1>1 DEF Mutating
  <2>3. Adjustable(file, U)
    BY <2>2, LinkedHolds, LinkedSources DEF Adjustable, Sourced, Linked, Sprouting
  <2>4. Ordered(file)
    BY <2>2 DEF Ordered, Linked, Borne, Sprouts, IsRev
  <2>5. \A i \in pending' : i \in Ids(file) /\ ~IsRev(file, i) /\ IsRev(file, file.item[i].source_id)
    BY <2>1, <2>2 DEF Linked, Sprouts
  <2> QED BY <1>1, <1>2, <2>1, <2>3, <2>5, <2>4 DEF FileInv, Phase
<1> QED BY <1>3, <1>4

LEMMA AdjustKeepsInv ==
  ASSUME FileInv, AdjustParents \/ Record
  PROVE  FileInv'
<1> DEFINE U == DOMAIN parsed.item
<1>1. /\ parsed \in Parsed /\ fate \in [Symbols -> {"branch", "tag", "exclude"}]
      /\ Adjustable(file, U) /\ Ordered(file)
      /\ \A i \in pending : i \in Ids(file) /\ ~IsRev(file, i) /\ IsRev(file, file.item[i].source_id)
  BY DEF Phase, FileInv, AdjustParents, Record
<1>2. parsed' = parsed /\ fate' = fate
  BY DEF AdjustParents, Record
<1>3. CASE AdjustParents
  <2>1. PICK i \in pending :
          \E lod \in {Trunk} \cup (Symbols \ (ExcludedOf(fate) \cup {file.item[i].symbol})) :
            file' = AdjustParent(file, i, lod) /\ pending' = pending \ {i}
    BY <1>3 DEF AdjustParents
  <2>2. PICK lod \in {Trunk} \cup Symbols :
          file' = AdjustParent(file, i, lod) /\ pending' = pending \ {i}
    BY <2>1
  <2>3. /\ Adjustable(file', U) /\ Ordered(file') /\ Ids(file') = Ids(file)
        /\ \A j \in Ids(file) : /\ IsRev(file', j) <=> IsRev(file, j)
                                /\ j # i => file'.item[j].source_id = file.item[j].source_id
    BY <1>1, <2>2, NamesAssumption, ParentAdjusted
  <2>4. ASSUME NEW j \in pending'
        PROVE  j \in Ids(file') /\ ~IsRev(file', j) /\ IsRev(file', file'.item[j].source_id)
    BY <1>1, <2>2, <2>3 DEF Adjustable, Sourced, Founded
  <2> QED BY <1>1, <1>2, <1>3, <2>3, <2>4 DEF FileInv, Phase, AdjustParents
<1>4. CASE Record
  BY <1>4, <1>1, RecordedHolds, <1>2 DEF Record, FileInv, Phase
<1> QED BY <1>3, <1>4

-----------------------------------------------------------------------------
(***************************************************************************)
(* The finished file.                                                      *)
(***************************************************************************)
Finished(f, U) == Adjustable(f, U) /\ Ordered(f) /\ Recorded(f)

\* Where a revision stands: what comes before it and after it.
LEMMA FinishedRevisions ==
  ASSUME NEW f, NEW U, Finished(f, U), NEW i \in Ids(f), IsRev(f, i)
  PROVE  LET r == f.item[i]
             b == r.first_on_branch_id
         IN  /\ r.source_id = None
             /\ b # None => /\ b \in Ids(f) /\ IsBranch(f, b) /\ ~IsRev(f, b)
                            /\ f.item[b].next_id = i
                            /\ r.prev_id \in Ids(f) /\ IsRev(f, r.prev_id)
                            /\ RevisionSource(f, b) = r.prev_id
                            /\ i \in f.item[r.prev_id].branch_commit_ids
             /\ b = None /\ r.prev_id # None =>
                  /\ r.prev_id \in Ids(f) /\ IsRev(f, r.prev_id)
                  /\ f.item[r.prev_id].next_id = i
             /\ r.next_id # None =>
                  /\ r.next_id \in Ids(f) /\ IsRev(f, r.next_id)
                  /\ f.item[r.next_id].prev_id = i
                  /\ f.item[r.next_id].first_on_branch_id = None
             /\ r.ntdbr_next_id # None =>
                  /\ r.ntdbr /\ r.ntdbr_next_id \in Ids(f) /\ IsRev(f, r.ntdbr_next_id)
                  /\ f.item[r.ntdbr_next_id].ntdbr_prev_id = i
             /\ r.ntdbr_prev_id # None =>
                  /\ r.ntdbr_prev_id \in Ids(f) /\ IsRev(f, r.ntdbr_prev_id)
                  /\ f.item[r.ntdbr_prev_id].ntdbr_next_id = i
                  /\ f.item[r.ntdbr_prev_id].ntdbr
<1> DEFINE r == f.item[i]
           b == r.first_on_branch_id
<1>1. /\ LinksHold(f) /\ Sourced(f) /\ None \notin Ids(f) /\ Classes(f) /\ Nexts(f)
  BY DEF Finished, Adjustable, Ordered, Shaped
<1>2. /\ {r.prev_id, r.next_id, b, r.ntdbr_prev_id, r.ntdbr_next_id} \subseteq Ids(f) \cup {None}
      /\ RevisionLinks(f, i)
  BY <1>1 DEF LinksHold, RefsExist
<1>3. ASSUME b # None
      PROVE  /\ b \in Ids(f) /\ IsBranch(f, b) /\ ~IsRev(f, b) /\ f.item[b].next_id = i
             /\ r.prev_id \in Ids(f) /\ IsRev(f, r.prev_id) /\ RevisionSource(f, b) = r.prev_id
             /\ i \in f.item[r.prev_id].branch_commit_ids
  BY <1>2, <1>3, <1>1, SourcesRange DEF RevisionLinks, IsBranch, IsRev
<1>4. ASSUME b = None, r.prev_id # None
      PROVE  r.prev_id \in Ids(f) /\ IsRev(f, r.prev_id) /\ f.item[r.prev_id].next_id = i
  BY <1>2, <1>4, <1>1 DEF RevisionLinks, Nexts, Begins
<1>5. ASSUME r.ntdbr_prev_id # None
      PROVE  LET l == r.ntdbr_prev_id
             IN  l \in Ids(f) /\ IsRev(f, l) /\ f.item[l].ntdbr_next_id = i /\ f.item[l].ntdbr
  BY <1>2, <1>5, <1>1 DEF RevisionLinks, Classes, LinksHold
<1> QED BY <1>1, <1>3, <1>4, <1>2, <1>5 DEF Classes, Nexts, Follows, RevisionLinks

\* Of some revisions with an NTDB one among them, one is the first NTDB one,
\* or follows a revision that is not among them.
LEMMA NtdbrBegins ==
  ASSUME NEW f, NEW U, Finished(f, U), NEW T \in SUBSET {i \in Ids(f) : IsRev(f, i)},
         NEW l \in T, f.item[l].ntdbr
  PROVE  \E t \in T : f.item[t].ntdbr /\ (f.item[t].prev_id \notin T \/ IsNtdbStart(f, t))
<1> DEFINE N == {j \in T : f.item[j].ntdbr}
<1>1. PrevsEnd(f) /\ NtdbrsFirst(f)
  BY DEF Finished, Ordered, NtdbrsPlaced
<1>2. PICK t \in N : f.item[t].prev_id \notin N
  BY <1>1 DEF PrevsEnd
<1>3. ASSUME f.item[t].prev_id \in T PROVE IsNtdbStart(f, t)
  BY <1>2, <1>3, FinishedRevisions, <1>1 DEF Finished, Adjustable, Shaped, NtdbrsFirst,
     IsNtdbStart
<1> QED BY <1>2, <1>3

\* 1.2 follows the same revision as the first NTDB one.
LEMMA Rev12Place ==
  ASSUME NEW f, NEW U, Finished(f, U), NEW k \in Ids(f), f.item[k].ntdbr_prev_id # None
  PROVE  \E t \in Ids(f) : IsNtdbStart(f, t) /\ IsRev(f, t) /\ f.item[k].prev_id = f.item[t].prev_id
<1> DEFINE T == {i \in Ids(f) : IsRev(f, i)}
           l == f.item[k].ntdbr_prev_id
<1>1. l \in T /\ f.item[l].ntdbr
  BY FinishedRevisions DEF Finished, Ordered, Classes
<1>2. PICK t \in T : f.item[t].ntdbr /\ (f.item[t].prev_id \notin T \/ IsNtdbStart(f, t))
  BY <1>1, NtdbrBegins
<1> QED BY <1>2, FinishedRevisions DEF Finished, Ordered, NtdbrsPlaced, IsNtdbStart

-----------------------------------------------------------------------------
(* Symbols are closed by what replaces the item they were opened by.       *)

LEMMA ReplacesRevision ==
  ASSUME NEW f, NEW U, Finished(f, U), NEW x \in Ids(f), IsRev(f, x), NEW i \in Ids(f)
  PROVE  x \in IdsClosed(f, i) <=> Replaces(f, i, x)
<1> DEFINE r == f.item[i]
           b == r.first_on_branch_id
           IsPost(y) == /\ IsRev(f, y) /\ f.item[y].ntdbr
                        /\ f.item[y].first_on_branch_id # None /\ f.item[y].prev_id = x
           posts == {y \in Ids(f) : IsPost(y)}
<1>1. None \notin Ids(f) /\ NtdbStarts(f) /\ Classes(f) /\ Nexts(f)
  BY DEF Finished, Adjustable, Shaped, Ordered, NtdbrsPlaced
<1>2. Replaces(f, i, x) <=> IF posts # {} THEN i \in posts ELSE f.item[x].next_id = i
  BY DEF Replaces
<1>3. x \in IdsClosed(f, i) <=>
        IsRev(f, i) /\ r.prev_id = x /\ IF b # None THEN r.ntdbr ELSE r.ntdbr_prev_id = None
  BY FinishedRevisions, <1>1 DEF IdsClosed
<1>4. IsRev(f, i) /\ r.prev_id = x /\ b = None => f.item[x].next_id = i
  BY <1>1, FinishedRevisions
<1>5. CASE posts # {}
  BY <1>5, <1>1, <1>3, <1>4, <1>2 DEF IsNtdbStart, NtdbStarts
<1>6. CASE posts = {}
  BY Rev12Place, <1>1, FinishedRevisions, <1>6, <1>3, <1>4, <1>2 DEF IsNtdbStart
<1> QED BY <1>5, <1>6

LEMMA ReplacesSymbol ==
  ASSUME NEW f, NEW U, Finished(f, U), NEW x \in Ids(f), ~IsRev(f, x), NEW i \in Ids(f)
  PROVE  x \in IdsClosed(f, i) <=> Replaces(f, i, x)
BY FinishedRevisions DEF Finished, Adjustable, Shaped, Ordered, IdsClosed, Nexts, Begins,
   Replaces

LEMMA FinishedCloses ==
  ASSUME NEW f, NEW U, Finished(f, U), NEW x \in Ids(f), NEW s \in f.item[x].opened_symbols
  PROVE  {i \in Ids(f) : s \in f.item[i].closed_symbols} = {i \in Ids(f) : Replaces(f, i, x)}
<1>1. Adjustable(f, U) /\ LinksHold(f) /\ Recorded(f)
  BY DEF Finished, Adjustable
<1>2. ASSUME NEW j \in Ids(f), s \in SymbolsOpened(f, j) PROVE f.item[s].source_id = j
  BY <1>2, <1>1 DEF SymbolsOpened, LinksHold, SproutLinks
<1>3. ASSUME NEW i \in Ids(f) PROVE s \in f.item[i].closed_symbols <=> Replaces(f, i, x)
  BY <1>1, OpenedAndClosed, <1>2, ReplacesRevision, ReplacesSymbol DEF Recorded
<1> QED BY <1>3

-----------------------------------------------------------------------------
(* No set of items is a circle of predecessors.                            *)

PredsOf(f, i) ==
  IF IsRev(f, i)
  THEN ({f.item[i].first_on_branch_id} \ {None})
         \cup ({f.item[i].prev_id, f.item[i].ntdbr_prev_id} \ {None})
  ELSE {f.item[i].source_id}

LEMMA NoCircle ==
  ASSUME NEW f, NEW U, Finished(f, U), NEW S \in SUBSET Ids(f), S # {}
  PROVE  \E i \in S : PredsOf(f, i) \cap S = {}
<1> SUFFICES ASSUME \A i \in S : PredsOf(f, i) \cap S # {}
             PROVE  FALSE
  OBVIOUS
<1>1. Sourced(f) /\ PrevsEnd(f) /\ NtdbrsPlaced(f) /\ None \notin Ids(f)
  BY DEF Finished, Adjustable, Shaped, Ordered
<1>2. PICK h : IsSource(h, f)
  BY <1>1 DEF Sourced
<1>3. \A j \in Ids(f) : /\ RevisionSource(f, j) = h[j]
                        /\ h[j] = IF IsRev(f, j) THEN j ELSE h[f.item[j].source_id]
  BY <1>1, <1>2, SourceOf DEF Sourced, IsSource
\* The revision a symbol comes from is in S with the symbol.
<1>4. \A i \in S : h[i] \in S
  <2> DEFINE B == {i \in S : h[i] \notin S}
  <2>1. B \in SUBSET {i \in Ids(f) : ~IsRev(f, i)}
    BY <1>3
  <2> SUFFICES ASSUME B # {} PROVE FALSE
    OBVIOUS
  <2>2. PICK i \in B : f.item[i].source_id \notin B
    BY <1>1, <2>1 DEF Sourced, Founded
  <2> QED BY <1>3, <2>1, <2>2 DEF PredsOf
<1> DEFINE T == {i \in S : IsRev(f, i)}
\* So a revision in S follows, or comes after the NTDB revisions with, one in S.
<1>5. ASSUME NEW i \in T PROVE f.item[i].prev_id \in T \/ f.item[i].ntdbr_prev_id \in T
  BY FinishedRevisions, <1>3, <1>4, <1>1 DEF PredsOf
<1>6. T \in SUBSET {i \in Ids(f) : IsRev(f, i)} /\ T # {}
  BY <1>1, <1>3, <1>4, SourcesRange
<1>7. PICK k \in T : f.item[k].prev_id \notin T
  BY <1>1, <1>6 DEF PrevsEnd
\* This is 1.2, whose place is that of the first NTDB revision.
<1>8. f.item[k].ntdbr_prev_id \in T
  BY <1>5, <1>7
<1>9. f.item[f.item[k].ntdbr_prev_id].ntdbr
  BY <1>1, <1>8, FinishedRevisions
<1>10. PICK t \in T : f.item[t].ntdbr /\ (f.item[t].prev_id \notin T \/ IsNtdbStart(f, t))
  BY <1>6, <1>8, <1>9, NtdbrBegins
<1> QED BY <1>7, <1>1, <1>5, <1>10, <1>8 DEF NtdbrsPlaced, NtdbrsFirst, Finished, Ordered

-----------------------------------------------------------------------------
(* The finished file is what CVSItem assumes of the item database.         *)

LEMMA HandedItems ==
  ASSUME NEW U, Finished(file, U)
  PROVE  Handed \in [Ids(file) -> Changeset!ItemRecord]
<1> SUFFICES ASSUME NEW i \in Ids(file) PROVE Handed[i] \in Changeset!ItemRecord
  BY DEF Handed
<1> DEFINE r == file.item[i]
<1>1. /\ Shaped(file, U) /\ RefsExist(file) /\ Named(file)
  BY DEF Finished, Adjustable, Ordered, LinksHold
<1> QED
  BY <1>1, NamesAssumption DEF Handed, Changeset!ItemRecord, Named, ItemRecord, Shaped, Ids,
     RefsExist

\* The classes and the predecessors of the items stay what they are.
LEMMA HandedClasses ==
  ASSUME NEW i \in Ids(file)
  PROVE  /\ Changeset!IsRevision(i) <=> IsRev(file, i)
         /\ Changeset!GetPredIds(i) = PredsOf(file, i)
BY DEF Changeset!IsRevision, Handed, IsRev, Changeset!GetPredIds, Changeset!GetSymbolPredIds,
   PredsOf

LEMMA HandedRevisions ==
  ASSUME NEW U, Finished(file, U), NEW i \in Ids(file), IsRev(file, i)
  PROVE  Changeset!RevisionLinks(i)
<1> DEFINE r == file.item[i]
           b == r.first_on_branch_id
<1>1. /\ LinksHold(file) /\ None \notin Ids(file) /\ Nexts(file)
  BY DEF Finished, Adjustable, Ordered, Shaped
<1>2. ASSUME NEW c \in r.branch_commit_ids
      PROVE  /\ c \in Ids(file) /\ IsRev(file, c) /\ file.item[c].prev_id = i
             /\ file.item[c].first_on_branch_id # None
  BY <1>1, FinishedRevisions DEF LinksHold, RevisionLinks, IsBranch, IsRev, Nexts, Begins
<1>3. \A j \in Ids(file) :
        LET q == file.item[j]
        IN  /\ Handed[j].kind = q.kind
            /\ Handed[j].prev_id = q.prev_id /\ Handed[j].next_id = q.next_id
            /\ Handed[j].first_on_branch_id = q.first_on_branch_id
            /\ Handed[j].ntdbr_prev_id = q.ntdbr_prev_id
            /\ Handed[j].ntdbr_next_id = q.ntdbr_next_id
            /\ Handed[j].source_id = q.source_id
            /\ Handed[j].branch_commit_ids = q.branch_commit_ids
  BY DEF Handed
<1> QED BY FinishedRevisions, <1>3, HandedClasses, <1>2 DEF Changeset!RevisionLinks, IsBranch

LEMMA HandedSymbols ==
  ASSUME NEW U, Finished(file, U), NEW i \in Ids(file), ~IsRev(file, i)
  PROVE  Changeset!SymbolLinks(i)
<1> DEFINE r == file.item[i]
           s == r.source_id
<1>1. /\ LinksHold(file) /\ None \notin Ids(file) /\ Nexts(file) /\ Borne(file)
      /\ s \in Ids(file)
  BY DEF Finished, Adjustable, Ordered, Shaped, Sourced, Founded
<1>2. \A j \in Ids(file) :
        LET q == file.item[j]
        IN  /\ Handed[j].kind = q.kind /\ Handed[j].next_id = q.next_id
            /\ Handed[j].first_on_branch_id = q.first_on_branch_id
            /\ Handed[j].source_id = q.source_id /\ Handed[j].tag_ids = q.tag_ids
            /\ Handed[j].branch_ids = ToSet(q.branch_ids)
  BY DEF Handed
<1>3. Handed[i].next_id # None =>
        /\ Changeset!IsRevision(Handed[i].next_id)
        /\ Handed[Handed[i].next_id].first_on_branch_id = i
  BY <1>1, HandedClasses, <1>2 DEF Nexts, Begins
<1> QED BY <1>1, <1>2, <1>3 DEF Changeset!SymbolLinks, IsBranch, LinksHold, SymbolLinks, Borne

LEMMA HandedLinks ==
  ASSUME NEW U, Finished(file, U), NEW i \in Ids(file)
  PROVE  Changeset!CheckLinks(i)
<1>1. /\ \A t \in Handed[i].tag_ids : Handed[t].kind = "tag" /\ Handed[t].source_id = i
      /\ \A b \in Handed[i].branch_ids : Handed[b].kind = "branch" /\ Handed[b].source_id = i
  BY DEF SproutLinks, IsBranch, Handed, RefsExist, Finished, Adjustable, LinksHold
<1> QED BY HandedClasses, HandedRevisions, HandedSymbols, <1>1 DEF Changeset!CheckLinks

-----------------------------------------------------------------------------
\* What holds at every step of the conversion of a file.
LEMMA FileInvariant ==
  Spec => []FileInv
<1>1. Init => FileInv
  BY FileInvInit
<1>2. FileInv /\ [Next]_vars => FileInv'
  BY NtdbsKeepInv, DeletesKeepInv, TrunkOnlyKeepsInv, FilterKeepsInv, MutateKeepsInv,
     AdjustKeepsInv DEF vars, FileInv, Next
<1> QED BY <1>1, <1>2, PTL DEF Spec

LEMMA FileInvFinished ==
  ASSUME FileInv, pc = "done"
  PROVE  Finished(file, DOMAIN parsed.item)
BY DEF FileInv, Phase, Finished

(***************************************************************************)
(* Between two methods of CVSFileItems, and between two turns of their     *)
(* loops, the file passes check_link_consistency(), for every file the     *)
(* parser can hand over and every decision about its symbols; a symbol     *)
(* whose parent is still to be adjusted sprouts from a revision.           *)
(***************************************************************************)
THEOREM FileStaysLinked ==
  Spec => []LinksConsistent
<1>1. FileInv => LinksConsistent
  BY FileInvLinks
<1> QED BY <1>1, FileInvariant, PTL

(***************************************************************************)
(* What record_closed_symbols() leaves: the symbols an item opens are      *)
(* closed by the revision that replaces the item's content on its line of  *)
(* development and by no other, 1.2 and the NTDB revisions included.       *)
(***************************************************************************)
THEOREM SymbolsCloseOnce ==
  Spec => []ClosedByItsSuccessor
<1>1. FileInv => ClosedByItsSuccessor
  BY FileInvFinished, FinishedCloses DEF ClosedByItsSuccessor
<1> QED BY <1>1, FileInvariant, PTL

(***************************************************************************)
(* What FilterSymbolsPass stores is what the changeset passes rely on: an  *)
(* item database whose links come in pairs, in which no set of items is a  *)
(* circle of predecessors and no symbol comes twice.  So what CVSItem      *)
(* assumes of the files one by one holds of every file.                    *)
(***************************************************************************)
THEOREM FilesFeedChangesets ==
  Spec => []FeedsChangesets
<1>1. FileInv => FeedsChangesets
  <2> SUFFICES ASSUME FileInv, pc = "done" PROVE FeedsChangesets
    BY DEF FeedsChangesets
  <2> DEFINE U == DOMAIN parsed.item
             preds == [i \in Ids(file) |-> Changeset!GetPredIds(i)]
  <2>1. Finished(file, U)
    BY FileInvFinished
  <2>2. ASSUME NEW S \in SUBSET Ids(file), S # {}
        PROVE  \E i \in S : preds[i] \cap S = {}
    BY <2>1, <2>2, NoCircle, HandedClasses
  <2>3. ASSUME NEW i \in Ids(file), file.item[i].first_on_branch_id # None
        PROVE  RevisionSource(file, file.item[i].first_on_branch_id) = file.item[i].prev_id
    BY <2>1, <2>3, FinishedRevisions DEF Finished, Ordered, Classes
  <2> QED
    BY <2>1, HandedItems, HandedLinks, <2>2, <2>3 DEF FeedsChangesets, Finished, Ordered, Named
<1> QED BY <1>1, FileInvariant, PTL

-----------------------------------------------------------------------------
(***************************************************************************)
(* Deleting items, and what a checkout yields: along with the content come *)
(* facts about what CVS's default branch has left.                         *)
(***************************************************************************)
\* Where the NTDB revisions end, trunk ends with what they follow, and 1.2
\* follows those that are not the end of their LOD.
Stumps(f) ==
  /\ NtdbEnds(f) # {} =>
       \A i \in RevsOn(f, Trunk) : f.item[i].next_id = None =>
         \E t \in Ids(f) : IsNtdbStart(f, t) /\ f.item[t].prev_id = i
  /\ \A i \in Ids(f) :
       f.item[i].ntdbr /\ f.item[i].next_id # None /\ ~f.item[f.item[i].next_id].ntdbr =>
         f.item[i].ntdbr_next_id # None

\* An LOD that is severed from its branch has no other start, and what is
\* not alive has no content.
Rooted(f) ==
  \A i \in f.root : f.item[i].lod # Trunk => SymbolsNamed(f, f.item[i].lod) = {}
Dead(f, text) == \A i \in Ids(f) : IsRev(f, i) /\ ~f.item[i].live => text[i] = None

\* Nobody who checks out x misses the items X: they are not the last ones
\* of what stays of x, and if nothing stays of x, there was nothing to find.
Harmless(f, X, text, x) ==
  /\ \A i \in RevsOn(f, x) \ X : f.item[i].next_id \notin X
  /\ RevsOn(f, x) = {} /\ SymbolsNamed(f, x) # {} /\ SymbolsNamed(f, x) \subseteq X =>
       \E i \in SymbolsNamed(f, x) : text[RevisionSource(f, i)] = None
  /\ RevsOn(f, x) # {} /\ RevsOn(f, x) \subseteq X =>
       /\ SymbolsNamed(f, x) \subseteq X
       /\ \E i \in RevsOn(f, x) : f.item[i].next_id = None /\ text[i] = None

LEMMA PrunedSets ==
  ASSUME NEW f, NEW g, NEW X, NEW U, Linked(f, U), Linked(g, U), Pruned(f, g, X)
  PROVE  /\ \A x : /\ RevsOn(g, x) = RevsOn(f, x) \ X
                   /\ SymbolsNamed(g, x) = SymbolsNamed(f, x) \ X
         /\ \A i \in Ids(f) \ X : RevisionSource(g, i) = RevisionSource(f, i)
<1>1. \A j \in Ids(f) \ X : j \in Ids(g) /\ Kept(f.item[j], g.item[j]) /\ (IsRev(g, j) <=> IsRev(f, j))
  BY DEF Pruned, PrunedItem, Kept, IsRev
<1>2. Ids(g) = Ids(f) \ X
  BY DEF Pruned
<1>3. \A j \in Ids(f) : RevisionSource(f, j) = IF IsRev(f, j) THEN j ELSE f.item[j].source_id
  BY LinkedSources
<1>4. \A j \in Ids(g) : RevisionSource(g, j) = IF IsRev(g, j) THEN j ELSE g.item[j].source_id
  BY LinkedSources
<1> QED BY <1>1, <1>2, <1>3, <1>4 DEF RevsOn, SymbolsNamed, Kept

LEMMA PrunedYields ==
  ASSUME NEW f, NEW g, NEW X, NEW U, Linked(f, U), Linked(g, U), Pruned(f, g, X),
         NEW text, NEW x, NEW c, Harmless(f, X, text, x), Yields(f, text, x, c)
  PROVE  Yields(g, text, x, c)
<1>1. /\ RevsOn(g, x) = RevsOn(f, x) \ X /\ SymbolsNamed(g, x) = SymbolsNamed(f, x) \ X
      /\ \A i \in Ids(f) \ X : RevisionSource(g, i) = RevisionSource(f, i)
  BY PrunedSets
<1>2. CASE RevsOn(g, x) # {}
  <2>1. \A i \in RevsOn(g, x) : g.item[i].next_id = f.item[i].next_id
    BY <1>1 DEF Pruned, PrunedItem, RevsOn, Harmless
  <2> QED BY <1>1, <1>2, <2>1 DEF Yields
<1>3. CASE RevsOn(g, x) = {} /\ RevsOn(f, x) # {}
  BY <1>1, <1>3 DEF Harmless, Yields
<1>4. CASE RevsOn(f, x) = {}
  BY <1>1, <1>4 DEF Harmless, Yields, SymbolsNamed
<1> QED BY <1>1, <1>2, <1>3, <1>4

\* What is deleted is neither NTDB revision nor 1.2, so trunk goes on as before.
LEMMA PrunedTrunk ==
  ASSUME NEW f, NEW g, NEW X, NEW U, Good(f, U), Good(g, U), MayPrune(f, X), Pruned(f, g, X),
         Stumps(f), NEW text, Harmless(f, X, text, Trunk)
  PROVE  /\ Stumps(g) /\ \A c : TrunkYields(f, text, c) => TrunkYields(g, text, c)
<1>1. Linked(f, U) /\ Linked(g, U) /\ RevsOn(g, Trunk) = RevsOn(f, Trunk) \ X /\ None \notin Ids(f)
  BY PrunedSets, Surroundings DEF Good
<1>2. \A j \in Ids(g) :
        /\ j \in Ids(f) /\ j \notin X /\ (IsRev(g, j) <=> IsRev(f, j))
        /\ g.item[j].ntdbr = f.item[j].ntdbr /\ g.item[j].ntdbr_next_id = f.item[j].ntdbr_next_id
        /\ g.item[j].next_id = IF f.item[j].next_id \in X THEN None ELSE f.item[j].next_id
  BY DEF Pruned, PrunedItem, Kept, IsRev
<1>3. \A j \in Ids(f) : f.item[j].ntdbr => j \in Ids(g)
  BY DEF Pruned, MayPrune
<1>4. \A j \in Ids(f) : f.item[j].ntdbr /\ f.item[j].next_id \in X => f.item[j].ntdbr_next_id # None
  BY <1>1 DEF MayPrune, Stumps
<1>5. NtdbEnds(g) = NtdbEnds(f)
  BY <1>1, <1>2, <1>3, <1>4 DEF NtdbEnds
<1>6. ASSUME NEW i \in RevsOn(g, Trunk), g.item[i].next_id = None, NtdbEnds(g) # {}
      PROVE  \E t \in Ids(g) : IsNtdbStart(g, t) /\ g.item[t].prev_id = i
  <2>1. i \in RevsOn(f, Trunk) /\ i \in Ids(g) /\ f.item[i].next_id = None
    BY <1>1, <1>2, <1>6 DEF Harmless, RevsOn
  <2>2. PICK t \in Ids(f) : IsNtdbStart(f, t) /\ f.item[t].prev_id = i
    BY <1>5, <1>6, <2>1 DEF Stumps
  <2>3. t \in Ids(g) /\ ~IsCut(f, X, t)
    BY <1>2, <1>3, <2>1, <2>2 DEF MayPrune, IsNtdbStart, IsCut, Pruned
  <2> QED BY <2>2, <2>3 DEF Pruned, PrunedItem, Kept, NotCut, IsNtdbStart
<1>7. ASSUME NEW i \in Ids(g), g.item[i].ntdbr, g.item[i].next_id # None, ~g.item[g.item[i].next_id].ntdbr
      PROVE  g.item[i].ntdbr_next_id # None
  <2>1. g.item[i].next_id = f.item[i].next_id /\ g.item[i].next_id \in Ids(g)
    BY <1>1, <1>2, <1>7, Surroundings
  <2> QED BY <1>2, <1>7, <2>1 DEF Stumps
<1>8. \A c : Yields(f, text, Trunk, c) => Yields(g, text, Trunk, c)
  BY <1>1, PrunedYields
<1> QED BY <1>5, <1>6, <1>7, <1>8 DEF Stumps, TrunkYields

\* Whatever a checkout of trunk, or of a symbol among S, yields in f, it yields in g.
Carries(f, g, text, S) ==
  /\ \A c : TrunkYields(f, text, c) => TrunkYields(g, text, c)
  /\ \A x \in S : \A c : Yields(f, text, x, c) => Yields(g, text, x, c)

LEMMA PrunedCarries ==
  ASSUME NEW f, NEW g, NEW X, NEW U, Good(f, U), Good(g, U), MayPrune(f, X), Pruned(f, g, X),
         Stumps(f), NEW text, NEW S, \A x \in S \cup {Trunk} : Harmless(f, X, text, x)
  PROVE  Stumps(g) /\ Carries(f, g, text, S)
<1>1. Linked(f, U) /\ Linked(g, U)
  BY DEF Good
<1>2. \A x \in S : \A c : Yields(f, text, x, c) => Yields(g, text, x, c)
  BY <1>1, PrunedYields
<1> QED BY <1>2, PrunedTrunk DEF Carries

LEMMA PrunedRooted ==
  ASSUME NEW f, NEW g, NEW X, NEW U, Good(f, U), Good(g, U), MayPrune(f, X), Pruned(f, g, X),
         \A i \in X : IsRev(f, i) => SymbolsNamed(f, f.item[i].lod) \subseteq X,
         NEW text, Rooted(f), Dead(f, text)
  PROVE  Rooted(g) /\ Dead(g, text)
<1>1. Linked(f, U) /\ Linked(g, U) /\ Named(f)
  BY DEF Good
<1>2. \A j \in Ids(g) : /\ j \in Ids(f) /\ j \notin X /\ (IsRev(g, j) <=> IsRev(f, j))
                        /\ Kept(f.item[j], g.item[j])
  BY DEF Pruned, PrunedItem, Kept, IsRev
<1>3. Dead(g, text)
  BY <1>2 DEF Dead, Kept
<1>4. ASSUME NEW j \in g.root, g.item[j].lod # Trunk PROVE SymbolsNamed(g, g.item[j].lod) = {}
  <2> DEFINE r == f.item[j]
             b == r.first_on_branch_id
  <2>1. j \in Ids(g) /\ IsRev(g, j) /\ g.item[j].prev_id = None
    BY <1>1, <1>4 DEF Linked, Roots
  <2>2. j \in Ids(f) /\ j \notin X /\ IsRev(f, j) /\ r.lod = g.item[j].lod
    BY <1>2, <2>1 DEF Kept
  <2>3. SymbolsNamed(g, r.lod) = SymbolsNamed(f, r.lod) \ X
    BY <1>1, PrunedSets
  <2>4. CASE r.prev_id = None
    BY <1>1, <1>4, <2>2, <2>3, <2>4 DEF Linked, Roots, Rooted
  <2>5. CASE r.prev_id # None /\ b # None
    <3>1. /\ b \in Ids(f) /\ ~IsRev(f, b) /\ f.item[b].next_id = j /\ f.item[b].source_id = r.prev_id
          /\ f.item[b].symbol = r.lod
      BY <1>1, <2>2, <2>5, Surroundings
    <3>2. b \in X
      BY <2>1, <2>5, <3>1 DEF MayPrune, Pruned, PrunedItem, IsCut, NotCut
    <3> QED BY <1>1, <2>2, <2>3, <3>1, <3>2 DEF Named, SymbolsNamed
  <2>6. CASE r.prev_id # None /\ b = None
    <3>1. r.prev_id \in X
      <4>1. None \notin X
        BY <1>1, Surroundings DEF MayPrune
      <4> QED BY <2>1, <2>6, <4>1 DEF Pruned, PrunedItem, IsCut, NotCut
    <3>2. IsRev(f, r.prev_id) /\ f.item[r.prev_id].lod = r.lod
      BY <1>1, <2>2, <2>6, Surroundings
    <3> QED BY <2>2, <2>3, <3>1, <3>2
  <2> QED BY <2>4, <2>5, <2>6
<1> QED BY <1>3, <1>4 DEF Rooted

\* Symbols that are not the names of LODs.
LEMMA TrunkUnnamed ==
  ASSUME NEW f, Named(f)
  PROVE  SymbolsNamed(f, Trunk) = {}
<1>1. Trunk \notin Symbols
  BY NamesAssumption
<1> QED BY <1>1 DEF Named, SymbolsNamed

LEMMA TrunkDeleteCarries ==
  ASSUME NEW f, NEW U, Good(f, U), NEW i \in UnneededTrunkDeletes(f),
         NEW text, Stumps(f), Rooted(f), Dead(f, text)
  PROVE  LET g == RemoveTrunkDelete(f, i)
         IN  Stumps(g) /\ Rooted(g) /\ Dead(g, text) /\ Carries(f, g, text, Symbols)
<1> DEFINE g == RemoveTrunkDelete(f, i)
           X == WithSprouts(f, i)
<1>1. Good(g, U) /\ MayPrune(f, X) /\ Pruned(f, g, X)
  BY TrunkDeleteRemoved
<1>2. /\ Linked(f, U) /\ Named(f) /\ i \in Ids(f) /\ IsRev(f, i) /\ f.item[i].prev_id = None
      /\ f.item[i].lod = Trunk /\ text[i] = None
  BY DEF Good, UnneededTrunkDeletes, Linked, Roots, Dead
<1>3. \A j \in X : j # i => j \in Ids(f) /\ ~IsRev(f, j) /\ f.item[j].source_id = i
  BY <1>2, Surroundings DEF WithSprouts
<1>4. \A j \in Ids(f) : IsRev(f, j) =>
        /\ f.item[j].next_id \notin X
        /\ f.item[j].next_id # None => f.item[j].next_id \in RevsOn(f, f.item[j].lod)
  BY <1>2, <1>3, Surroundings DEF RevsOn
<1> HIDE DEF g, X
<1>5. SymbolsNamed(f, Trunk) = {}
  BY <1>2, TrunkUnnamed
<1>6. \A j \in X : IsRev(f, j) => SymbolsNamed(f, f.item[j].lod) \subseteq X
  BY <1>2, <1>3, <1>5
<1>7. Harmless(f, X, text, Trunk)
  BY <1>2, <1>3, <1>4, <1>5 DEF Harmless, RevsOn
<1>8. ASSUME NEW x \in Symbols PROVE Harmless(f, X, text, x)
  <2>1. i \notin RevsOn(f, x)
    BY <1>2, NamesAssumption DEF RevsOn
  <2>2. \A j \in Ids(f) : ~IsRev(f, j) => RevisionSource(f, j) = f.item[j].source_id
    BY <1>2, LinkedSources
  <2> QED BY <1>2, <1>3, <1>4, <2>1, <2>2 DEF Harmless, RevsOn, SymbolsNamed
<1>9. Stumps(g) /\ Carries(f, g, text, Symbols)
  BY <1>1, <1>7, <1>8, PrunedCarries
<1>10. Rooted(g) /\ Dead(g, text)
  BY <1>1, <1>6, PrunedRooted
<1> QED BY <1>9, <1>10 DEF g

LEMMA BranchDeleteCarries ==
  ASSUME NEW f, NEW U, Good(f, U), NEW s \in Lods(f),
         NEW text, Stumps(f), Rooted(f), Dead(f, text)
  PROVE  LET g == RemoveBranchDelete(f, s)
         IN  Stumps(g) /\ Rooted(g) /\ Dead(g, text) /\ Carries(f, g, text, Symbols)
<1> DEFINE g == RemoveBranchDelete(f, s)
           X == WithStart(f, s)
           i == FirstRev(f, s)
<1>1. Good(g, U) /\ (g = f \/ DeletesStart(f, s))
  BY BranchDeleteRemoved
<1>2. CASE g = f
  BY <1>2 DEF Carries
<1>3. CASE DeletesStart(f, s)
  <2>1. /\ MayPrune(f, X) /\ Pruned(f, g, X) /\ i # None
        /\ ~f.item[i].live
    BY <1>3 DEF DeletesStart, IsUnneededBranchDelete
  <2>2. /\ Linked(f, U) /\ Named(f) /\ s \in Ids(f) /\ i \in Ids(f) /\ IsRev(f, i)
        /\ IsRev(f, s) => s = i /\ f.item[i].prev_id = None
        /\ ~IsRev(f, s) => f.item[i].first_on_branch_id = s /\ f.item[i].lod = f.item[s].symbol
    <3>1. Linked(f, U) /\ Named(f)
      BY DEF Good
    <3>2. /\ s \in Ids(f) /\ (IsRev(f, s) => i = s /\ f.item[s].prev_id = None)
          /\ ~IsRev(f, s) => i = f.item[s].next_id
      BY <3>1, LodRevisions
    <3> QED BY <2>1, <3>1, <3>2, Surroundings
  <2>3. text[i] = None
    BY <2>1, <2>2 DEF Dead
  <2>4. \A j \in X : j # i => j \in Ids(f) /\ ~IsRev(f, j) /\ (j # s => f.item[j].source_id = i)
    BY <2>2, Surroundings DEF WithStart
  <2>5. \A j \in Ids(f) : IsRev(f, j) =>
          /\ f.item[j].next_id \notin X
          /\ f.item[j].next_id # None => f.item[j].next_id \in RevsOn(f, f.item[j].lod)
    BY <2>2, <2>4, Surroundings DEF RevsOn
  <2>6. SymbolsNamed(f, f.item[i].lod) \subseteq X
    <3>1. CASE IsRev(f, s)
      <4>1. i \in f.root
        BY <2>2, <3>1 DEF Linked, Roots
      <4> QED BY <2>2, <4>1, TrunkUnnamed DEF Rooted
    <3>2. CASE ~IsRev(f, s)
      BY <2>2, <3>2 DEF Named, SymbolsNamed, WithStart
    <3> QED BY <3>1, <3>2
  <2> HIDE DEF g, X, i
  <2>7. \A j \in X : IsRev(f, j) => SymbolsNamed(f, f.item[j].lod) \subseteq X
    BY <2>4, <2>6
  <2>8. ASSUME NEW x PROVE Harmless(f, X, text, x)
    <3>1. \A j \in Ids(f) : ~IsRev(f, j) => RevisionSource(f, j) = f.item[j].source_id
      BY <2>2, LinkedSources
    <3>2. CASE RevsOn(f, x) = {}
      <4>1. \A j \in SymbolsNamed(f, x) : j # s
        BY <2>2, <3>2 DEF RevsOn, SymbolsNamed
      <4> QED BY <2>2, <2>3, <2>4, <2>5, <3>1, <3>2, <4>1 DEF Harmless, SymbolsNamed
    <3>3. CASE RevsOn(f, x) # {}
      BY <2>2, <2>3, <2>4, <2>5, <2>6, <3>3 DEF Harmless, RevsOn
    <3> QED BY <3>2, <3>3
  <2>9. Stumps(g) /\ Carries(f, g, text, Symbols)
    BY <1>1, <2>1, <2>8, PrunedCarries
  <2>10. Rooted(g) /\ Dead(g, text)
    BY <1>1, <2>1, <2>7, PrunedRooted
  <2> QED BY <2>9, <2>10 DEF g
<1> QED BY <1>1, <1>2, <1>3

\* While symbols are excluded, the NTDB revisions that are to be grafted are
\* on an excluded LOD.
NtdbIn(f, E) == \A i \in Ids(f) : f.item[i].ntdbr => f.item[i].lod \in E

LEMMA ExcludesCarries ==
  ASSUME NEW f, NEW g, NEW U, NEW E, Good(f, U), Good(g, U), Excludes(f, g, E), Trunk \notin E,
         NEW text, Stumps(f)
  PROVE  /\ Stumps(g) /\ \A S : S \cap E = {} => Carries(f, g, text, S)
         /\ NtdbIn(f, E) => NtdbIn(g, E)
<1>1. PICK X : MayPrune(f, X) /\ Pruned(f, g, X) /\ \A i \in X : LodAt(f, i) \in E
  BY DEF Excludes
<1>2. ASSUME NEW x, x \notin E PROVE Harmless(f, X, text, x)
  <2>1. RevsOn(f, x) \cap X = {} /\ SymbolsNamed(f, x) \cap X = {}
    BY <1>1, <1>2 DEF LodAt, RevsOn, SymbolsNamed
  <2>2. \A i \in RevsOn(f, x) : f.item[i].next_id \notin X
    <3> SUFFICES ASSUME NEW i \in RevsOn(f, x), f.item[i].next_id \in X PROVE FALSE
      OBVIOUS
    <3>1. Linked(f, U) /\ None \notin X /\ i \in Ids(f) /\ IsRev(f, i)
      BY <1>1, Surroundings DEF Good, MayPrune, RevsOn
    <3>2. f.item[i].next_id \in RevsOn(f, x)
      BY <3>1, Surroundings DEF RevsOn
    <3> QED BY <2>1, <3>2
  <2> QED BY <2>1, <2>2 DEF Harmless
<1>3. ASSUME NEW S, S \cap E = {} PROVE Stumps(g) /\ Carries(f, g, text, S)
  BY <1>1, <1>2, <1>3, PrunedCarries
<1>4. NtdbIn(f, E) => NtdbIn(g, E)
  BY <1>1 DEF NtdbIn, Pruned, PrunedItem, Kept
<1>5. Stumps(g)
  <2>1. {} \cap E = {}
    OBVIOUS
  <2> QED BY <1>3, <2>1
<1> QED BY <1>3, <1>4, <1>5

LEMMA ExcludedFromCarries ==
  ASSUME NEW f, NEW U, NEW P, NEW E, NEW ntdbr, Excluding(f, U, P, E, ntdbr),
         NEW s \in LeafLods(f, P), NEW text, Stumps(f), ntdbr => NtdbIn(f, E)
  PROVE  LET g == ExcludeFrom(f, s, E)
         IN  /\ Stumps(g) /\ \A S : S \cap E = {} => Carries(f, g, text, S)
             /\ ntdbr \/ (LodAt(f, s) \in E /\ StartsWithNtdbr(f, s)) => NtdbIn(g, E)
<1> DEFINE g == ExcludeFrom(f, s, E)
<1>1. Good(f, U) /\ Trunk \notin E /\ P \subseteq Lods(f)
  BY DEF Excluding
<1>2. /\ Good(g, U)
      /\ \E h : Good(h, U) /\ Excludes(f, h, E) /\ (g = h \/ Excludes(h, g, E))
  BY ExcludedFrom DEF Excluding
<1>3. PICK h : Good(h, U) /\ Excludes(f, h, E) /\ (g = h \/ Excludes(h, g, E))
  BY <1>2
<1> HIDE DEF g
<1>4. /\ Stumps(h) /\ \A S : S \cap E = {} => Carries(f, h, text, S)
      /\ NtdbIn(f, E) => NtdbIn(h, E)
  BY <1>1, <1>3, ExcludesCarries
<1>5. /\ Stumps(g) /\ \A S : S \cap E = {} => Carries(h, g, text, S)
      /\ NtdbIn(h, E) => NtdbIn(g, E)
  <2>1. CASE g = h
    BY <1>4, <2>1 DEF Carries
  <2>2. CASE Excludes(h, g, E)
    BY <1>1, <1>2, <1>3, <1>4, <2>2, ExcludesCarries
  <2> QED BY <1>3, <2>1, <2>2
<1>6. LodAt(f, s) \in E /\ StartsWithNtdbr(f, s) => NtdbIn(f, E)
  <2>1. Linked(f, U) /\ NtdbLinked(f) /\ s \in Lods(f)
    BY <1>1 DEF Good, LeafLods
  <2> QED BY <2>1, LodNtdbrs, LodRevisions DEF NtdbIn
<1> QED BY <1>4, <1>5, <1>6 DEF Carries, g

LEMMA GraftCarries ==
  ASSUME NEW f, NEW U, NEW s, MayGraft(f, U, s), NEW text, Stumps(f),
         NEW E, NtdbIn(f, E), NEW S, S \cap E = {}, Trunk \notin S
  PROVE  LET g == GraftNtdbrToTrunk(f, s)
         IN  Stumps(g) /\ Carries(f, g, text, S)
<1> DEFINE g == GraftNtdbrToTrunk(f, s)
           R == Revisions(f, s)
           first == FirstRev(f, s)
           last == LastRev(f, s)
           a == f.item[first].prev_id
           b == f.item[last].ntdbr_next_id
<1>1. Good(f, U) /\ Good(g, U) /\ Linked(f, U) /\ Linked(g, U) /\ s \in Lods(f)
  BY Grafted DEF MayGraft, Good
<1>2. /\ Ids(g) = Ids(f) \ (IF IsRev(f, s) THEN {} ELSE {s})
      /\ g.root = f.root \ {b}
      /\ g = [item |-> g.item, root |-> g.root] /\ g.item = [j \in Ids(g) |-> g.item[j]]
      /\ \A j \in Ids(g) : g.item[j] \in ItemRecord(U) /\ GraftedItem(f, s, j, g.item[j])
  BY GraftItems
<1>3. /\ s \in Ids(f) /\ first \in R /\ last \in R /\ f.item[last].next_id = None
      /\ ~IsRev(f, s) => a # None /\ a = f.item[s].source_id
      /\ \A i \in R :
           /\ i \in Ids(f) /\ IsRev(f, i) /\ f.item[i].lod # Trunk /\ f.item[i].ntdbr
           /\ i # first => f.item[i].prev_id # None /\ f.item[i].first_on_branch_id = None
      /\ \A i \in Ids(f) : f.item[i].ntdbr => i \in R
      /\ a # None => a \in Ids(f) /\ f.item[a].lod = Trunk
      /\ b # None => b \in Ids(f) /\ IsRev(f, b) /\ f.item[b].lod = Trunk
      /\ None \notin Ids(f)
  BY <1>1, GraftFacts, Surroundings
<1>4. \A i \in R : f.item[i].next_id = None => i = last
  BY <1>1, LodRevisions, RevisionsOf
<1>5. ~IsRev(f, s) => f.item[s].symbol \in E
  BY <1>1, <1>3, LodRevisions DEF NtdbIn, LodAt
<1> HIDE DEF g, R, first, last, a, b
<1>6. /\ \A j \in Ids(f) : IsRev(f, j) => j \in Ids(g) /\ IsRev(g, j)
      /\ \A j \in Ids(g) :
           /\ j \in Ids(f) /\ (IsRev(g, j) <=> IsRev(f, j))
           /\ g.item[j].symbol = f.item[j].symbol /\ g.item[j].source_id = f.item[j].source_id
           /\ g.item[j].lod = (IF j \in R THEN Trunk ELSE f.item[j].lod) /\ g.item[j].ntdbr = FALSE
           /\ g.item[j].next_id = IF j = a THEN first ELSE IF j = last THEN b ELSE f.item[j].next_id
  BY <1>2 DEF GraftedItem, IsRev, R, first, last, a, b
<1>7. Stumps(g) /\ NtdbEnds(g) = {}
  BY <1>6 DEF Stumps, NtdbEnds
<1>8. ASSUME NEW x \in S, NEW c, Yields(f, text, x, c) PROVE Yields(g, text, x, c)
  <2>1. RevsOn(g, x) = RevsOn(f, x) /\ \A i \in RevsOn(f, x) : g.item[i].next_id = f.item[i].next_id
    BY <1>3, <1>6 DEF RevsOn, NtdbIn
  <2>2. SymbolsNamed(g, x) = SymbolsNamed(f, x)
    BY <1>2, <1>5, <1>6 DEF SymbolsNamed
  <2>3. \A i \in SymbolsNamed(f, x) : RevisionSource(g, i) = RevisionSource(f, i)
    <3>1. \A j \in Ids(f) : RevisionSource(f, j) = IF IsRev(f, j) THEN j ELSE f.item[j].source_id
      BY <1>1, LinkedSources
    <3>2. \A j \in Ids(g) : RevisionSource(g, j) = IF IsRev(g, j) THEN j ELSE g.item[j].source_id
      BY <1>1, LinkedSources
    <3> QED BY <1>6, <2>2, <3>1, <3>2 DEF SymbolsNamed
  <2> QED BY <1>8, <2>1, <2>2, <2>3 DEF Yields
<1>9. ASSUME NEW c, TrunkYields(f, text, c) PROVE TrunkYields(g, text, c)
  <2>1. first \in RevsOn(g, Trunk)
    BY <1>3, <1>6 DEF RevsOn
  <2>2. ASSUME NEW i \in RevsOn(g, Trunk), g.item[i].next_id = None PROVE text[i] = c
    <3>1. i \in Ids(f) /\ IsRev(f, i) /\ i # a
      BY <1>3, <1>6, <2>2 DEF RevsOn
    <3>2. CASE i \in R
      <4>1. i = last /\ b = None
        BY <1>3, <1>4, <1>6, <2>2, <3>1, <3>2 DEF RevsOn
      <4>2. i \in NtdbEnds(f)
        BY <1>3, <3>1, <3>2, <4>1 DEF NtdbEnds, b
      <4> QED BY <1>9, <4>2 DEF TrunkYields
    <3>3. CASE i \notin R
      <4>1. i \in RevsOn(f, Trunk) /\ f.item[i].next_id = None
        BY <1>3, <1>6, <2>2, <3>1, <3>3 DEF RevsOn
      <4>2. NtdbEnds(f) = {}
        <5> SUFFICES ASSUME NtdbEnds(f) # {} PROVE FALSE
          OBVIOUS
        <5>1. PICK t \in Ids(f) : IsNtdbStart(f, t) /\ f.item[t].prev_id = i
          BY <4>1 DEF Stumps
        <5>2. t = first
          BY <1>3, <3>1, <5>1 DEF IsNtdbStart
        <5> QED BY <3>1, <5>1, <5>2 DEF a
      <4> QED BY <1>9, <4>1, <4>2 DEF TrunkYields, Yields
    <3> QED BY <3>2, <3>3
  <2> QED BY <1>7, <2>1, <2>2 DEF TrunkYields, Yields
<1> QED BY <1>7, <1>8, <1>9 DEF Carries, g

LEMMA GraftedIfExcludedCarries ==
  ASSUME NEW f, NEW U, NEW P, NEW E, NEW ntdbr, Excluding(f, U, P, E, ntdbr),
         NEW text, Stumps(f), ntdbr => NtdbIn(f, E), NEW S, S \cap E = {}, Trunk \notin S
  PROVE  LET g == GraftIfExcluded(f, ntdbr)
         IN  Stumps(g) /\ Carries(f, g, text, S)
<1> DEFINE ntdbs == {s \in Lods(f) : StartsWithNtdbr(f, s)}
<1>1. CASE ~(ntdbr /\ ntdbs # {})
  BY <1>1 DEF GraftIfExcluded, Carries
<1>2. CASE ntdbr /\ ntdbs # {}
  <2>1. PICK s \in ntdbs : GraftIfExcluded(f, ntdbr) = GraftNtdbrToTrunk(f, s)
    BY <1>2 DEF GraftIfExcluded
  <2>2. MayGraft(f, U, s)
    BY <1>2 DEF MayGraft, Excluding
  <2> QED BY <1>2, <2>1, <2>2, GraftCarries
<1> QED BY <1>1, <1>2

-----------------------------------------------------------------------------
(***************************************************************************)
(* What a checkout yields once the revisions of CVS's default branch are   *)
(* marked.                                                                 *)
(***************************************************************************)
\* The first revisions on a branch have one end.
LEMMA PrefixEnds ==
  ASSUME NEW f, NEW b, Walkable(f), MayStart(f, b), NEW H, H \subseteq Revisions(f, b),
         \A i \in Revisions(f, b) : f.item[i].next_id \in H => i \in H
  PROVE  \A i, j \in H : f.item[i].next_id \notin H /\ f.item[j].next_id \notin H => i = j
<1> SUFFICES ASSUME NEW i \in H, f.item[i].next_id \notin H, NEW j \in H, f.item[j].next_id \notin H
             PROVE  i = j
  OBVIOUS
<1> DEFINE R == Revisions(f, b)
           from == FirstRev(f, b)
           S == {k \in R : k \in H => i \in Revisions(f, k)}
           T == {j} \cup (R \ H)
<1>1. /\ R \subseteq {k \in Ids(f) : IsRev(f, k)} /\ from \in R
      /\ \A k \in R : f.item[k].next_id # None => f.item[k].next_id \in R
  BY RevisionsOf
<1>2. \A k \in R : MayStart(f, k) /\ FirstRev(f, k) = k
  BY <1>1 DEF MayStart, FirstRev
<1>3. None \notin Ids(f)
  BY DEF Walkable
<1>4. \A k \in R : /\ k \in Revisions(f, k)
                   /\ \A l \in Revisions(f, k) :
                        f.item[l].next_id # None => f.item[l].next_id \in Revisions(f, k)
  BY <1>1, <1>2, <1>3, RevisionsOf
<1>5. from \in S
  <2>1. R \subseteq Revisions(f, from)
    <3>1. None \notin R
      BY <1>1, <1>3
    <3> HIDE DEF R, from
    <3>2. \A k \in Revisions(f, from) :
            f.item[k].next_id \in R => f.item[k].next_id \in Revisions(f, from)
      BY <1>1, <1>4, <3>1
    <3> QED BY <1>1, <1>4, <3>2, RevisionsLeast DEF R, from
  <2> QED BY <1>1, <2>1
<1>6. ASSUME NEW k \in S, f.item[k].next_id \in R PROVE f.item[k].next_id \in S
  <2> DEFINE n == f.item[k].next_id
  <2> SUFFICES ASSUME n \in H PROVE i \in Revisions(f, n)
    BY <1>6
  <2>1. k \in H /\ i \in Revisions(f, k) /\ i # k
    BY <1>6
  <2>2. Revisions(f, k) \subseteq {k} \cup Revisions(f, n)
    <3>1. /\ FirstRev(f, k) = k /\ MayStart(f, k) /\ None \notin Revisions(f, k)
          /\ n \in Revisions(f, n)
          /\ \A l \in Revisions(f, n) :
               f.item[l].next_id # None => f.item[l].next_id \in Revisions(f, n)
      <4>1. None \notin Revisions(f, k)
        BY <1>2, <1>3, RevisionsOf
      <4> QED BY <1>2, <1>4, <1>6, <4>1
    <3>2. \A l \in {k} \cup Revisions(f, n) :
            f.item[l].next_id \in Revisions(f, k) => f.item[l].next_id \in {k} \cup Revisions(f, n)
      BY <3>1
    <3> QED BY <3>1, <3>2, RevisionsLeast
  <2> QED BY <2>1, <2>2
<1>7. R \subseteq S
  BY <1>5, <1>6, RevisionsLeast
<1>8. i \in Revisions(f, j)
  BY <1>7
<1>9. Revisions(f, j) \subseteq T
  <2>1. None \notin Revisions(f, j)
    BY <1>2, <1>3, RevisionsOf
  <2>2. \A l \in T : f.item[l].next_id \in Revisions(f, j) => f.item[l].next_id \in T
    BY <1>1, <2>1
  <2>3. MayStart(f, j) /\ FirstRev(f, j) \in T
    BY <1>2
  <2> HIDE DEF T
  <2> QED BY <2>2, <2>3, RevisionsLeast
<1> QED BY <1>8, <1>9

\* What is known of a file before symbols are excluded.
Settled(f, text) == Stumps(f) /\ Rooted(f) /\ Dead(f, text)

LEMMA FreshSettled ==
  ASSUME NEW p \in Parsed, NEW f, f = ParsedFile(p)
  PROVE  /\ Settled(f, Texts(p)) /\ NtdbEnds(f) = {}
         /\ \A i \in f.root : f.item[i].lod = Trunk
<1>1. /\ ParsedLinks(f) /\ Ids(f) = DOMAIN p.item /\ f.item = p.item
      /\ \A i \in Ids(f) : ~f.item[i].ntdbr
  BY ParsedFacts, ParsedLinked
<1>2. NtdbEnds(f) = {} /\ Stumps(f)
  BY <1>1 DEF NtdbEnds, Stumps
<1>3. \A i \in f.root : f.item[i].lod = Trunk
  BY <1>1 DEF ParsedLinks
<1>4. Dead(f, Texts(p))
  BY <1>1, TextsOf DEF Dead
<1> QED BY <1>2, <1>3, <1>4 DEF Rooted, Settled

LEMMA MarkedSettled ==
  ASSUME NEW p \in Parsed, NEW f, f = ParsedFile(p),
         NEW b \in {p.default_branch, p.vendor_branch}, b \in Ids(f),
         NEW H, H \subseteq Revisions(f, b), H # {},
         \A i \in Revisions(f, b) : f.item[i].next_id \in H => i \in H,
         f.item[f.item[b].source_id].next_id = None => H = Revisions(f, b)
  PROVE  LET g == AdjustNtdbrs(f, b, H)
             next == f.item[f.item[b].source_id].next_id
         IN  /\ Settled(g, Texts(p)) /\ SameLods(f, g)
             /\ \A i \in g.root : g.item[i].lod = Trunk
             /\ next = None <=> NtdbEnds(g) # {}
             /\ \A i \in NtdbEnds(g) : i \in RevsOn(f, f.item[b].symbol) /\ f.item[i].next_id = None
<1> DEFINE U == DOMAIN p.item
           g == AdjustNtdbrs(f, b, H)
           a == f.item[b].source_id
           first == f.item[b].next_id
           next == f.item[a].next_id
           last == CHOOSE i \in H : f.item[i].next_id \notin H
           text == Texts(p)
<1>1. MayAdjustNtdbrs(f, U, b, H)
  BY ParsedAdjusts
<1>2. Good(f, U) /\ Linked(f, U) /\ Fresh(f) /\ IsBranch(f, b) /\ f.item[a].lod = Trunk /\ b \in Lods(f)
  BY <1>1 DEF MayAdjustNtdbrs, Good, Lods
<1>3. Between(f, b, H, a, first, next, last)
  BY <1>1, AdjustFacts
<1>4. Good(g, U) /\ Linked(g, U)
  BY <1>1, NtdbrsAdjusted DEF Good
<1>5. /\ Ids(g) = Ids(f) /\ g.root = f.root
      /\ g = [item |-> g.item, root |-> g.root] /\ g.item = [j \in Ids(g) |-> g.item[j]]
      /\ \A j \in Ids(g) : g.item[j] \in ItemRecord(U) /\ AdjustedItem(f, b, H, j, g.item[j])
  BY <1>1, AdjustedItems
<1>6. \A j \in Ids(f) :
        /\ IsRev(g, j) <=> IsRev(f, j)
        /\ g.item[j].live = f.item[j].live
        /\ g.item[j].lod = f.item[j].lod /\ g.item[j].symbol = f.item[j].symbol
        /\ g.item[j].next_id = f.item[j].next_id /\ g.item[j].prev_id = f.item[j].prev_id
        /\ g.item[j].first_on_branch_id = f.item[j].first_on_branch_id
        /\ g.item[j].source_id = f.item[j].source_id
        /\ g.item[j].ntdbr <=> j \in H
        /\ g.item[j].ntdbr_next_id = IF j = last THEN next ELSE None
  <2> SUFFICES ASSUME NEW j \in Ids(f) PROVE
        /\ SameButNtdbrs(f.item[j], g.item[j]) /\ g.item[j].ntdbr = (j \in H)
        /\ g.item[j].ntdbr_next_id = IF j = last THEN next ELSE None
    BY DEF SameButNtdbrs, IsRev
  <2> QED BY <1>5 DEF AdjustedItem
<1>7. /\ Walkable(f) /\ MayStart(f, b) /\ None \notin H /\ LastRev(f, b) \in Revisions(f, b)
      /\ f.item[LastRev(f, b)].next_id = None
      /\ \A i \in H : i \in RevsOn(f, f.item[b].symbol)
  <2>1. /\ Walkable(f) /\ MayStart(f, b) /\ ~IsRev(f, b)
        /\ \A i \in Revisions(f, b) : i \in Ids(f) /\ IsRev(f, i) /\ f.item[i].lod = LodAt(f, b)
    BY <1>2, LodRevisions DEF IsRev, IsBranch
  <2>2. LastRev(f, b) \in Revisions(f, b) /\ f.item[LastRev(f, b)].next_id = None
    BY <2>1, RevisionsOf
  <2> QED BY <2>1, <2>2 DEF LodAt, RevsOn, Walkable
<1> HIDE DEF U, g, a, first, next, last, text
<1>8. ASSUME NEW i \in H, f.item[i].next_id \notin H PROVE i = last
  <2>1. last \in H /\ f.item[last].next_id \notin H
    BY <1>3 DEF Between
  <2>2. \A k, l \in H : f.item[k].next_id \notin H /\ f.item[l].next_id \notin H => k = l
    BY <1>7, PrefixEnds
  <2> QED BY <1>8, <2>1, <2>2
<1>9. SameLods(f, g)
  <2>1. \A j \in Ids(f) : RevisionSource(f, j) = IF IsRev(f, j) THEN j ELSE f.item[j].source_id
    BY <1>2, LinkedSources
  <2>2. \A j \in Ids(g) : RevisionSource(g, j) = IF IsRev(g, j) THEN j ELSE g.item[j].source_id
    BY <1>4, LinkedSources
  <2> QED BY <1>5, <1>6, <2>1, <2>2 DEF SameLods
<1>10. NtdbEnds(g) = {i \in H : f.item[i].next_id = None /\ (i = last => next = None)}
  <2>1. \A i \in H : i \in Ids(f) /\ IsRev(f, i)
    BY <1>3 DEF Between
  <2> QED BY <1>5, <1>6, <2>1 DEF NtdbEnds
<1>11. next = None <=> NtdbEnds(g) # {}
  <2>1. next = None => LastRev(f, b) \in H
    BY <1>7 DEF next, a
  <2> QED BY <1>7, <1>8, <1>10, <2>1
<1>12. \A i \in NtdbEnds(g) : i \in RevsOn(f, f.item[b].symbol) /\ f.item[i].next_id = None
  BY <1>7, <1>10
<1>13. Stumps(g)
  <2>1. ASSUME NtdbEnds(g) # {}, NEW i \in RevsOn(g, Trunk), g.item[i].next_id = None
        PROVE  \E t \in Ids(g) : IsNtdbStart(g, t) /\ g.item[t].prev_id = i
    <3>1. i \in RevsOn(f, Trunk) /\ f.item[i].next_id = None
      BY <1>9, <2>1 DEF SameLods, RevsOn
    <3>2. a \in RevsOn(f, Trunk) /\ f.item[a].next_id = None
      BY <1>2, <1>3, <1>11, <2>1 DEF Between, RevsOn, next
    <3>3. i = a
      BY <3>1, <3>2, ParsedEnds
    <3>4. /\ first \in Ids(g) /\ g.item[first].ntdbr /\ g.item[first].prev_id = a
          /\ g.item[first].first_on_branch_id # None
      <4>1. /\ first \in H /\ first \in Ids(f) /\ f.item[first].first_on_branch_id = b
            /\ f.item[first].prev_id = a
        BY <1>3 DEF Between
      <4>2. b # None
        BY <1>7 DEF Walkable
      <4> QED BY <1>5, <1>6, <4>1, <4>2
    <3> QED BY <3>3, <3>4 DEF IsNtdbStart
  <2>2. ASSUME NEW i \in Ids(g), g.item[i].ntdbr, g.item[i].next_id # None,
               ~g.item[g.item[i].next_id].ntdbr
        PROVE  g.item[i].ntdbr_next_id # None
    <3>1. i \in H /\ g.item[i].next_id = f.item[i].next_id
      BY <1>5, <1>6, <2>2
    <3>2. f.item[i].next_id \in Ids(f) /\ f.item[i].next_id \in Revisions(f, b)
      <4>1. f.item[i].next_id \in Revisions(f, b)
        BY <1>7, <2>2, <3>1, RevisionsOf
      <4> QED BY <1>7, <4>1, RevisionsOf
    <3>3. f.item[i].next_id \notin H
      BY <1>6, <2>2, <3>1, <3>2
    <3>4. i = last /\ next # None
      BY <1>8, <3>1, <3>2, <3>3 DEF next, a
    <3> QED BY <1>5, <1>6, <2>2, <3>4
  <2> QED BY <2>1, <2>2 DEF Stumps
<1>14. \A i \in g.root : g.item[i].lod = Trunk
  <2>1. \A i \in f.root : f.item[i].lod = Trunk /\ i \in Ids(f)
    BY <1>2, FreshSettled DEF Linked, Roots
  <2> QED BY <1>5, <1>6, <2>1
<1>15. Dead(g, text)
  <2>1. Dead(f, text)
    BY FreshSettled DEF Settled, text
  <2> QED BY <1>5, <1>6, <2>1 DEF Dead
<1> QED BY <1>9, <1>11, <1>12, <1>13, <1>14, <1>15 DEF Settled, Rooted, g, next, a, text

\* imported_remove_1_1() takes away a revision whose content the first one
\* on the vendor branch repeats.
LEMMA RemovedSettled ==
  ASSUME NEW f, NEW U, NEW b, MayRemove11(f, U, b), RepeatsSource(f, b),
         \A i \in f.root : f.item[i].lod = Trunk,
         NEW text, text[f.item[b].next_id] = text[f.item[b].source_id], Settled(f, text),
         f.item[f.item[b].source_id].next_id = None => NtdbEnds(f) # {}
  PROVE  LET g == ImportedRemove11(f, b)
         IN  Settled(g, text) /\ Carries(f, g, text, Symbols)
<1> DEFINE g == ImportedRemove11(f, b)
           a == f.item[b].source_id
           first == f.item[b].next_id
           next == f.item[a].next_id
<1>1. /\ Good(f, U) /\ Good(g, U) /\ Linked(f, U) /\ Linked(g, U) /\ Named(f) /\ NtdbLinked(f)
      /\ b \in Ids(f) /\ f.item[first].ntdbr /\ f.item[a].prev_id = None
  BY ImportedRemoved DEF Good, MayRemove11
<1>2. Importing(f, b, a, first, next)
  BY ImportFacts
<1>3. /\ Ids(g) = Ids(f) \ {a, b}
      /\ g.root = ((f.root \cup {f.item[b].next_id}) \ {a}) \cup ({next} \ {None})
      /\ g = [item |-> g.item, root |-> g.root] /\ g.item = [j \in Ids(g) |-> g.item[j]]
      /\ \A j \in Ids(g) : g.item[j] \in ItemRecord(U) /\ RemovedItem(f, b, j, g.item[j])
  BY RemovedItems
<1>4. \A j \in Ids(g) :
        /\ j \in Ids(f) /\ j # a /\ j # b
        /\ IsRev(g, j) <=> IsRev(f, j)
        /\ g.item[j].live = f.item[j].live
        /\ g.item[j].lod = f.item[j].lod /\ g.item[j].symbol = f.item[j].symbol
        /\ g.item[j].ntdbr = f.item[j].ntdbr /\ g.item[j].ntdbr_next_id = f.item[j].ntdbr_next_id
        /\ g.item[j].next_id = f.item[j].next_id
        /\ g.item[j].source_id = IF f.item[j].source_id = a THEN first ELSE f.item[j].source_id
  BY <1>3 DEF RemovedItem, SamePlaceInTime, IsRev
<1>5. /\ ~IsRev(f, b) /\ a \in Ids(f) /\ IsRev(f, a) /\ ~f.item[a].ntdbr
      /\ first \in Ids(g) /\ IsRev(f, first) /\ f.item[first].lod = f.item[b].symbol
      /\ f.item[a].lod = Trunk /\ f.item[first].lod # Trunk
      /\ next # None => next \in Ids(g) /\ next \in RevsOn(f, Trunk)
  <2>1. /\ ~IsRev(f, b) /\ a \in Ids(f) /\ IsRev(f, a) /\ a # first /\ a # next
        /\ first \in Ids(f) /\ IsRev(f, first) /\ first # None
        /\ f.item[first].first_on_branch_id = b /\ f.item[first].prev_id = a /\ ~f.item[a].ntdbr
        /\ next # None => next \in Ids(f) /\ IsRev(f, next)
        /\ b # None
    BY <1>2 DEF Importing
  <2>2. f.item[first].lod = f.item[b].symbol /\ (next # None => f.item[next].lod = f.item[a].lod)
    <3>1. f.item[b].next_id # None /\ ~IsRev(f, b) => f.item[f.item[b].next_id].lod = f.item[b].symbol
      BY <1>1, Surroundings
    <3>2. f.item[a].next_id # None /\ IsRev(f, a) => f.item[f.item[a].next_id].lod = f.item[a].lod
      <4>1. a \in Ids(f)
        BY <2>1
      <4> HIDE DEF a
      <4> QED BY <1>1, <4>1, Surroundings
    <3> QED BY <2>1, <3>1, <3>2
  <2>3. IsNtdbStart(f, first)
    BY <1>1, <2>1 DEF IsNtdbStart
  <2>4. f.item[a].lod = Trunk /\ f.item[first].lod # Trunk
    <3>1. a # None
      BY <1>1, <2>1, Surroundings
    <3> QED BY <1>1, <2>1, <2>3, <3>1 DEF NtdbLinked, NtdbStarts, NtdbrsFirst
  <2> QED BY <1>3, <2>1, <2>2, <2>4 DEF RevsOn
<1> HIDE DEF g, a, first, next
<1>6. NtdbEnds(g) = NtdbEnds(f)
  BY <1>3, <1>4, <1>5 DEF NtdbEnds
<1>7. /\ \A x : RevsOn(g, x) = RevsOn(f, x) \ {a}
      /\ \A x : SymbolsNamed(g, x) = SymbolsNamed(f, x) \ {b}
  BY <1>3, <1>4, <1>5 DEF RevsOn, SymbolsNamed
<1>8. Stumps(g)
  <2>1. ASSUME NtdbEnds(g) # {}, NEW i \in RevsOn(g, Trunk), g.item[i].next_id = None
        PROVE  FALSE
    <3>1. i \in RevsOn(f, Trunk) /\ i \in Ids(g) /\ f.item[i].next_id = None
      BY <1>4, <1>7, <2>1 DEF RevsOn
    <3>2. PICK t \in Ids(f) : IsNtdbStart(f, t) /\ f.item[t].prev_id = i
      BY <1>6, <2>1, <3>1 DEF Settled, Stumps
    <3>3. t = first /\ f.item[first].prev_id = a
      BY <1>2, <3>2 DEF Importing
    <3> QED BY <1>4, <3>1, <3>2, <3>3
  <2>2. ASSUME NEW i \in Ids(g), g.item[i].ntdbr, g.item[i].next_id # None,
               ~g.item[g.item[i].next_id].ntdbr
        PROVE  g.item[i].ntdbr_next_id # None
    <3>1. i \in Ids(f) /\ f.item[i].ntdbr /\ g.item[i].next_id = f.item[i].next_id
      BY <1>4, <2>2
    <3>2. IsRev(f, i)
      BY <1>1, <3>1 DEF Linked, Classes
    <3>3. f.item[i].next_id \in Ids(f) /\ IsRev(f, f.item[i].next_id) /\ f.item[f.item[i].next_id].prev_id = i
      BY <1>1, <2>2, <3>1, <3>2, Surroundings
    <3>4. f.item[i].next_id \in Ids(g)
      <4>1. i # None
        BY <1>1, <3>1, Surroundings
      <4> QED BY <1>1, <1>3, <1>5, <3>3, <4>1 DEF a
    <3> QED BY <1>4, <2>2, <3>1, <3>4 DEF Settled, Stumps
  <2> QED BY <2>1, <2>2 DEF Stumps
<1>9. Rooted(g)
  <2> SUFFICES ASSUME NEW i \in g.root, g.item[i].lod # Trunk
               PROVE  SymbolsNamed(g, g.item[i].lod) = {}
    BY DEF Rooted
  <2>1. i \in Ids(g)
    BY <1>1 DEF Linked, Roots
  <2>2. i = first
    BY <1>3, <1>4, <1>5, <2>1 DEF RevsOn, first
  <2>3. SymbolsNamed(f, f.item[first].lod) \subseteq {b}
    BY <1>1, <1>5 DEF Named, SymbolsNamed
  <2> QED BY <1>4, <1>7, <2>1, <2>2, <2>3
<1>10. Dead(g, text)
  BY <1>4 DEF Dead, Settled
<1>11. ASSUME NEW c, TrunkYields(f, text, c) PROVE TrunkYields(g, text, c)
  <2>1. CASE NtdbEnds(f) # {}
    BY <1>6, <1>11, <2>1 DEF TrunkYields
  <2>2. CASE NtdbEnds(f) = {}
    <3>1. next \in RevsOn(g, Trunk)
      <4>1. next # None
        BY <2>2 DEF next, a
      <4> QED BY <1>4, <1>5, <1>7, <4>1
    <3>2. \A i \in RevsOn(g, Trunk) : i \in RevsOn(f, Trunk) /\ g.item[i].next_id = f.item[i].next_id
      BY <1>4, <1>7 DEF RevsOn
    <3> QED BY <1>6, <1>11, <2>2, <3>1, <3>2 DEF TrunkYields, Yields
  <2> QED BY <2>1, <2>2
<1>12. ASSUME NEW x \in Symbols, NEW c, Yields(f, text, x, c) PROVE Yields(g, text, x, c)
  <2>1. RevsOn(g, x) = RevsOn(f, x)
    <3>1. a \notin RevsOn(f, x)
      BY <1>5, NamesAssumption DEF RevsOn
    <3> QED BY <1>7, <3>1
  <2>2. CASE RevsOn(f, x) # {}
    <3>1. \A i \in RevsOn(g, x) : g.item[i].next_id = f.item[i].next_id
      BY <1>4 DEF RevsOn
    <3> QED BY <1>12, <2>1, <2>2, <3>1 DEF Yields
  <2>3. CASE RevsOn(f, x) = {}
    <3>1. SymbolsNamed(g, x) = SymbolsNamed(f, x)
      <4>1. b \notin SymbolsNamed(f, x)
        BY <1>4, <1>5, <2>3 DEF RevsOn, SymbolsNamed
      <4> QED BY <1>7, <4>1
    <3>2. \A j \in Ids(f) : RevisionSource(f, j) = IF IsRev(f, j) THEN j ELSE f.item[j].source_id
      BY <1>1, LinkedSources
    <3>3. \A j \in Ids(g) : RevisionSource(g, j) = IF IsRev(g, j) THEN j ELSE g.item[j].source_id
      BY <1>1, LinkedSources
    <3>4. \A j \in SymbolsNamed(g, x) : text[RevisionSource(g, j)] = text[RevisionSource(f, j)]
      BY <1>4, <3>2, <3>3 DEF SymbolsNamed, first, a
    <3> QED BY <1>12, <2>1, <2>3, <3>1, <3>4 DEF Yields
  <2> QED BY <2>2, <2>3
<1> QED BY <1>8, <1>9, <1>10, <1>11, <1>12 DEF Settled, Carries, g

\* What a checkout of x yields in the file as it was parsed, and one of trunk,
\* where CVS takes the default branch instead.
Expected(p, x) == Found(ParsedFile(p), Texts(p), x)
TrunkExpected(p) ==
  LET b == DefaultBranch(p)
  IN  Expected(p, IF b \in DOMAIN p.item /\ p.item[b].next_id # None THEN p.item[b].symbol ELSE Trunk)

\* The file yields all of it, except the symbols X.
ContentOf(p, f, X) ==
  /\ TrunkYields(f, Texts(p), TrunkExpected(p))
  /\ \A x \in Symbols \ X : Yields(f, Texts(p), x, Expected(p, x))

LEMMA NtdbSettled ==
  ASSUME NEW p \in Parsed, NEW f, f = ParsedFile(p),
         NEW b \in {p.default_branch, p.vendor_branch}, b \in Ids(f),
         NEW H, H \subseteq Revisions(f, b), H # {},
         \A i \in Revisions(f, b) : f.item[i].next_id \in H => i \in H,
         f.item[f.item[b].source_id].next_id = None => H = Revisions(f, b),
         NEW g, g = AdjustNtdbrs(f, b, H)
                  \/ (p.file_imported /\ g = ImportedRemove11(AdjustNtdbrs(f, b, H), b)),
         TrunkExpected(p) = Expected(p, IF f.item[f.item[b].source_id].next_id = None
                                        THEN f.item[b].symbol ELSE Trunk)
  PROVE  Settled(g, Texts(p)) /\ ContentOf(p, g, {})
<1> DEFINE U == DOMAIN p.item
           h == AdjustNtdbrs(f, b, H)
           a == f.item[b].source_id
           first == f.item[b].next_id
           next == f.item[a].next_id
           text == Texts(p)
<1>1. /\ Settled(h, text) /\ SameLods(f, h)
      /\ \A i \in h.root : h.item[i].lod = Trunk
      /\ next = None <=> NtdbEnds(h) # {}
      /\ \A i \in NtdbEnds(h) : i \in RevsOn(f, f.item[b].symbol) /\ f.item[i].next_id = None
  <2>1. /\ f = ParsedFile(p) /\ b \in {p.default_branch, p.vendor_branch} /\ b \in Ids(f)
        /\ H \subseteq Revisions(f, b) /\ H # {}
        /\ \A i \in Revisions(f, b) : f.item[i].next_id \in H => i \in H
        /\ f.item[f.item[b].source_id].next_id = None => H = Revisions(f, b)
    OBVIOUS
  <2> QED BY <2>1, MarkedSettled
<1>2. MayAdjustNtdbrs(f, U, b, H)
  BY ParsedAdjusts
<1>3. /\ Good(h, U) /\ b \in Ids(h) /\ IsBranch(h, b) /\ StartsWithNtdbr(h, b)
      /\ FirstRev(h, b) = h.item[b].next_id
      /\ h.item[b].source_id = f.item[b].source_id
      /\ h.item[h.item[b].source_id].prev_id = None
      /\ h.item[h.item[b].source_id].live = f.item[f.item[b].source_id].live
  BY <1>2, NtdbrsAdjusted
<1>4. /\ first \in Ids(f) /\ IsRev(f, first) /\ f.item[first].prev_id = a /\ a \in Ids(f)
      /\ None \notin Ids(f)
  <2>1. None \notin Ids(f)
    BY <1>2, Surroundings DEF MayAdjustNtdbrs, Good
  <2>2. Between(f, b, H, a, first, next, CHOOSE i \in H : f.item[i].next_id \notin H)
    BY <1>2, AdjustFacts
  <2> QED BY <2>1, <2>2 DEF Between
<1>5. /\ h.item[first].live = f.item[first].live
      /\ h.item[first].deltatext_exists = f.item[first].deltatext_exists
      /\ h.item[b].next_id = first /\ h.item[a].next_id = next
  <2>1. /\ Ids(h) = Ids(f) /\ h.root = f.root
        /\ h = [item |-> h.item, root |-> h.root] /\ h.item = [j \in Ids(h) |-> h.item[j]]
        /\ \A j \in Ids(h) : h.item[j] \in ItemRecord(U) /\ AdjustedItem(f, b, H, j, h.item[j])
    BY <1>2, AdjustedItems
  <2> HIDE DEF h
  <2>2. \A j \in Ids(f) : SameButNtdbrs(f.item[j], h.item[j])
    BY <2>1 DEF AdjustedItem
  <2> QED BY <1>4, <2>2 DEF SameButNtdbrs
<1> HIDE DEF U, h, a, first, next, text
<1>6. \A x : Yields(f, text, x, Expected(p, x))
  BY ParsedYields DEF Expected, text
<1>7. \A x : Yields(h, text, x, Expected(p, x))
  BY <1>1, <1>6, SameYields
<1>8. TrunkYields(h, text, TrunkExpected(p))
  <2>1. CASE next = None
    <3>1. \A i \in NtdbEnds(h) : text[i] = Expected(p, f.item[b].symbol)
      BY <1>1, <1>6 DEF Yields
    <3>2. TrunkExpected(p) = Expected(p, f.item[b].symbol)
      BY <2>1 DEF next, a
    <3> QED BY <1>1, <2>1, <3>1, <3>2 DEF TrunkYields
  <2>2. CASE next # None
    <3>1. TrunkExpected(p) = Expected(p, Trunk)
      BY <2>2 DEF next, a
    <3> QED BY <1>1, <1>7, <2>2, <3>1 DEF TrunkYields
  <2> QED BY <2>1, <2>2
<1>9. CASE g = h
  BY <1>1, <1>7, <1>8, <1>9 DEF ContentOf, text
<1>10. CASE g # h
  <2>1. g = ImportedRemove11(h, b) /\ p.file_imported
    BY <1>10 DEF h
  <2>2. RepeatsSource(h, b)
    BY <1>10, <2>1 DEF ImportedRemove11
  <2>3. MayRemove11(h, U, b)
    <3>1. h.item[b].next_id # None /\ h.item[h.item[b].next_id].ntdbr
      BY <1>3 DEF StartsWithNtdbr
    <3>2. h.item[h.item[b].source_id].live
      BY <1>3, <2>1, ParsedBranch
    <3> QED BY <1>3, <2>2, <3>1, <3>2 DEF MayRemove11, RepeatsSource
  <2>4. text[first] = text[a]
    <3>1. f.item[first].live /\ ~f.item[first].deltatext_exists
      BY <1>5, <2>2 DEF RepeatsSource
    <3>2. f.item = p.item /\ first \in DOMAIN p.item
      BY <1>4, ParsedFacts
    <3>3. Texts(p)[first] = IF ~p.item[first].live THEN None
                            ELSE IF p.item[first].deltatext_exists \/ p.item[first].prev_id = None
                                 THEN first ELSE Texts(p)[p.item[first].prev_id]
      BY <3>2, TextsOf
    <3> QED BY <1>4, <3>1, <3>2, <3>3 DEF text
  <2>5. Settled(g, text) /\ Carries(h, g, text, Symbols)
    <3>1. text[h.item[b].next_id] = text[h.item[b].source_id]
      BY <1>3, <1>5, <2>4 DEF a
    <3>2. h.item[h.item[b].source_id].next_id = None => NtdbEnds(h) # {}
      BY <1>1, <1>3, <1>5 DEF a
    <3> QED BY <1>1, <2>1, <2>2, <2>3, <3>1, <3>2, RemovedSettled
  <2> QED BY <1>7, <1>8, <2>5 DEF Carries, ContentOf, text
<1> QED BY <1>9, <1>10

\* A file without NTDB revisions.
LEMMA FreshContent ==
  ASSUME NEW p \in Parsed, NEW f, f = ParsedFile(p), TrunkExpected(p) = Expected(p, Trunk)
  PROVE  Settled(f, Texts(p)) /\ ContentOf(p, f, {})
<1>1. Settled(f, Texts(p)) /\ NtdbEnds(f) = {}
  BY FreshSettled
<1>2. \A x : Yields(f, Texts(p), x, Expected(p, x))
  BY ParsedYields DEF Expected
<1> QED BY <1>1, <1>2 DEF ContentOf, TrunkYields

\* The revisions of a branch are none if and only if the branch has no next_id.
LEMMA BranchRevisions ==
  ASSUME NEW f, NEW U, Linked(f, U), NEW b \in Ids(f), IsBranch(f, b)
  PROVE  Revisions(f, b) = {} <=> f.item[b].next_id = None
<1>1. b \in Lods(f) /\ ~IsRev(f, b)
  BY DEF Lods, IsRev, IsBranch
<1>2. Walkable(f) /\ MayStart(f, b) /\ FirstRev(f, b) = f.item[b].next_id
  BY <1>1, LodRevisions
<1> QED BY <1>2, RevisionsOf

LEMMA LiveSettled ==
  ASSUME NEW p \in Parsed, NEW f, f = ParsedFile(p), p.default_branch \in Ids(f),
         f.item[f.item[p.default_branch].source_id].next_id = None
  PROVE  LET g == LiveNtdbProcessed(f, p.default_branch, p.file_imported)
         IN  Settled(g, Texts(p)) /\ ContentOf(p, g, {})
<1> DEFINE b == p.default_branch
           H == Revisions(f, b)
           g == LiveNtdbProcessed(f, b, p.file_imported)
<1>1. Ids(f) = DOMAIN p.item /\ f.item = p.item /\ Linked(f, DOMAIN p.item) /\ None \notin Ids(f)
  BY ParsedFacts, ParsedLinked, Surroundings
<1>2. IsBranch(f, b)
  BY ParsedBranch
<1>3. H = {} <=> f.item[b].next_id = None
  BY <1>1, <1>2, BranchRevisions
<1>4. DefaultBranch(p) = b
  BY <1>1 DEF DefaultBranch
<1>5. CASE H = {}
  <2>1. TrunkExpected(p) = Expected(p, Trunk)
    BY <1>1, <1>3, <1>4, <1>5 DEF TrunkExpected
  <2>2. g = f
    BY <1>5 DEF LiveNtdbProcessed
  <2> QED BY <2>1, <2>2, FreshContent
<1>6. CASE H # {}
  <2>1. TrunkExpected(p) = Expected(p, f.item[b].symbol)
    BY <1>1, <1>3, <1>4, <1>6 DEF TrunkExpected
  <2>2. g = IF p.file_imported THEN ImportedRemove11(AdjustNtdbrs(f, b, H), b) ELSE AdjustNtdbrs(f, b, H)
    BY <1>6 DEF LiveNtdbProcessed
  <2>3. \A i \in Revisions(f, b) : f.item[i].next_id \in H => i \in H
    OBVIOUS
  <2> HIDE DEF g
  <2>4. g = AdjustNtdbrs(f, b, H) \/ (p.file_imported /\ g = ImportedRemove11(AdjustNtdbrs(f, b, H), b))
    BY <2>2
  <2>5. /\ H \subseteq Revisions(f, b) /\ (f.item[f.item[b].source_id].next_id = None => H = Revisions(f, b))
        /\ b \in {p.default_branch, p.vendor_branch}
        /\ TrunkExpected(p) = Expected(p, IF f.item[f.item[b].source_id].next_id = None
                                          THEN f.item[b].symbol ELSE Trunk)
    BY <2>1
  <2>6. b \in Ids(f)
    OBVIOUS
  <2> HIDE DEF H, b
  <2>7. Settled(g, Texts(p)) /\ ContentOf(p, g, {})
    BY <1>6, <2>3, <2>4, <2>5, <2>6, NtdbSettled
  <2> QED BY <2>7 DEF g, b
<1> QED BY <1>5, <1>6

LEMMA HistoricalSettled ==
  ASSUME NEW p \in Parsed, NEW f, f = ParsedFile(p), p.vendor_branch # None, p.file_imported,
         p.default_branch = None
  PROVE  LET g == HistoricalNtdbProcessed(f, p.vendor_branch)
         IN  Settled(g, Texts(p)) /\ ContentOf(p, g, {})
<1> DEFINE b == p.vendor_branch
           H == HistoricalNtdbrs(f, b)
           next == f.item[f.item[b].source_id].next_id
           g == HistoricalNtdbProcessed(f, b)
<1>1. /\ Ids(f) = DOMAIN p.item /\ f.item = p.item /\ Linked(f, DOMAIN p.item) /\ None \notin Ids(f)
      /\ b \in Ids(f)
  <2>1. Ids(f) = DOMAIN p.item /\ f.item = p.item /\ Linked(f, DOMAIN p.item)
    BY ParsedFacts, ParsedLinked
  <2>2. b \in Ids(f)
    BY <2>1, ParsedAssumption DEF IsParsed
  <2> QED BY <2>1, <2>2, Surroundings
<1>2. IsBranch(f, b)
  BY <1>1, ParsedBranch
<1>3. Revisions(f, b) = {} <=> f.item[b].next_id = None
  BY <1>1, <1>2, BranchRevisions
<1>4. /\ H \subseteq Revisions(f, b)
      /\ \A i \in Revisions(f, b) : f.item[i].next_id \in H => i \in H
  BY <1>1, <1>2, HistoricalPrefix
<1>5. next = None => H = Revisions(f, b)
  BY DEF HistoricalNtdbrs
<1>6. DefaultBranch(p) = IF next = None THEN b ELSE None
  BY <1>1 DEF DefaultBranch
<1>7. CASE H = {}
  <2>1. TrunkExpected(p) = Expected(p, Trunk)
    BY <1>1, <1>3, <1>5, <1>6, <1>7 DEF TrunkExpected
  <2>2. g = f
    BY <1>7 DEF HistoricalNtdbProcessed
  <2> QED BY <2>1, <2>2, FreshContent
<1>8. CASE H # {}
  <2>1. TrunkExpected(p) = Expected(p, IF next = None THEN f.item[b].symbol ELSE Trunk)
    BY <1>1, <1>3, <1>5, <1>6, <1>8 DEF TrunkExpected
  <2>2. g = ImportedRemove11(AdjustNtdbrs(f, b, H), b)
    BY <1>8 DEF HistoricalNtdbProcessed
  <2>3. b \in {p.default_branch, p.vendor_branch}
    OBVIOUS
  <2> HIDE DEF g, H, b
  <2>4. Settled(g, Texts(p)) /\ ContentOf(p, g, {})
    BY <1>1, <1>4, <1>5, <1>8, <2>1, <2>2, <2>3, NtdbSettled
  <2> QED BY <2>4 DEF g, b
<1> QED BY <1>7, <1>8

-----------------------------------------------------------------------------
(***************************************************************************)
(* The invariant about the content, from the step on in which the          *)
(* revisions of the default branch are marked.  X are the symbols that     *)
(* nobody asks for any more.                                               *)
(***************************************************************************)
LEMMA ContentCarried ==
  ASSUME NEW p, NEW f, NEW g, NEW X, ContentOf(p, f, X), Carries(f, g, Texts(p), Symbols \ X)
  PROVE  ContentOf(p, g, X)
BY DEF ContentOf, Carries

LEMMA CheckoutsCarry ==
  ASSUME NEW f, NEW g, SameCheckouts(f, g), NEW text, NEW S
  PROVE  Carries(f, g, text, S)
BY SameYields DEF SameCheckouts, Carries

Dropped(step, only, d) ==
  IF only THEN Symbols
  ELSE IF step \in {"filter", "mutate", "adjust", "done"} THEN ExcludedOf(d) ELSE {}

ContentPhase(p, f, step, only, ntdbr, d) ==
  step # "parsed" =>
    /\ ContentOf(p, f, Dropped(step, only, d))
    /\ step \in {"ntdbrs_processed", "branch_deletes"} => Settled(f, Texts(p))
    /\ step \in {"exclude_non_trunk", "collected", "filter"} => Stumps(f)
    /\ step = "exclude_non_trunk" => only /\ (ntdbr => NtdbIn(f, Symbols))
    /\ step = "filter" => (ntdbr => NtdbIn(f, ExcludedOf(d)))

ContentInv ==
  /\ pc \in {"filter", "mutate", "adjust", "done"} => ~fatal
  /\ ~fatal => ContentPhase(parsed, file, pc, trunk_only, ntdbr_excluded, fate)

\* CollectRevsPass, before symbols are excluded.
LEMMA NtdbsKeepContent ==
  ASSUME FileInv, ContentInv, ProcessLiveNtdb \/ ProcessHistoricalNtdb \/ NoNtdb
  PROVE  ContentInv'
<1>1. parsed \in Parsed /\ file = ParsedFile(parsed) /\ pc = "parsed"
  BY DEF FileInv, Phase, ProcessLiveNtdb, ProcessHistoricalNtdb, NoNtdb
<1>2. parsed' = parsed /\ pc' = "ntdbrs_processed"
  BY DEF ProcessLiveNtdb, ProcessHistoricalNtdb, NoNtdb
<1>3. Ids(file) = DOMAIN parsed.item /\ file.item = parsed.item /\ None \notin Ids(file)
  BY <1>1, ParsedFacts DEF Shaped
<1>4. ASSUME ~fatal' PROVE Settled(file', Texts(parsed)) /\ ContentOf(parsed, file', {})
  <2>1. CASE ProcessLiveNtdb
    <3>1. /\ file' = LiveNtdbProcessed(file, parsed.default_branch, parsed.file_imported)
          /\ file.item[file.item[parsed.default_branch].source_id].next_id = None
          /\ parsed.default_branch \in Ids(file)
      BY <1>4, <2>1 DEF ProcessLiveNtdb
    <3> QED BY <1>1, <3>1, LiveSettled
  <2>2. CASE ProcessHistoricalNtdb
    <3>1. /\ file' = HistoricalNtdbProcessed(file, parsed.vendor_branch)
          /\ parsed.default_branch = None /\ parsed.file_imported /\ parsed.vendor_branch # None
      BY <2>2 DEF ProcessHistoricalNtdb
    <3> QED BY <1>1, <3>1, HistoricalSettled
  <2>3. CASE NoNtdb
    <3>1. /\ file' = file /\ parsed.default_branch \notin Ids(file)
          /\ parsed.default_branch = None => ~parsed.file_imported \/ parsed.vendor_branch = None
      BY <2>3 DEF NoNtdb
    <3>2. DefaultBranch(parsed) \notin DOMAIN parsed.item
      BY <1>3, <3>1 DEF DefaultBranch
    <3>3. TrunkExpected(parsed) = Expected(parsed, Trunk)
      BY <3>2 DEF TrunkExpected
    <3> QED BY <1>1, <3>1, <3>3, FreshContent
  <2> QED BY <2>1, <2>2, <2>3
<1>5. ASSUME ~fatal' PROVE ContentPhase(parsed', file', pc', trunk_only', ntdbr_excluded', fate')
  BY <1>2, <1>4, <1>5 DEF ContentPhase, ContentOf, Dropped
<1> QED BY <1>2, <1>5 DEF ContentInv

LEMMA DeletesKeepContent ==
  ASSUME FileInv, ContentInv,
         RemoveUnneededInitialTrunkDelete \/ RemoveInitialBranchDeletes \/ EndOfBranchDeletes
  PROVE  ContentInv'
<1> DEFINE U == DOMAIN parsed.item
           text == Texts(parsed)
           X == IF trunk_only THEN Symbols ELSE {}
<1>1. /\ parsed' = parsed /\ fatal' = fatal /\ trunk_only' = trunk_only /\ fate' = fate
      /\ pc \in {"ntdbrs_processed", "branch_deletes"}
      /\ ntdbr_excluded' = ntdbr_excluded
      /\ pc' \in {"branch_deletes", "exclude_non_trunk", "collected"}
      /\ pc' = "exclude_non_trunk" => trunk_only
  BY DEF RemoveUnneededInitialTrunkDelete, RemoveInitialBranchDeletes, EndOfBranchDeletes
<1>2. /\ Good(file, U) /\ ntdbr_excluded = FALSE
      /\ pc = "branch_deletes" => pending \subseteq Lods(file)
  BY <1>1 DEF FileInv, Phase
<1>3. ASSUME ~fatal PROVE Settled(file, text) /\ ContentOf(parsed, file, X)
  BY <1>1, <1>3 DEF ContentInv, ContentPhase, Dropped
<1>4. ASSUME ~fatal PROVE Settled(file', text) /\ Carries(file, file', text, Symbols)
  <2>1. CASE RemoveUnneededInitialTrunkDelete
    <3> DEFINE unneeded == UnneededTrunkDeletes(file)
    <3>1. file' = IF unneeded = {} THEN file ELSE RemoveTrunkDelete(file, CHOOSE i \in unneeded : TRUE)
      BY <2>1 DEF RemoveUnneededInitialTrunkDelete
    <3>2. CASE unneeded = {}
      BY <1>3, <1>4, <3>1, <3>2 DEF Carries
    <3>3. CASE unneeded # {}
      <4>1. PICK i \in unneeded : file' = RemoveTrunkDelete(file, i)
        BY <3>1, <3>3
      <4> QED BY <1>2, <1>3, <1>4, <4>1, TrunkDeleteCarries DEF Settled
    <3> QED BY <3>2, <3>3
  <2>2. CASE RemoveInitialBranchDeletes
    <3>1. PICK s \in LeafLods(file, pending) : file' = RemoveBranchDelete(file, s)
      BY <2>2 DEF RemoveInitialBranchDeletes
    <3>2. s \in Lods(file)
      BY <1>2, <2>2 DEF RemoveInitialBranchDeletes, LeafLods
    <3> QED BY <1>2, <1>3, <1>4, <3>1, <3>2, BranchDeleteCarries DEF Settled
  <2>3. CASE EndOfBranchDeletes
    BY <1>3, <1>4, <2>3 DEF EndOfBranchDeletes, Carries
  <2> QED BY <2>1, <2>2, <2>3
<1>5. ASSUME ~fatal PROVE ContentOf(parsed, file', X)
  <2>1. Carries(file, file', text, Symbols \ X)
    BY <1>4, <1>5 DEF Carries
  <2> QED BY <1>3, <1>5, <2>1, ContentCarried
<1>6. ASSUME ~fatal PROVE ContentPhase(parsed', file', pc', trunk_only', ntdbr_excluded', fate')
  BY <1>1, <1>2, <1>4, <1>5, <1>6 DEF ContentPhase, Dropped, Settled
<1> QED BY <1>1, <1>6 DEF ContentInv

\* Excluding symbols, and grafting what is left of an excluded NTDB.
LEMMA TrunkOnlyKeepsContent ==
  ASSUME FileInv, ContentInv, ExcludeNonTrunk \/ EndOfExcludeNonTrunk
  PROVE  ContentInv'
<1> DEFINE U == DOMAIN parsed.item
           text == Texts(parsed)
<1>1. /\ parsed' = parsed /\ fatal' = fatal /\ trunk_only' = trunk_only /\ fate' = fate
      /\ pc = "exclude_non_trunk"
  BY DEF ExcludeNonTrunk, EndOfExcludeNonTrunk, Exclude
<1>2. Excluding(file, U, pending, Symbols, ntdbr_excluded)
  BY <1>1 DEF FileInv, Phase
<1>3. ASSUME ~fatal
      PROVE  /\ Stumps(file) /\ ContentOf(parsed, file, Symbols) /\ trunk_only
             /\ ntdbr_excluded => NtdbIn(file, Symbols)
  BY <1>1, <1>3 DEF ContentInv, ContentPhase, Dropped
<1>4. {} \cap Symbols = {} /\ Trunk \notin {} /\ Symbols \ Symbols = {}
  OBVIOUS
<1>5. ASSUME ~fatal, ExcludeNonTrunk
      PROVE  ContentPhase(parsed', file', pc', trunk_only', ntdbr_excluded', fate')
  <2>1. PICK s \in LeafLods(file, pending) :
          /\ file' = ExcludeFrom(file, s, Symbols)
          /\ ntdbr_excluded' =
               (ntdbr_excluded \/ (LodAt(file, s) \in Symbols /\ StartsWithNtdbr(file, s)))
    BY <1>5 DEF ExcludeNonTrunk, Exclude
  <2>2. pc' = "exclude_non_trunk"
    BY <1>5 DEF ExcludeNonTrunk, Exclude
  <2>3. /\ Stumps(file') /\ Carries(file, file', text, {})
        /\ ntdbr_excluded' => NtdbIn(file', Symbols)
    BY <1>2, <1>3, <1>4, <1>5, <2>1, ExcludedFromCarries
  <2>4. ContentOf(parsed, file', Symbols)
    BY <1>3, <1>4, <1>5, <2>3, ContentCarried
  <2> QED BY <1>1, <1>3, <1>5, <2>2, <2>3, <2>4 DEF ContentPhase, Dropped
<1>6. ASSUME ~fatal, EndOfExcludeNonTrunk
      PROVE  ContentPhase(parsed', file', pc', trunk_only', ntdbr_excluded', fate')
  <2>1. file' = GraftIfExcluded(file, ntdbr_excluded) /\ pc' = "collected"
    BY <1>6 DEF EndOfExcludeNonTrunk
  <2>2. Stumps(file') /\ Carries(file, file', text, {})
    BY <1>2, <1>3, <1>4, <1>6, <2>1, GraftedIfExcludedCarries
  <2>3. ContentOf(parsed, file', Symbols)
    BY <1>3, <1>4, <1>6, <2>2, ContentCarried
  <2> QED BY <1>1, <1>3, <1>6, <2>1, <2>2, <2>3 DEF ContentPhase, Dropped
<1>7. ~fatal => ContentPhase(parsed', file', pc', trunk_only', ntdbr_excluded', fate')
  BY <1>5, <1>6
<1>8. pc' \in {"exclude_non_trunk", "collected"}
  BY DEF ExcludeNonTrunk, EndOfExcludeNonTrunk, Exclude
<1> QED BY <1>1, <1>7, <1>8 DEF ContentInv

LEMMA FilterKeepsContent ==
  ASSUME FileInv, ContentInv, CollateSymbols \/ FilterExcludedSymbols \/ EndOfFilter
  PROVE  ContentInv'
<1> DEFINE U == DOMAIN parsed.item
           text == Texts(parsed)
           E == ExcludedOf(fate)
           X == IF trunk_only THEN Symbols ELSE E
           S == Symbols \ X
<1>1. /\ parsed' = parsed /\ fatal' = fatal /\ trunk_only' = trunk_only
      /\ fate \in [Symbols -> {"branch", "tag", "exclude"}]
  BY DEF CollateSymbols, FilterExcludedSymbols, EndOfFilter, Exclude, FileInv, Phase
<1>2. CASE CollateSymbols
  <2>1. /\ pc = "collected" /\ pc' = "filter" /\ file' = file /\ ~fatal
        /\ ntdbr_excluded' = ntdbr_excluded
    BY <1>2 DEF CollateSymbols
  <2>2. /\ ntdbr_excluded = FALSE /\ Stumps(file)
        /\ ContentOf(parsed, file, IF trunk_only THEN Symbols ELSE {})
    BY <2>1 DEF FileInv, Phase, ContentInv, ContentPhase, Dropped
  <2>3. ContentOf(parsed, file, Dropped("filter", trunk_only, fate'))
    BY <2>2 DEF ContentOf, Dropped
  <2>4. ContentPhase(parsed', file', pc', trunk_only', ntdbr_excluded', fate')
    BY <1>1, <2>1, <2>2, <2>3 DEF ContentPhase
  <2> QED BY <1>1, <2>1, <2>4 DEF ContentInv
<1>3. ASSUME pc = "filter"
      PROVE  /\ ~fatal /\ Stumps(file) /\ ContentOf(parsed, file, X)
             /\ ntdbr_excluded => NtdbIn(file, E)
             /\ Excluding(file, U, pending, E, ntdbr_excluded)
  BY <1>3 DEF FileInv, Phase, ContentInv, ContentPhase, Dropped
<1>4. S \cap E = {} /\ Trunk \notin S
  BY <1>1, NamesAssumption DEF ExcludedOf
<1> HIDE DEF S
<1>5. CASE FilterExcludedSymbols
  <2>1. PICK s \in LeafLods(file, pending) :
          /\ file' = ExcludeFrom(file, s, E)
          /\ ntdbr_excluded' = (ntdbr_excluded \/ (LodAt(file, s) \in E /\ StartsWithNtdbr(file, s)))
    BY <1>5 DEF FilterExcludedSymbols, Exclude
  <2>2. pc = "filter" /\ pc' = "filter" /\ fate' = fate
    BY <1>5 DEF FilterExcludedSymbols, Exclude
  <2>3. /\ Stumps(file') /\ Carries(file, file', text, S)
        /\ ntdbr_excluded' => NtdbIn(file', E)
    BY <1>3, <1>4, <2>1, <2>2, ExcludedFromCarries
  <2>4. ContentOf(parsed, file', X)
    BY <1>3, <2>2, <2>3, ContentCarried DEF S
  <2>5. ContentPhase(parsed', file', pc', trunk_only', ntdbr_excluded', fate')
    BY <1>1, <2>2, <2>3, <2>4 DEF ContentPhase, Dropped
  <2> QED BY <1>1, <1>3, <2>2, <2>5 DEF ContentInv
<1>6. CASE EndOfFilter
  <2>1. /\ pc = "filter" /\ pc' = "mutate" /\ fate' = fate
        /\ file' = GraftIfExcluded(file, ntdbr_excluded)
    BY <1>6 DEF EndOfFilter
  <2>2. Carries(file, file', text, S)
    BY <1>3, <1>4, <2>1, GraftedIfExcludedCarries
  <2>3. ContentOf(parsed, file', X)
    BY <1>3, <2>1, <2>2, ContentCarried DEF S
  <2>4. ContentPhase(parsed', file', pc', trunk_only', ntdbr_excluded', fate')
    BY <1>1, <2>1, <2>3 DEF ContentPhase, Dropped
  <2> QED BY <1>1, <1>3, <2>1, <2>4 DEF ContentInv
<1> QED BY <1>2, <1>5, <1>6

\* The rest of FilterSymbolsPass moves no revision.
LEMMA RewritingKeepsContent ==
  ASSUME FileInv, ContentInv, MutateSymbol \/ EndOfMutate \/ AdjustParents \/ Record
  PROVE  ContentInv'
<1> DEFINE U == DOMAIN parsed.item
           X == IF trunk_only THEN Symbols ELSE ExcludedOf(fate)
<1>1. /\ parsed' = parsed /\ fatal' = fatal /\ trunk_only' = trunk_only /\ fate' = fate
      /\ pc \in {"mutate", "adjust"} /\ pc' \in {"mutate", "adjust", "done"}
  BY DEF MutateSymbol, EndOfMutate, AdjustParents, Record
<1>2. ~fatal /\ ContentOf(parsed, file, X)
  BY <1>1 DEF ContentInv, ContentPhase, Dropped
<1>3. file' = file \/ SameCheckouts(file, file')
  <2>1. CASE MutateSymbol
    <3>1. PICK i \in pending :
            file' = CASE IsBranch(file, i) /\ fate[file.item[i].symbol] = "tag" ->
                           MutateBranchToTag(file, i)
                      [] ~IsBranch(file, i) /\ fate[file.item[i].symbol] = "branch" ->
                           MutateTagToBranch(file, i)
                      [] OTHER -> file
      BY <2>1 DEF MutateSymbol
    <3>2. Mutating(file, U, fate) /\ i \in Ids(file) /\ ~IsRev(file, i)
      BY <2>1 DEF MutateSymbol, FileInv, Phase
    <3>3. CASE IsBranch(file, i) /\ fate[file.item[i].symbol] = "tag"
      <4>1. file' = MutatedFile(file, i, "tag")
        BY <3>1, <3>3 DEF MutatedFile
      <4> QED BY <3>2, <3>3, <4>1, SymbolMutated
    <3>4. CASE ~IsBranch(file, i) /\ fate[file.item[i].symbol] = "branch"
      <4>1. file' = MutatedFile(file, i, "branch")
        BY <3>1, <3>4 DEF MutatedFile
      <4> QED BY <3>2, <3>4, <4>1, SymbolMutated
    <3>5. CASE /\ ~(IsBranch(file, i) /\ fate[file.item[i].symbol] = "tag")
               /\ ~(~IsBranch(file, i) /\ fate[file.item[i].symbol] = "branch")
      BY <3>1, <3>5
    <3> QED BY <3>3, <3>4, <3>5
  <2>2. CASE EndOfMutate
    BY <2>2 DEF EndOfMutate
  <2>3. CASE AdjustParents
    <3>1. PICK i \in pending :
            \E lod \in {Trunk} \cup (Symbols \ (ExcludedOf(fate) \cup {file.item[i].symbol})) :
              file' = AdjustParent(file, i, lod)
      BY <2>3 DEF AdjustParents
    <3>2. PICK lod \in {Trunk} \cup Symbols : file' = AdjustParent(file, i, lod)
      BY <3>1
    <3>3. /\ lod \in Nat /\ Adjustable(file, U) /\ i \in Ids(file) /\ ~IsRev(file, i)
          /\ IsRev(file, file.item[i].source_id)
      BY <2>3, NamesAssumption DEF AdjustParents, FileInv, Phase
    <3> QED BY <3>2, <3>3, ParentAdjusted
  <2>4. CASE Record
    <3>1. /\ file' = RecordSymbols(RefineSymbols(file))
          /\ Adjustable(file, U) /\ Ordered(file)
      BY <2>4 DEF Record, FileInv, Phase
    <3> QED BY <3>1, RecordedHolds
  <2> QED BY <2>1, <2>2, <2>3, <2>4
<1>4. ContentOf(parsed, file', X)
  <2>1. CASE file' = file
    BY <1>2, <2>1
  <2>2. CASE SameCheckouts(file, file')
    <3>1. Carries(file, file', Texts(parsed), Symbols \ X)
      BY <2>2, CheckoutsCarry
    <3> QED BY <1>2, <3>1, ContentCarried
  <2> QED BY <1>3, <2>1, <2>2
<1>5. ContentPhase(parsed', file', pc', trunk_only', ntdbr_excluded', fate')
  BY <1>1, <1>4 DEF ContentPhase, Dropped
<1> QED BY <1>1, <1>2, <1>5 DEF ContentInv

LEMMA ContentInvariant ==
  Spec => []ContentInv
<1>1. Init => ContentInv
  BY DEF Init, ContentInv, ContentPhase
<1>2. FileInv /\ ContentInv /\ [Next]_vars => ContentInv'
  <2> SUFFICES ASSUME FileInv, ContentInv, [Next]_vars PROVE ContentInv'
    OBVIOUS
  <2>1. CASE ProcessLiveNtdb \/ ProcessHistoricalNtdb \/ NoNtdb
    BY <2>1, NtdbsKeepContent
  <2>2. CASE RemoveUnneededInitialTrunkDelete \/ RemoveInitialBranchDeletes \/ EndOfBranchDeletes
    BY <2>2, DeletesKeepContent
  <2>3. CASE ExcludeNonTrunk \/ EndOfExcludeNonTrunk
    BY <2>3, TrunkOnlyKeepsContent
  <2>4. CASE CollateSymbols \/ FilterExcludedSymbols \/ EndOfFilter
    BY <2>4, FilterKeepsContent
  <2>5. CASE MutateSymbol \/ EndOfMutate \/ AdjustParents \/ Record
    BY <2>5, RewritingKeepsContent
  <2>6. CASE UNCHANGED vars
    BY <2>6 DEF vars, ContentInv
  <2> QED BY <2>1, <2>2, <2>3, <2>4, <2>5, <2>6 DEF Next
<1> QED BY <1>1, <1>2, FileInvariant, PTL DEF Spec

-----------------------------------------------------------------------------
(* What Checkout finds.                                                    *)

\* If every end of the LOD has the content c, a checkout finds c.
LEMMA YieldsFound ==
  ASSUME NEW f, Walkable(f), Nexts(f), NEW text, NEW x, NEW c, Yields(f, text, x, c)
  PROVE  Found(f, text, x) = c
<1>1. CASE RevsOn(f, x) # {}
  <2>1. \E i \in RevsOn(f, x) : f.item[i].next_id = None
    <3>1. PICK i \in RevsOn(f, x) : TRUE
      BY <1>1
    <3>2. i \in Ids(f) /\ IsRev(f, i) /\ f.item[i].lod = x
      BY DEF RevsOn
    <3> QED BY <3>2, EndExists
  <2> QED BY <1>1, <2>1 DEF Yields, Found
<1>2. CASE RevsOn(f, x) = {}
  BY <1>2 DEF Yields, Found
<1> QED BY <1>1, <1>2

LEMMA CheckoutFinds ==
  ASSUME NEW f, NEW x
  PROVE  Checkout(f, x) = Found(f, Texts(parsed), x)
<1>1. \A i : Content(i) = Texts(parsed)[i]
  BY DEF Content, Texts
<1> QED BY <1>1 DEF Checkout, Found, RevsOn, SymbolsNamed

\* The parsed file with its roots, and without them.
LEMMA ParsedFinds ==
  ASSUME NEW p \in Parsed, NEW x
  PROVE  Found(p, Texts(p), x) = Expected(p, x)
<1> DEFINE f == ParsedFile(p)
<1>1. Ids(f) = DOMAIN p.item /\ f.item = p.item /\ Linked(f, DOMAIN p.item) /\ Walkable(f)
  BY ParsedFacts, ParsedLinked, LinkedWalkable
<1> HIDE DEF f
<1>2. Ids(p) = Ids(f) /\ p.item = f.item /\ \A i : (IsRev(p, i) <=> IsRev(f, i)) /\ (IsBranch(p, i) <=> IsBranch(f, i))
  BY <1>1 DEF Ids, IsRev, IsBranch
<1>3. Walkable(p) /\ Nexts(p)
  <2>1. PrevsEnd(p)
    BY <1>1, <1>2 DEF Walkable, PrevsEnd
  <2>2. Walkable(p)
    BY <1>1, <1>2, <2>1 DEF Walkable
  <2>3. Nexts(p)
    BY <1>1, <1>2 DEF Linked, Nexts, Follows, Begins
  <2> QED BY <2>2, <2>3
<1>4. SameLods(f, p)
  <2>1. \A i \in Ids(f) : RevisionSource(f, i) = IF IsRev(f, i) THEN i ELSE f.item[i].source_id
    BY <1>1, LinkedSources
  <2>2. \A i \in Ids(p) : ~IsRev(p, i) =>
          p.item[i].source_id \in Ids(p) /\ IsRev(p, p.item[i].source_id)
    BY <1>1, <1>2 DEF Linked, Sprouts
  <2>3. \A i \in Ids(p) : RevisionSource(p, i) = IF IsRev(p, i) THEN i ELSE p.item[i].source_id
    BY <2>2, FlatSources
  <2> QED BY <1>2, <2>1, <2>3 DEF SameLods
<1>5. Yields(f, Texts(p), x, Expected(p, x))
  BY ParsedYields DEF Expected, f
<1>6. Yields(p, Texts(p), x, Expected(p, x))
  BY <1>4, <1>5, SameYields
<1> QED BY <1>3, <1>6, YieldsFound

(***************************************************************************)
(* Converting a file never changes what a checkout yields: what trunk, or  *)
(* a symbol that is not excluded, comes to in the file that                *)
(* FilterSymbolsPass stores is what it came to in the file as it was       *)
(* parsed, whichever revisions were deleted, grafted or severed on the way *)
(* and whichever symbols got another parent.                               *)
(***************************************************************************)
THEOREM ContentStays ==
  Spec => []ContentKept
<1>1. FileInv /\ ContentInv => ContentKept
  <2> SUFFICES ASSUME FileInv, ContentInv, pc = "done" PROVE ContentKept
    BY DEF ContentKept
  <2> DEFINE text == Texts(parsed)
  <2>1. parsed \in Parsed
    BY DEF FileInv, Phase
  <2>2. ContentOf(parsed, file, IF trunk_only THEN Symbols ELSE ExcludedOf(fate))
    BY DEF ContentInv, ContentPhase, Dropped
  <2>3. Walkable(file) /\ Nexts(file)
    <3>1. Adjustable(file, DOMAIN parsed.item) /\ Ordered(file)
      BY DEF FileInv, Phase
    <3>2. None \notin Ids(file) /\ IsFiniteSet(Ids(file))
      BY <3>1, FS_Subset DEF Adjustable, Shaped
    <3> QED BY <3>1, <3>2 DEF Ordered, Nexts, Follows, Walkable
  <2>4. TrunkBefore = TrunkExpected(parsed)
    BY <2>1, CheckoutFinds, ParsedFinds DEF TrunkBefore, TrunkExpected
  <2>5. TrunkAfter = TrunkExpected(parsed)
    <3>1. \A i : Content(i) = text[i]
      BY DEF Content, Texts
    <3>2. TrunkYields(file, text, TrunkExpected(parsed))
      BY <2>2 DEF ContentOf
    <3>3. TrunkAfter = IF NtdbEnds(file) # {} THEN text[CHOOSE i \in NtdbEnds(file) : TRUE]
                       ELSE Found(file, text, Trunk)
      BY <3>1, CheckoutFinds DEF TrunkAfter, NtdbEnds
    <3>4. CASE NtdbEnds(file) # {}
      BY <3>2, <3>3, <3>4 DEF TrunkYields
    <3>5. CASE NtdbEnds(file) = {}
      BY <2>3, <3>2, <3>3, <3>5, YieldsFound DEF TrunkYields
    <3> QED BY <3>4, <3>5
  <2>6. ASSUME ~trunk_only, NEW x \in Symbols \ ExcludedOf(fate)
        PROVE  Checkout(file, x) = Checkout(parsed, x)
    <3>1. Yields(file, text, x, Expected(parsed, x))
      BY <2>2, <2>6 DEF ContentOf
    <3>2. Found(file, text, x) = Expected(parsed, x)
      BY <2>3, <3>1, YieldsFound
    <3> QED BY <2>1, <3>2, CheckoutFinds, ParsedFinds
  <2> QED BY <2>4, <2>5, <2>6 DEF ContentKept
<1> QED BY <1>1, FileInvariant, ContentInvariant, PTL
=============================================================================

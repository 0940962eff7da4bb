----------------------------- MODULE Changesets -----------------------------
(***************************************************************************)
(* Changesets (changeset.py): sets of CVS items that are to be committed   *)
(* together, what they say of the graph of dependencies, how they sort     *)
(* (time_range.py), and the databases of them that InitializeChangesets    *)
(* leaves.                                                                 *)
(***************************************************************************)
EXTENDS CVSItem

CONSTANT
  TimeCeiling   \* stands for 1L<<32, TimeRange's t_min before any add()

(***************************************************************************)
(* A changeset.  prev_id, next_id and ordinal belong to OrderedChangesets  *)
(* and are None in the other classes; symbol is 0 in changesets of         *)
(* revisions.                                                              *)
(***************************************************************************)
ChangesetRecord ==
  [ kind    : {"revision", "ordered", "branch", "tag"},
    items   : SUBSET Item,
    symbol  : Nat,
    ordinal : Nat \cup {None},
    prev_id : Nat \cup {None},
    next_id : Nat \cup {None} ]

Changeset(k, S, sym) ==
  [kind |-> k, items |-> S, symbol |-> sym,
   ordinal |-> None, prev_id |-> None, next_id |-> None]

\* create_split_changeset(): same class and symbol, other items.
CreateSplitChangeset(changeset, S) ==
  Changeset(changeset.kind, S, changeset.symbol)

\* The ids that cvs_item_to_changeset_id gives for a set of items.
ChangesetIdsOf(table, S) == {table[i] : i \in S}

\* Mutant: an ordered changeset does not know its neighbours.
CreateGraphNode_NoChain(changeset, table) ==
  [ pred_ids |-> ChangesetIdsOf(table,
      UNION {IF changeset.kind = "ordered" THEN GetSymbolPredIds(i) ELSE GetPredIds(i)
               : i \in changeset.items}),
    succ_ids |-> ChangesetIdsOf(table,
      UNION {IF changeset.kind = "ordered" THEN GetSymbolSuccIds(i) ELSE GetSuccIds(i)
               : i \in changeset.items}) ]

\* create_graph_node() of the three classes.
CreateGraphNode(changeset, table) ==
  IF changeset.kind = "ordered"
  THEN [ pred_ids |-> ({changeset.prev_id} \ {None}) \cup
           ChangesetIdsOf(table, UNION {GetSymbolPredIds(i) : i \in changeset.items}),
         succ_ids |-> ({changeset.next_id} \ {None}) \cup
           ChangesetIdsOf(table, UNION {GetSymbolSuccIds(i) : i \in changeset.items}) ]
  ELSE [ pred_ids |->
           ChangesetIdsOf(table, UNION {GetPredIds(i) : i \in changeset.items}),
         succ_ids |->
           ChangesetIdsOf(table, UNION {GetSuccIds(i) : i \in changeset.items}) ]

-----------------------------------------------------------------------------
(***************************************************************************)
(* How changesets sort: by TimeRange, that is by t_max then t_min, then by *)
(* class, symbol and id.  Changesets of symbols keep the initial TimeRange.*)
(***************************************************************************)
Timestamps(changeset) ==
  IF changeset.kind \in {"branch", "tag"} THEN {}
  ELSE {cvs_item[i].timestamp : i \in changeset.items}

TMax(changeset) ==
  LET T == Timestamps(changeset) \cup {0}
  IN  CHOOSE t \in T : \A u \in T : u <= t

TMin(changeset) ==
  LET T == Timestamps(changeset) \cup {TimeCeiling}
  IN  CHOOSE t \in T : \A u \in T : t <= u

SortOrder == [tag |-> 0, branch |-> 1, ordered |-> 2, revision |-> 3]

-----------------------------------------------------------------------------
\* An item of changeset b directly depends on an item of changeset a.
DependsOn(db, b, a) ==
  \E i \in db[b].items, j \in db[a].items : j \in GetPredIds(i)

\* No dependency cycle runs through the changesets in S.
Acyclic(db, S) ==
  \A T \in SUBSET S : T # {} => \E b \in T : \A a \in T : ~ DependsOn(db, b, a)

-----------------------------------------------------------------------------
(***************************************************************************)
(* The first database of changesets: one changeset per symbol, and the     *)
(* revisions grouped in a way that puts none together with one it depends  *)
(* on.                                                                     *)
(***************************************************************************)
Revisions   == {i \in Item : IsRevision(i)}
Symbols     == Item \ Revisions
SymbolNames == {cvs_item[i].symbol : i \in Item \ Revisions}

SourceTable(symbol_id, revision_id) ==
  [i \in Item |-> IF i \in Revisions THEN revision_id[i]
                                     ELSE symbol_id[cvs_item[i].symbol]]

IsGrouping(revision_id) ==
  \A i, j \in Revisions : revision_id[i] = revision_id[j] => j \notin GetPredIds(i)

\* The changesets of the source database.  (TopologicalSort's ordinals, which
\* the pass on symbol changesets copies along unread, are left out.)
SourceChangeset(S) ==
  LET i == CHOOSE x \in S : TRUE
  IN  Changeset(cvs_item[i].kind, S, cvs_item[i].symbol)

SourceChangesets(table) ==
  [id \in {table[i] : i \in Item} |-> SourceChangeset({i \in Item : table[i] = id})]

-----------------------------------------------------------------------------
(***************************************************************************)
(* Once the changesets of revisions are in a fixed order, each of them is  *)
(* an OrderedChangeset tied to the one before and the one after it.        *)
(*                                                                         *)
(* The revisions are numbered by the ordinal of their changeset, a         *)
(* revision after those it depends on.  id_of[n + 1] is the id of the      *)
(* changeset with ordinal n.                                               *)
(***************************************************************************)
IsOrder(ordinal) ==
  /\ \A i, j \in Revisions : j \in GetPredIds(i) => ordinal[j] < ordinal[i]
  /\ \A i \in Revisions : \A n \in 0..ordinal[i] : \E j \in Revisions : ordinal[j] = n

Orders == {ordinal \in [Revisions -> 0..(Cardinality(Revisions) - 1)] : IsOrder(ordinal)}

OrderedChangeset(S, n, prev_id, next_id) ==
  [ kind |-> "ordered", items |-> S, symbol |-> 0,
    ordinal |-> n, prev_id |-> prev_id, next_id |-> next_id ]

ChangesetOf(S, ordinal, id_of) ==
  LET i == CHOOSE x \in S : TRUE
  IN  IF i \in Symbols THEN Changeset(cvs_item[i].kind, S, cvs_item[i].symbol)
      ELSE OrderedChangeset(S, ordinal[i],
             IF ordinal[i] = 0 THEN None ELSE id_of[ordinal[i]],
             IF \E j \in Revisions : ordinal[j] > ordinal[i]
             THEN id_of[ordinal[i] + 2] ELSE None)

ItemTable(ordinal, id_of, symbol_id) ==
  [i \in Item |-> IF i \in Symbols THEN symbol_id[i] ELSE id_of[ordinal[i] + 1]]

ChangesetTable(table, ordinal, id_of) ==
  [id \in {table[i] : i \in Item} |->
     ChangesetOf({i \in Item : table[i] = id}, ordinal, id_of)]

\* Changeset b comes after changeset a: of the ordered changesets only the
\* order itself matters, of the others the items.
ComesAfter(db, b, a) ==
  IF db[a].kind = "ordered" /\ db[b].kind = "ordered"
  THEN db[b].prev_id = a
  ELSE DependsOn(db, b, a)

\* The changesets in S can be put in one order.
Orderable(db, S) ==
  \A T \in SUBSET S : T # {} => \E b \in T : \A a \in T : ~ ComesAfter(db, b, a)
=============================================================================

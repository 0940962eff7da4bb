------------------------ MODULE InitializeChangesets ------------------------
(***************************************************************************)
(* InitializeChangesetsPass (passes.py): the first grouping of revisions   *)
(* into changesets.  Revisions with the same author, log message and       *)
(* project (the same metadata_id) that follow each other closely in time   *)
(* belong together; where one of them depends on another one the group is  *)
(* cut in two, again and again.  The items of a symbol form one changeset. *)
(***************************************************************************)
EXTENDS Changesets, SequencesExt

CONSTANTS
  Metadata,          \* the ids of metadata records
  COMMIT_THRESHOLD,  \* config.COMMIT_THRESHOLD
  Rank               \* Rank[i]: where i sorts among revisions by path, number, id

\* What the constants are, besides what the modules above assume of theirs.
ConstantsOK ==
  /\ Metadata \subseteq Nat
  /\ COMMIT_THRESHOLD \in Nat
  /\ Rank \in [Item -> Nat] /\ IsInjective(Rank)

VARIABLES
  metadata_id,               \* CVSRevision.metadata_id, which never changes
  pc,                        \* "read", "split", "symbols" or "done"
  unread_revs,               \* the revisions not read of the sorted CVSRevisions
  old_metadata_id,           \* get_revision_changesets()'s variables: what it
  old_timestamp,             \*   knows of the last revision it read,
  changeset_items,           \*   and the group it is collecting
  changesets_to_split,       \* break_all_internal_dependencies()'s stack
  unread_symbols,            \* the symbols not read of the sorted CVSSymbols
  key_base,                  \* KeyGenerator._key_base
  changeset_db,              \* the new ChangesetDatabase
  cvs_item_to_changeset_id   \* the new CVSItemToChangesetTable

db_vars == <<unread_symbols, key_base, changeset_db, cvs_item_to_changeset_id>>
read_vars == <<unread_revs, old_metadata_id, old_timestamp>>
vars == <<metadata_id, pc, read_vars, changeset_items, changesets_to_split, db_vars>>

-----------------------------------------------------------------------------
(***************************************************************************)
(* The revisions come sorted by the lines "metadata_id timestamp item":    *)
(* equal metadata_ids are together and timestamps increase among them.     *)
(* Which metadata_id comes first, and the order of revisions with the same *)
(* timestamp, depend on the text of the lines and are left open.           *)
(***************************************************************************)
NextInFile ==
  LET same == {i \in unread_revs : metadata_id[i] = old_metadata_id}
      candidates == IF same # {} THEN same ELSE unread_revs
  IN  {i \in candidates : \A j \in candidates :
         metadata_id[j] = metadata_id[i] => cvs_item[i].timestamp <= cvs_item[j].timestamp}

Init ==
  /\ metadata_id \in [Revisions -> Metadata]
  /\ pc = "read"
  /\ unread_revs = Revisions
  /\ old_metadata_id = None
  /\ old_timestamp = None
  /\ changeset_items = <<>>
  /\ changesets_to_split = <<>>
  /\ unread_symbols = SymbolNames
  /\ key_base = 1
  /\ changeset_db = <<>>
  /\ cvs_item_to_changeset_id = <<>>

-----------------------------------------------------------------------------
\* Mutant: the threshold counts from the first revision of the group.
StartsNew_FromFirst(i) ==
  \/ metadata_id[i] # old_metadata_id
  \/ cvs_item[i].timestamp > cvs_item[Head(changeset_items)].timestamp + COMMIT_THRESHOLD

\* The test of get_revision_changesets(), when there is a current group.
StartsNew(i) ==
  \/ metadata_id[i] # old_metadata_id
  \/ cvs_item[i].timestamp > old_timestamp + COMMIT_THRESHOLD

\* get_revision_changesets(): the next revision joins the current group.
ReadRevision ==
  /\ pc = "read"
  /\ \E i \in NextInFile :
       /\ IF changeset_items = <<>> THEN TRUE ELSE ~ StartsNew(i)
       /\ changeset_items' = Append(changeset_items, i)
       /\ unread_revs' = unread_revs \ {i}
       /\ old_metadata_id' = metadata_id[i]
       /\ old_timestamp' = cvs_item[i].timestamp
  /\ UNCHANGED <<metadata_id, pc, changesets_to_split, db_vars>>

\* get_revision_changesets() yields the group, and
\* break_all_internal_dependencies() begins with it.
YieldGroup ==
  /\ pc = "read"
  /\ changeset_items # <<>>
  /\ \A i \in NextInFile : StartsNew(i)
  /\ changesets_to_split' = <<changeset_items>>
  /\ changeset_items' = <<>>
  /\ pc' = "split"
  /\ UNCHANGED <<metadata_id, read_vars, db_vars>>

-----------------------------------------------------------------------------
\* Mutant: only the next revision on the same line of development counts.
Dependencies_Next(items) ==
  {d \in Range(items) \X Range(items) : d[2] = cvs_item[d[1]].next_id}

\* break_internal_dependencies(): the pairs (pred, succ) within a list.
Dependencies(items) ==
  {d \in Range(items) \X Range(items) : d[2] \in GetSuccIds(d[1])}

\* compare_items(): chronological as far as timestamps go.
ItemLess(a, b) ==
  \/ cvs_item[a].timestamp < cvs_item[b].timestamp
  \/ cvs_item[a].timestamp = cvs_item[b].timestamp /\ Rank[a] < Rank[b]

\* changeset_items.sort(self.compare_items)
Sorted(items) ==
  LET Smaller(i) == {j \in Range(items) : ItemLess(j, i)}
  IN  [k \in DOMAIN items |-> CHOOSE i \in Range(items) : Cardinality(Smaller(i)) = k - 1]

Lesser(a, b)  == IF a <= b THEN a ELSE b
Greater(a, b) == IF a <= b THEN b ELSE a

(***************************************************************************)
(* break_internal_dependencies(): the number of dependencies that a break  *)
(* after each index would cut, by counting where they begin and end.       *)
(***************************************************************************)
Breaks(items) ==
  LET index(i) == CHOOSE k \in DOMAIN items : items[k] = i
      first(d) == Lesser(index(d[1]), index(d[2]))
      last(d)  == Greater(index(d[1]), index(d[2]))
      change(k) == Cardinality({d \in Dependencies(items) : first(d) = k})
                   - Cardinality({d \in Dependencies(items) : last(d) = k})
      breaks[k \in 0..Len(items)] == IF k = 0 THEN 0 ELSE breaks[k - 1] + change(k)
  IN  breaks

Gap(items, k) == cvs_item[items[k + 1]].timestamp - cvs_item[items[k]].timestamp

\* The first index with the most dependencies to cut and, of those, the largest
\* gap in time.  (best_gap starts at 0, so that gaps of 0 keep the first.)
IsBestBreak(items, k) ==
  LET breaks == Breaks(items)
      Better(a, b) == \/ breaks[a] > breaks[b]
                      \/ breaks[a] = breaks[b] /\ Gap(items, a) > Gap(items, b)
  IN  \A m \in 1..(Len(items) - 1) :
        ~ Better(m, k) /\ (m < k => Better(k, m))

\* Mutant: the item the list is cut after goes to both parts.
SplitGroup_Overlap ==
  /\ pc = "split"
  /\ changesets_to_split # <<>>
  /\ Dependencies(Last(changesets_to_split)) # {}
  /\ LET items == Sorted(Last(changesets_to_split)) IN
       \E best_i \in 1..(Len(items) - 1) :
         /\ IsBestBreak(items, best_i)
         /\ changesets_to_split' = Front(changesets_to_split)
              \o <<SubSeq(items, best_i, Len(items)), SubSeq(items, 1, best_i)>>
  /\ UNCHANGED <<metadata_id, pc, read_vars, changeset_items, db_vars>>

\* break_all_internal_dependencies(): a list that depends on itself is cut, and
\* its first part is looked at next.
SplitGroup ==
  /\ pc = "split"
  /\ changesets_to_split # <<>>
  /\ Dependencies(Last(changesets_to_split)) # {}
  /\ LET items == Sorted(Last(changesets_to_split)) IN
       \E best_i \in 1..(Len(items) - 1) :
         /\ IsBestBreak(items, best_i)
         /\ changesets_to_split' = Front(changesets_to_split)
              \o <<SubSeq(items, best_i + 1, Len(items)), SubSeq(items, 1, best_i)>>
  /\ UNCHANGED <<metadata_id, pc, read_vars, changeset_items, db_vars>>

\* run(): a changeset gets the next id and goes to both databases.
StoreChangeset(S, changeset) ==
  /\ changeset_db' =
       [id \in DOMAIN changeset_db \cup {key_base} |->
          IF id = key_base THEN changeset ELSE changeset_db[id]]
  /\ cvs_item_to_changeset_id' =
       [i \in DOMAIN cvs_item_to_changeset_id \cup S |->
          IF i \in S THEN key_base ELSE cvs_item_to_changeset_id[i]]
  /\ key_base' = key_base + 1

\* break_all_internal_dependencies() yields a list that needs no cut.
StoreGroup ==
  /\ pc = "split"
  /\ changesets_to_split # <<>>
  /\ Dependencies(Last(changesets_to_split)) = {}
  /\ LET S == Range(Last(changesets_to_split))
     IN  StoreChangeset(S, Changeset("revision", S, 0))
  /\ changesets_to_split' = Front(changesets_to_split)
  /\ UNCHANGED <<metadata_id, pc, read_vars, changeset_items, unread_symbols>>

\* The group is done; get_revision_changesets() goes on, or is done too.
NextGroup ==
  /\ pc = "split"
  /\ changesets_to_split = <<>>
  /\ pc' = IF unread_revs = {} THEN "symbols" ELSE "read"
  /\ UNCHANGED <<metadata_id, read_vars, changeset_items, changesets_to_split, db_vars>>

-----------------------------------------------------------------------------
\* The CVSSymbols with one symbol.
OfSymbol(symbol) == {i \in Symbols : cvs_item[i].symbol = symbol}

\* get_symbol_changesets(): the CVSSymbols with one symbol, which the sorted
\* file has together, in whatever order the lines put the symbols.
StoreSymbol ==
  /\ pc = "symbols"
  /\ \E symbol \in unread_symbols :
       LET S == OfSymbol(symbol)
           k == cvs_item[CHOOSE i \in S : TRUE].kind
       IN  /\ StoreChangeset(S, Changeset(k, S, symbol))
           /\ unread_symbols' = unread_symbols \ {symbol}
  /\ UNCHANGED <<metadata_id, pc, read_vars, changeset_items, changesets_to_split>>

Finish ==
  /\ pc = "symbols"
  /\ unread_symbols = {}
  /\ pc' = "done"
  /\ UNCHANGED <<metadata_id, read_vars, changeset_items, changesets_to_split, db_vars>>

Terminated == pc = "done" /\ UNCHANGED vars

Next ==
  \/ ReadRevision \/ YieldGroup \/ SplitGroup \/ StoreGroup \/ NextGroup
  \/ StoreSymbol \/ Finish \/ Terminated

\* One single-threaded loop: while it has a next step, it takes it.
Spec == Init /\ [][Next]_vars /\ WF_vars(Next)

-----------------------------------------------------------------------------
\* The revisions that were read and are not in a changeset yet: those of the
\* current group, and those on the stack.
Stacked == UNION {Range(changesets_to_split[k]) : k \in DOMAIN changesets_to_split}
Pending == Range(changeset_items) \cup Stacked

RevisionChangesets == {id \in DOMAIN changeset_db : changeset_db[id].kind = "revision"}

\* The types of the variables.
TypeOK ==
  /\ metadata_id \in [Revisions -> Metadata]
  /\ pc \in {"read", "split", "symbols", "done"}
  /\ unread_revs \subseteq Revisions
  /\ old_metadata_id \in Metadata \cup {None}
  /\ old_metadata_id # None => old_timestamp \in Nat
  /\ changeset_items \in Seq(Revisions)
  /\ changesets_to_split \in Seq(Seq(Revisions))
  /\ \A k \in DOMAIN changesets_to_split : changesets_to_split[k] # <<>>
  /\ unread_symbols \subseteq SymbolNames
  /\ key_base \in Nat \ {0}
  /\ changeset_db \in [1..(key_base - 1) -> ChangesetRecord]
  /\ cvs_item_to_changeset_id \in [DOMAIN cvs_item_to_changeset_id -> DOMAIN changeset_db]

\* What the passes that break cycles start from: every item in one changeset,
\* no revision together with one it depends on, one changeset per symbol.
OutputIsASource ==
  pc = "done" =>
    LET table == cvs_item_to_changeset_id
    IN  /\ DOMAIN table = Item
        /\ IsGrouping(table)
        /\ \A i, j \in Symbols :
             table[i] = table[j] <=> cvs_item[i].symbol = cvs_item[j].symbol
        /\ \A i \in Revisions, j \in Symbols : table[i] # table[j]
        /\ changeset_db = SourceChangesets(table)

\* No revision is twice in a list, nor in two lists, nor both listed and unread.
ListedOnce ==
  /\ IsInjective(changeset_items)
  /\ \A k \in DOMAIN changesets_to_split :
       /\ IsInjective(changesets_to_split[k])
       /\ Range(changesets_to_split[k]) \cap Range(changeset_items) = {}
       /\ \A m \in DOMAIN changesets_to_split :
            m # k => Range(changesets_to_split[k]) \cap Range(changesets_to_split[m]) = {}
  /\ unread_revs \cap Pending = {}

\* Both databases say the same.
HeldBy(id) == {i \in DOMAIN cvs_item_to_changeset_id : cvs_item_to_changeset_id[i] = id}
DatabasesAgree == \A id \in DOMAIN changeset_db : changeset_db[id].items = HeldBy(id)

\* Every revision is in exactly one place all the time: unread, in the current
\* group, in one list on the stack, or in one stored changeset.
\* What is handed on in the end is OutputIsASource.
NothingLost ==
  /\ TypeOK
  /\ ListedOnce
  /\ unread_revs \cup Pending = Revisions \ DOMAIN cvs_item_to_changeset_id
  /\ DatabasesAgree
  /\ OutputIsASource

\* The dependencies among items with one end among the first k.
FirstItems(items, k) == {items[m] : m \in 1..k}
Cut(items, k) ==
  {d \in Dependencies(items) :
     (d[1] \in FirstItems(items, k)) # (d[2] \in FirstItems(items, k))}

\* break_internal_dependencies() counts right: for every index, as many
\* dependencies as there are with one end on each side; so a list that depends
\* on itself is always cut where that breaks some dependency.
BreaksCounted ==
  pc = "split" /\ changesets_to_split # <<>> =>
    LET items == Sorted(Last(changesets_to_split))
    IN  \A k \in 1..(Len(items) - 1) :
          /\ Breaks(items)[k] = Cardinality(Cut(items, k))
          /\ Dependencies(items) # {} /\ IsBestBreak(items, k) => Cut(items, k) # {}

\* No gap in time between the revisions in S is longer than the threshold.
Gapless(S) ==
  \A i \in S :
    LET Later == {j \in S : cvs_item[j].timestamp > cvs_item[i].timestamp}
    IN  Later # {} =>
          \E j \in Later :
            cvs_item[j].timestamp <= cvs_item[i].timestamp + COMMIT_THRESHOLD

\* The revisions of a changeset were committed by the same author with the same
\* log message, and no gap between two of them is longer than the threshold,
\* although the group they came from was cut at indexes that other revisions,
\* now elsewhere, had filled.
OneCommit ==
  \A id \in RevisionChangesets :
    /\ \A i, j \in changeset_db[id].items : metadata_id[i] = metadata_id[j]
    /\ Gapless(changeset_db[id].items)

\* Revision j is near enough after revision i to be part of its commit.
Near(i, j) ==
  /\ metadata_id[i] = metadata_id[j]
  /\ cvs_item[j].timestamp <= cvs_item[i].timestamp + COMMIT_THRESHOLD

\* The revisions with the metadata m, and those in the changesets up to a.
OfMetadata(m) == {j \in Revisions : metadata_id[j] = m}
StoredUpTo(m, a) ==
  {j \in OfMetadata(m) \cap DOMAIN cvs_item_to_changeset_id :
     cvs_item_to_changeset_id[j] <= a}

\* One in these changesets and one that is not depend on each other.
CutFor(m, a) ==
  \E x \in StoredUpTo(m, a), y \in OfMetadata(m) \ StoredUpTo(m, a) :
    x \in GetSuccIds(y) \/ y \in GetSuccIds(x)

\* Where the changesets a and a + 1 have the same metadata and are no further
\* apart than the threshold, a revision before the cut and one after it depend on
\* each other.
CutsNeeded ==
  \A a \in RevisionChangesets : a + 1 \in RevisionChangesets =>
    \A i \in changeset_db[a].items, j \in changeset_db[a + 1].items :
      Near(i, j) => CutFor(metadata_id[i], a)

\* A changeset is no more than one commit, and what could be one commit is cut
\* only for a dependency.
CutForDependency == OneCommit /\ BreaksCounted /\ CutsNeeded
=============================================================================

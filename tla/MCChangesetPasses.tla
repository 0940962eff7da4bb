------------------------- MODULE MCChangesetPasses -------------------------
(***************************************************************************)
(* The passes that work on changesets, each on files that show its hard    *)
(* cases; which pass a behaviour is about is chosen at its start.          *)
(*                                                                         *)
(* "initialize": InitializeChangesetsPass on three files, for every way of *)
(* giving the revisions one of two metadata ids and every order of the     *)
(* sorted file:                                                            *)
(*   file 1:  1 <- 2 <- 3 <- 4, the clock going back after 2               *)
(*   file 2:  5, and at the same time 6, the first commit on branch 7 of 5 *)
(*   file 3:  8, branch 9, tag 10                                          *)
(*                                                                         *)
(* "revisions": BreakRevisionChangesetCyclesPass on two files, in every    *)
(* grouping of the revisions into up to three changesets:                  *)
(*   file 1:  1 <- 2 <- 3                                                  *)
(*   file 2:  4 <- 5, and 6, the first commit on branch 7 of revision 4    *)
(*                                                                         *)
(* "sort": RevisionTopologicalSortPass on three files, in every grouping   *)
(* of the revisions that has no cycle, with two numberings of them:        *)
(*   file 1:  1 <- 2                                                       *)
(*   file 2:  3 <- 4, and 5, the first commit on branch 6 of revision 3    *)
(*   file 3:  7                                                            *)
(*                                                                         *)
(* "symbols": BreakSymbolChangesetCyclesPass on five files, in which       *)
(* branches 1, 2 and 3 sprout from each other in different orders:         *)
(*   file 1:  revision 1,  branch 1 <- branch 2 <- branch 3 <- tag 4       *)
(*   file 2:  revision 6,  branch 2 <- branch 3 <- branch 1                *)
(*   file 3:  revision 10, branch 3 <- branch 1, tag 4                     *)
(*   file 4:  revision 14, branch 1 <- branch 2                            *)
(*   file 5:  revision 17, branch 1, branch 3                              *)
(*                                                                         *)
(* "all": BreakAllChangesetCyclesPass on two files, in every order of the  *)
(* revisions:                                                              *)
(*   file 1:  revision 1, branch 2 <- branch 1 <- revision 4               *)
(*   file 2:  revision 5, branch 2, branch 1 <- revision 8                 *)
(*                                                                         *)
(* "last": TopologicalSortPass on three files, in every order of the       *)
(* revisions and every grouping of the symbols in at most two changesets   *)
(* per symbol that leave no cycle:                                         *)
(*   file 1:  revision 1, branch 1 <- revision 3                           *)
(*   file 2:  revision 4, branch 2 <- branch 1 <- revision 7               *)
(*   file 3:  revision 8, branch 1, tag 3                                  *)
(* Revision 4 is later than "now", and revision 7 is at the limit.         *)
(***************************************************************************)
EXTENDS MCItems

CONSTANTS None, TimeCeiling, MaxInt

InitializeRows == <<
  Revision(1, 0, 0, 0), Revision(3, 1, 0, 0), Revision(2, 2, 0, 0), Revision(4, 3, 0, 0),
  Revision(3, 0, 0, 0), Revision(3, 5, 7, 0), Symbol("branch", 1, 5),
  Revision(9, 0, 0, 0), Symbol("branch", 1, 8), Symbol("tag", 2, 8) >>

RevisionRows == <<
  Revision(1, 0, 0, 0), Revision(5, 1, 0, 0), Revision(6, 2, 0, 0),
  Revision(3, 0, 0, 0), Revision(4, 4, 0, 0), Revision(6, 4, 7, 0),
    Symbol("branch", 1, 4) >>

SortRows == <<
  Revision(1, 0, 0, 0), Revision(2, 1, 0, 0),
  Revision(3, 0, 0, 0), Revision(2, 3, 0, 0), Revision(5, 3, 6, 0),
    Symbol("branch", 1, 3),
  Revision(4, 0, 0, 0) >>

SymbolRows == <<
  Revision(1, 0, 0, 0), Symbol("branch", 1, 1), Symbol("branch", 2, 2),
    Symbol("branch", 3, 3), Symbol("tag", 4, 4),
  Revision(2, 0, 0, 0), Symbol("branch", 2, 6), Symbol("branch", 3, 7),
    Symbol("branch", 1, 8),
  Revision(3, 0, 0, 0), Symbol("branch", 3, 10), Symbol("branch", 1, 11),
    Symbol("tag", 4, 10),
  Revision(4, 0, 0, 0), Symbol("branch", 1, 14), Symbol("branch", 2, 15),
  Revision(5, 0, 0, 0), Symbol("branch", 1, 17), Symbol("branch", 3, 17) >>

AllRows == <<
  Revision(1, 0, 0, 0), Symbol("branch", 2, 1), Symbol("branch", 1, 2),
    Revision(4, 1, 3, 0),
  Revision(2, 0, 0, 0), Symbol("branch", 2, 5), Symbol("branch", 1, 5),
    Revision(3, 5, 7, 0) >>

LastRows == <<
  Revision(1, 0, 0, 0), Symbol("branch", 1, 1), Revision(2, 1, 2, 0),
  Revision(9, 0, 0, 0), Symbol("branch", 2, 4), Symbol("branch", 1, 5),
    Revision(5, 4, 6, 0),
  Revision(4, 0, 0, 0), Symbol("branch", 1, 8), Symbol("tag", 3, 8) >>

\* TLC evaluates the databases once.
InitializeDatabase == ItemDatabase(InitializeRows, None)
RevisionDatabase   == ItemDatabase(RevisionRows, None)
SortDatabase       == ItemDatabase(SortRows, None)
SymbolDatabase     == ItemDatabase(SymbolRows, None)
AllDatabase        == ItemDatabase(AllRows, None)
LastDatabase       == ItemDatabase(LastRows, None)

InitializeItem == DOMAIN InitializeRows
RevisionItem   == DOMAIN RevisionRows
SortItem       == DOMAIN SortRows
SymbolItem     == DOMAIN SymbolRows
AllItem        == DOMAIN AllRows
LastItem       == DOMAIN LastRows

\* The ways to split the symbols of a database in two of which the items of
\* Whole are in the first part; the parts of symbol n have ids 10n and 10n + 1.
Splits(database, Whole) ==
  LET Syms == {i \in DOMAIN database : database[i].kind # "revision"}
  IN  {[i \in Syms |-> 10 * database[i].symbol + part[i]] :
         part \in {f \in [Syms -> {0, 1}] : \A i \in Whole : f[i] = 0}}

SortOrderedIds == {<<4, 2, 5>>, <<12, 11, 10, 9, 8, 7>>}
SortSymbolIds  == {[i \in {6} |-> 3]}
AllOrderedIds  == {<<2, 5, 1, 4>>}
AllSymbolIds   == Splits(AllDatabase, {2, 3})
LastOrderedIds == {<<2, 5, 1, 4, 3>>, <<61, 64, 62, 65, 63>>}
LastSymbolIds  == Splits(LastDatabase, {2, 5, 10})

VARIABLES
  pass,  \* which of the passes it is
  changeset_db, cvs_item_to_changeset_id, nodes, nopred_nodes, pc, unread,
  key_base, seen_nodes, consumed,
  metadata_id, unread_revs, old_metadata_id, old_timestamp, changeset_items,
  changesets_to_split, unread_symbols,
  changeset_ids, next_i, revordered_db,
  branch_changeset_ids, next_ordered_changeset, ordered_changeset_ids,
  open_nodes, reachable_changesets, path,
  timestamp, sorted_changesets

I == INSTANCE InitializeChangesets WITH
  Item <- InitializeItem, cvs_item <- InitializeDatabase,
  Metadata <- {1, 2}, COMMIT_THRESHOLD <- 2,
  Rank <- [i \in DOMAIN InitializeRows |-> i]
R == INSTANCE BreakCycles WITH
  Item <- RevisionItem, cvs_item <- RevisionDatabase,
  Breakable <- {"revision"}, SourceId <- {1, 2, 3, 5}, OrderedIds <- {}, SymbolIds <- {}
Z == INSTANCE RevisionTopologicalSort WITH
  Item <- SortItem, cvs_item <- SortDatabase,
  OrderedIds <- SortOrderedIds, SymbolIds <- SortSymbolIds
S == INSTANCE BreakCycles WITH
  Item <- SymbolItem, cvs_item <- SymbolDatabase,
  Breakable <- {"branch", "tag"}, SourceId <- 1..5, OrderedIds <- {}, SymbolIds <- {}
A == INSTANCE BreakAllCycles WITH
  Item <- AllItem, cvs_item <- AllDatabase,
  OrderedIds <- AllOrderedIds, SymbolIds <- AllSymbolIds
T == INSTANCE TopologicalSort WITH
  Item <- LastItem, cvs_item <- LastDatabase,
  OrderedIds <- LastOrderedIds, SymbolIds <- LastSymbolIds, MaxTimestamp <- 5

ASSUME I!ConstantsOK

-----------------------------------------------------------------------------
(* What only some of the passes use.                                       *)

graph_vars == <<nodes, nopred_nodes, unread>>
read_vars == <<metadata_id, unread_revs, old_metadata_id, old_timestamp,
               changeset_items, changesets_to_split, unread_symbols>>
sort_vars == <<changeset_ids, next_i, revordered_db>>
break_vars == <<key_base, consumed>>
search_vars == <<branch_changeset_ids, next_ordered_changeset,
                 ordered_changeset_ids, open_nodes, reachable_changesets, path>>
last_vars == <<timestamp, sorted_changesets>>
all_vars == <<pass, changeset_db, cvs_item_to_changeset_id, pc, graph_vars,
              read_vars, sort_vars, break_vars, seen_nodes, search_vars, last_vars>>

NoGraph == nodes = <<>> /\ nopred_nodes = {} /\ unread = {}
NoRead ==
  /\ metadata_id = <<>> /\ unread_revs = {} /\ old_metadata_id = None
  /\ old_timestamp = None /\ changeset_items = <<>>
  /\ changesets_to_split = <<>> /\ unread_symbols = {}
NoSort == changeset_ids = <<>> /\ next_i = 0 /\ revordered_db = <<>>
NoBreak == key_base = 0 /\ consumed = {}
NoCycle == seen_nodes = <<>>
NoSearch ==
  /\ branch_changeset_ids = <<>> /\ next_ordered_changeset = 0
  /\ ordered_changeset_ids = {} /\ open_nodes = <<>>
  /\ reachable_changesets = <<>> /\ path = <<>>
NoLast == timestamp = 0 /\ sorted_changesets = <<>>

-----------------------------------------------------------------------------
Init ==
  \/ /\ pass = "initialize" /\ I!Init
     /\ NoGraph /\ NoSort /\ consumed = {} /\ NoCycle /\ NoSearch /\ NoLast
  \/ /\ pass = "revisions" /\ R!Init
     /\ NoRead /\ NoSort /\ NoSearch /\ NoLast
  \/ /\ pass = "sort" /\ Z!Init
     /\ NoRead /\ NoBreak /\ NoCycle /\ NoSearch /\ NoLast
  \/ /\ pass = "symbols" /\ S!Init
     /\ NoRead /\ NoSort /\ NoSearch /\ NoLast
  \/ /\ pass = "all" /\ A!Init
     /\ NoRead /\ NoSort /\ NoCycle /\ NoLast
  \/ /\ pass = "last" /\ T!Init
     /\ NoRead /\ NoSort /\ NoBreak /\ NoCycle /\ NoSearch

InitializeChangesets ==
  /\ pass = "initialize" /\ I!Next
  /\ UNCHANGED <<pass, graph_vars, sort_vars, consumed, seen_nodes, search_vars, last_vars>>

BreakRevisionCycles ==
  /\ pass = "revisions" /\ R!Next
  /\ UNCHANGED <<pass, read_vars, sort_vars, search_vars, last_vars>>

SortRevisions ==
  /\ pass = "sort" /\ Z!Next
  /\ UNCHANGED <<pass, read_vars, break_vars, seen_nodes, search_vars, last_vars>>

BreakSymbolCycles ==
  /\ pass = "symbols" /\ S!Next
  /\ UNCHANGED <<pass, read_vars, sort_vars, search_vars, last_vars>>

BreakAllCycles ==
  /\ pass = "all" /\ A!Next
  /\ UNCHANGED <<pass, read_vars, sort_vars, seen_nodes, last_vars>>

SortAll ==
  /\ pass = "last" /\ T!Next
  /\ UNCHANGED <<pass, read_vars, sort_vars, break_vars, seen_nodes, search_vars>>

Next ==
  \/ InitializeChangesets
  \/ BreakRevisionCycles
  \/ SortRevisions
  \/ BreakSymbolCycles
  \/ BreakAllCycles
  \/ SortAll

\* Every pass is one single-threaded loop: while it has a next step, it takes it.
\* For the passes that only sort, nothing is checked that depends on it.
Fairness ==
  /\ WF_all_vars(BreakRevisionCycles)
  /\ WF_all_vars(BreakSymbolCycles)
  /\ WF_all_vars(BreakAllCycles)
Spec == Init /\ [][Next]_all_vars /\ Fairness

-----------------------------------------------------------------------------
\* InitializeChangesetsPass: every revision is in exactly one place all the
\* time, and in the end in the databases that the next pass starts from.
NothingLost == pass = "initialize" => I!NothingLost

\* A changeset is no more than one commit, and what could be one commit is cut
\* only for a dependency, at the place where the cut breaks most of them.
CutForDependency == pass = "initialize" => I!CutForDependency

\* RevisionTopologicalSortPass leaves the same changesets, in one order without
\* gaps that respects every dependency, the oldest first, and properly linked.
OutputIsOrdered == pass = "sort" => Z!OutputIsOrdered

\* TopologicalSortPass: a commit's time is the latest time that a changeset up
\* to it asks for, a second being added for each commit since.
TimestampsExact == pass = "last" => T!TimestampsExact

\* TopologicalSortPass fits the changesets of symbols in, each as soon as it can
\* be, and does not rearrange the others.
SkeletonKept == pass = "last" => T!SkeletonKept

\* Breaking cycles comes to an end.
Termination == pass \in {"revisions", "symbols", "all"} => <>(pc = "done")

\* The passes that break the cycles of revisions and of all changesets emit
\* them in dependency order, each item once, and all of them.
Order == INSTANCE CommitOrder WITH
  work      <- CASE pass = "revisions" -> R!Revisions
                 [] pass = "all" -> DOMAIN AllRows
                 [] OTHER -> {},
  preds     <- CASE pass = "revisions" -> [i \in DOMAIN RevisionRows |-> R!GetPredIds(i)]
                 [] pass = "all" -> [i \in DOMAIN AllRows |-> A!GetPredIds(i)]
                 [] OTHER -> <<>>,
  committed <- IF pass \in {"revisions", "all"}
               THEN UNION {changeset_db[id].items : id \in consumed} ELSE {}
ImplementsCommitOrder == Order!Spec
=============================================================================

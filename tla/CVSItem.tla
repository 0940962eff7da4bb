------------------------------ MODULE CVSItem ------------------------------
(***************************************************************************)
(* The CVS items of a conversion and the dependencies among them           *)
(* (cvs_item.py).  An item is a CVSRevision, a CVSBranch or a CVSTag; the  *)
(* links it stores name other items of the same RCS file by id, and every  *)
(* later pass derives its dependency graph from get_pred_ids() and         *)
(* get_succ_ids().                                                         *)
(***************************************************************************)
EXTENDS Integers, FiniteSets, Sequences

CONSTANTS
  Item,      \* the ids of the CVSItems that survived FilterSymbolsPass
  cvs_item,  \* the item database: id -> record of links (see ItemRecord)
  None       \* Python's None

(***************************************************************************)
(* One record shape serves the three classes: a link that a class does not *)
(* have is None or the empty set.  Timestamps are abstract naturals.       *)
(***************************************************************************)
ItemRecord ==
  [ kind               : {"revision", "branch", "tag"},
    timestamp          : Nat,
    symbol             : Nat,           \* CVSSymbol.symbol; 0 for revisions
    prev_id            : Item \cup {None},
    next_id            : Item \cup {None},
    first_on_branch_id : Item \cup {None},
    ntdbr_prev_id      : Item \cup {None},
    ntdbr_next_id      : Item \cup {None},
    source_id          : Item \cup {None},
    branch_ids         : SUBSET Item,
    tag_ids            : SUBSET Item,
    branch_commit_ids  : SUBSET Item ]

IsRevision(i) == cvs_item[i].kind = "revision"
IsSymbol(i)   == cvs_item[i].kind \in {"branch", "tag"}

-----------------------------------------------------------------------------
\* CVSRevision.get_symbol_pred_ids(): the branch this revision is first on.
GetSymbolPredIds(i) == {cvs_item[i].first_on_branch_id} \ {None}

\* CVSRevision.get_symbol_succ_ids(): the symbols rooted at this revision.
GetSymbolSuccIds(i) == cvs_item[i].branch_ids \cup cvs_item[i].tag_ids

\* get_pred_ids() of the three classes: the direct predecessors of an item.
GetPredIds(i) ==
  IF IsRevision(i)
  THEN GetSymbolPredIds(i)
         \cup ({cvs_item[i].prev_id, cvs_item[i].ntdbr_prev_id} \ {None})
  ELSE {cvs_item[i].source_id}

\* get_succ_ids() of the three classes: the direct successors of an item.
GetSuccIds(i) ==
  IF IsRevision(i)
  THEN GetSymbolSuccIds(i) \cup cvs_item[i].branch_commit_ids
         \cup ({cvs_item[i].next_id, cvs_item[i].ntdbr_next_id} \ {None})
  ELSE IF cvs_item[i].kind = "branch"
       THEN GetSymbolSuccIds(i) \cup ({cvs_item[i].next_id} \ {None})
       ELSE {}

-----------------------------------------------------------------------------
(***************************************************************************)
(* What check_links() asserts of every item: the links come in pairs.      *)
(***************************************************************************)
RevisionLinks(i) ==
  LET r == cvs_item[i] IN
  /\ r.source_id = None
  /\ r.prev_id # None =>
       /\ IsRevision(r.prev_id)
       /\ IF r.first_on_branch_id = None
          THEN cvs_item[r.prev_id].next_id = i
          ELSE i \in cvs_item[r.prev_id].branch_commit_ids
  /\ r.first_on_branch_id # None =>
       /\ cvs_item[r.first_on_branch_id].kind = "branch"
       /\ cvs_item[r.first_on_branch_id].next_id = i
  /\ r.next_id # None =>
       IsRevision(r.next_id) /\ cvs_item[r.next_id].prev_id = i
  /\ r.ntdbr_next_id # None =>
       IsRevision(r.ntdbr_next_id) /\ cvs_item[r.ntdbr_next_id].ntdbr_prev_id = i
  /\ r.ntdbr_prev_id # None =>
       IsRevision(r.ntdbr_prev_id) /\ cvs_item[r.ntdbr_prev_id].ntdbr_next_id = i
  /\ \A b \in r.branch_commit_ids :
       /\ IsRevision(b)
       /\ cvs_item[b].prev_id = i
       /\ cvs_item[b].first_on_branch_id # None

SymbolLinks(i) ==
  LET r == cvs_item[i] IN
  /\ r.source_id # None
  /\ cvs_item[r.source_id].kind \in {"revision", "branch"}
  /\ IF r.kind = "branch" THEN i \in cvs_item[r.source_id].branch_ids
                          ELSE i \in cvs_item[r.source_id].tag_ids
  /\ r.next_id # None =>
       /\ IsRevision(r.next_id)
       /\ cvs_item[r.next_id].first_on_branch_id = i

CheckLinks(i) ==
  /\ IF IsRevision(i) THEN RevisionLinks(i) ELSE SymbolLinks(i)
  /\ \A t \in cvs_item[i].tag_ids :
       cvs_item[t].kind = "tag" /\ cvs_item[t].source_id = i
  /\ \A b \in cvs_item[i].branch_ids :
       cvs_item[b].kind = "branch" /\ cvs_item[b].source_id = i

(***************************************************************************)
(* The item databases the later passes can meet.  Well-foundedness is what *)
(* RCS revision numbers give: every link to a predecessor leads to an item *)
(* closer to the root of the file, so each set of items has a member whose *)
(* predecessors all lie outside the set.                                   *)
(***************************************************************************)
ASSUME NoneAssumption  == None \notin Item \cup Nat
ASSUME ItemAssumption  == Item # {} /\ IsFiniteSet(Item)
ASSUME LinksAssumption ==
  /\ cvs_item \in [Item -> ItemRecord]
  /\ \A i \in Item : CheckLinks(i)

\* A revision has no symbol.
ASSUME RevisionAssumption == \A i \in Item : IsRevision(i) => cvs_item[i].symbol = 0

\* A symbol is a branch or a tag in the whole project, and a file has it once.
ASSUME SymbolAssumption ==
  \A i, j \in Item : IsSymbol(i) /\ IsSymbol(j) /\ cvs_item[i].symbol = cvs_item[j].symbol =>
    cvs_item[i].kind = cvs_item[j].kind /\ j \notin GetPredIds(i)
ASSUME ItemsWellFounded ==
  \A S \in SUBSET Item : S # {} => \E i \in S : GetPredIds(i) \cap S = {}
=============================================================================

------------------------------ MODULE MCItems ------------------------------
(***************************************************************************)
(* The items of the small instances: item databases, from one row per item *)
(* (its kind, timestamp and symbol, and the links towards the root of its  *)
(* file; the links in the other direction follow), and small RCS files.    *)
(***************************************************************************)
EXTENDS Integers, FiniteSets, Sequences

\* pred is prev_id of a revision and source_id of a symbol; 0 is no link.
Revision(t, pred, first, ntdbr) ==
  [kind |-> "revision", t |-> t, symbol |-> 0,
   pred |-> pred, first |-> first, ntdbr |-> ntdbr]
Symbol(kind, symbol, pred) ==
  [kind |-> kind, t |-> 0, symbol |-> symbol,
   pred |-> pred, first |-> 0, ntdbr |-> 0]

The(S, None) == IF S = {} THEN None ELSE CHOOSE x \in S : TRUE
LinkTo(x, None) == IF x = 0 THEN None ELSE x

\* rows is a sequence; item i is described by rows[i].
ItemDatabase(rows, None) ==
  LET I == DOMAIN rows
      Revisions == {i \in I : rows[i].kind = "revision"}
      Rooted(i, k) == {j \in I : rows[j].kind = k /\ rows[j].pred = i}
  IN  [i \in I |->
    [ kind      |-> rows[i].kind,
      timestamp |-> rows[i].t,
      symbol    |-> rows[i].symbol,
      prev_id   |-> IF i \in Revisions THEN LinkTo(rows[i].pred, None) ELSE None,
      source_id |-> IF i \in Revisions THEN None ELSE rows[i].pred,
      first_on_branch_id |-> LinkTo(rows[i].first, None),
      ntdbr_prev_id      |-> LinkTo(rows[i].ntdbr, None),
      next_id   |-> IF i \in Revisions
                    THEN The({j \in Rooted(i, "revision") : rows[j].first = 0}, None)
                    ELSE The({j \in Revisions : rows[j].first = i}, None),
      ntdbr_next_id     |-> The({j \in Revisions : rows[j].ntdbr = i}, None),
      branch_ids        |-> Rooted(i, "branch"),
      tag_ids           |-> Rooted(i, "tag"),
      branch_commit_ids |-> {j \in Rooted(i, "revision") : rows[j].first # 0} ]]

-----------------------------------------------------------------------------
(***************************************************************************)
(* The files:    trunk revisions 1 (1.1) and 2 (1.2), a vendor branch 11   *)
(* with revisions 12 and 13, a branch 21 with revisions 22 and 23, and a   *)
(* branch or tag 31 without revisions.  The files of the first family were *)
(* imported or have a default branch, those of the second were added on a  *)
(* branch.  An item starts out as new.                                     *)
(***************************************************************************)
Vendor == 1
B == 2
C == 3

\* Shape of a file: how many revisions are on trunk, on the vendor branch and
\* on B; where B and C sprout (0: nowhere); whether C is a tag; the order of
\* the branches; which revisions are dead; how many vendor revisions are
\* older than 1.2; whether 1.1.1.1 has a deltatext; the two file attributes.
Trunks(s) == 1 .. s.trunk
Vendors(s) == 12 .. 11 + s.vendor
BRevs(s) == 22 .. 21 + s.b

SourceOf(s, i) == CASE i = 11 -> 1 [] i = 21 -> s.b_at [] i = 31 -> s.c_at
Symbolic(s) ==
  {i \in {11, 21, 31} : IF i = 11 THEN s.vendor >= 0 ELSE SourceOf(s, i) # 0}
PrevOf(new, s, i) ==
  CASE i = 1 -> new.prev_id [] i = 12 -> 1 [] i = 22 -> s.b_at [] OTHER -> i - 1
IsLive(new, s, i) == i # new.prev_id /\ i \notin s.dead
At(s, i) == {b \in Symbolic(s) : SourceOf(s, b) = i}

RevisionOf(new, s, i) ==
  LET revs == Trunks(s) \cup Vendors(s) \cup BRevs(s)
      branches == At(s, i) \ (IF s.c_tag THEN {31} ELSE {})
  IN  [new EXCEPT
        !.live = IsLive(new, s, i), !.pred_live = IsLive(new, s, PrevOf(new, s, i)),
        !.lod = CASE i < 11 -> new.lod [] i \in 12 .. 13 -> Vendor [] OTHER -> B,
        !.is_rev_1_1 = (i = 1),
        !.timestamp = CASE i = 1 -> 0 [] i = 2 -> 2
                        [] i \in 12 .. 13 -> IF i - 11 <= s.early THEN 1 ELSE 2
                        [] OTHER -> 3,
        !.log = IF s.added /\ i = 1 THEN "initially added on branch"
                ELSE IF s.added_b /\ i = 22 THEN "added on branch" ELSE "other",
        !.deltatext_exists = (i # 12 \/ s.delta),
        !.prev_id = PrevOf(new, s, i),
        !.next_id = IF i + 1 \in revs THEN i + 1 ELSE new.prev_id,
        !.first_on_branch_id = IF i \in {12, 22} THEN i - 1 ELSE new.prev_id,
        !.tag_ids = At(s, i) \ branches,
        !.branch_ids = SelectSeq(s.order, LAMBDA b : b \in branches),
        !.branch_commit_ids = {b + 1 : b \in branches} \cap revs]

SymbolOf(new, s, i) ==
  [new EXCEPT
    !.kind = IF i = 31 /\ s.c_tag THEN "tag" ELSE "branch",
    !.symbol = (i - 1) \div 10,
    !.next_id = IF i + 1 \in Vendors(s) \cup BRevs(s) THEN i + 1 ELSE new.prev_id,
    !.source_id = SourceOf(s, i),
    !.source_lod = CASE SourceOf(s, i) < 11 -> new.lod
                     [] SourceOf(s, i) \in 12 .. 13 -> Vendor [] OTHER -> B]

FileOf(new, s) ==
  LET revs == Trunks(s) \cup Vendors(s) \cup BRevs(s)
  IN  [item |-> [i \in revs \cup Symbolic(s) |->
                   IF i \in revs THEN RevisionOf(new, s, i) ELSE SymbolOf(new, s, i)],
       default_branch |-> IF s.default THEN 11 ELSE new.prev_id,
       vendor_branch |-> IF s.vendor >= 0 THEN 11 ELSE new.prev_id,
       file_imported |-> s.imported]

\* The first family: what default branches, past or present, lead to.
VendorShapes ==
  {[trunk |-> trunk, vendor |-> vendor, b |-> b, b_at |-> b_at, c_at |-> c_at,
    c_tag |-> c_tag, order |-> order, dead |-> dead, early |-> early,
    delta |-> delta, default |-> default, imported |-> imported,
    added |-> FALSE, added_b |-> FALSE] :
     trunk \in 1 .. 2, vendor \in 0 .. 2, b \in 0 .. 1, b_at \in {1, 12},
     c_at \in {1, 12, 22}, c_tag \in BOOLEAN, order \in {<<11, 21, 31>>, <<31, 21, 11>>},
     dead \in {{}, {2}, {13}}, early \in 1 .. 2, delta \in BOOLEAN,
     default \in BOOLEAN, imported \in BOOLEAN}

\* The second: files added on a branch.
AddedShapes ==
  {[trunk |-> trunk, vendor |-> -1, b |-> b, b_at |-> 1, c_at |-> c_at,
    c_tag |-> c_tag, order |-> order, dead |-> dead, early |-> 0,
    delta |-> TRUE, default |-> FALSE, imported |-> FALSE,
    added |-> 1 \in dead, added_b |-> added_b] :
     trunk \in 1 .. 2, b \in 1 .. 2, c_at \in {1, 22}, c_tag \in BOOLEAN,
     order \in {<<11, 21, 31>>, <<31, 21, 11>>},
     dead \in {{1}, {22}, {1, 22}}, added_b \in BOOLEAN}

\* B and C sprout from revisions that exist, and only dead revisions were
\* "added on branch".
IsShape(s) ==
  /\ s.b_at \in Trunks(s) \cup Vendors(s)
  /\ s.c_at \in Trunks(s) \cup Vendors(s) \cup BRevs(s)
  /\ s.dead \subseteq Trunks(s) \cup Vendors(s) \cup BRevs(s)
  /\ s.added_b => 22 \in s.dead
  /\ s.c_tag => s.order = <<11, 21, 31>>
=============================================================================

--------------------------- MODULE CVSFileItems ---------------------------
(***************************************************************************)
(* The items of one RCS file, from the parser to the changeset passes      *)
(* (cvs_file_items.py).  CollectRevsPass repairs what CVS's vendor         *)
(* branches and "added on branch" conventions leave in the file;           *)
(* CollateSymbolsPass decides for every symbol whether it becomes a        *)
(* branch, a tag or nothing; FilterSymbolsPass rewrites the file           *)
(* accordingly.  Every rewriting edits a doubly linked structure of        *)
(* revisions, branches and tags in place, one line of development (LOD)    *)
(* after the other, from the leaves to the trunk.                          *)
(***************************************************************************)
EXTENDS FileItems

CONSTANTS
  Symbols,  \* the names of the branches and tags of the project
  Parsed    \* the files the parser can hand over (see IsParsed)

VARIABLES
  parsed,         \* the file as it was parsed, for comparison
  file,           \* CVSFileItems: [item |-> _cvs_items, root |-> root_ids]
  trunk_only,     \* Ctx().trunk_only
  fatal,          \* record_fatal_error() was called for this file
  pc,             \* the step of the conversion that is running
  pending,        \* what the running loop has still to visit
  ntdbr_excluded, \* the local variable of filter_excluded_symbols()
  fate            \* symbol -> what CollateSymbolsPass makes of it

vars == <<parsed, file, trunk_only, fatal, pc, pending, ntdbr_excluded, fate>>

-----------------------------------------------------------------------------
\* _FileDataCollector._process_ntdbrs() of a file with a default branch...
ProcessLiveNtdb ==
  /\ pc = "parsed"
  /\ parsed.default_branch \in Ids(file)
  /\ LET b == parsed.default_branch
     IN  /\ fatal' = (file.item[file.item[b].source_id].next_id # None)
         /\ file' = IF fatal' THEN file
                    ELSE LiveNtdbProcessed(file, b, parsed.file_imported)
  /\ pc' = "ntdbrs_processed"
  /\ UNCHANGED <<parsed, trunk_only, pending, ntdbr_excluded, fate>>

\* ... of a file that looks as if it once had one ...
ProcessHistoricalNtdb ==
  /\ pc = "parsed"
  /\ parsed.default_branch = None
  /\ parsed.file_imported
  /\ parsed.vendor_branch # None
  /\ file' = HistoricalNtdbProcessed(file, parsed.vendor_branch)
  /\ pc' = "ntdbrs_processed"
  /\ UNCHANGED <<parsed, trunk_only, fatal, pending, ntdbr_excluded, fate>>

\* ... and of any other.
NoNtdb ==
  /\ pc = "parsed"
  /\ parsed.default_branch \notin Ids(file)
  /\ parsed.default_branch = None => ~parsed.file_imported \/ parsed.vendor_branch = None
  /\ pc' = "ntdbrs_processed"
  /\ UNCHANGED <<parsed, file, trunk_only, fatal, pending, ntdbr_excluded, fate>>

\* CollectData._process_cvs_file_items()
RemoveUnneededInitialTrunkDelete ==
  /\ pc = "ntdbrs_processed"
  /\ LET unneeded == UnneededTrunkDeletes(file)
     IN  file' = IF unneeded = {} THEN file
                 ELSE RemoveTrunkDelete(file, CHOOSE i \in unneeded : TRUE)
  /\ pending' = Lods(file')
  /\ pc' = "branch_deletes"
  /\ UNCHANGED <<parsed, trunk_only, fatal, ntdbr_excluded, fate>>

RemoveInitialBranchDeletes ==
  /\ pc = "branch_deletes"
  /\ \E s \in LeafLods(file, pending) :
       /\ file' = RemoveBranchDelete(file, s)
       /\ pending' = pending \ {s}
  /\ UNCHANGED <<parsed, trunk_only, fatal, pc, ntdbr_excluded, fate>>

EndOfBranchDeletes ==
  /\ pc = "branch_deletes" /\ pending = {}
  /\ pc' = IF trunk_only THEN "exclude_non_trunk" ELSE "collected"
  /\ pending' = IF trunk_only THEN Lods(file) ELSE {}
  /\ UNCHANGED <<parsed, file, trunk_only, fatal, ntdbr_excluded, fate>>

\* One turn of the loops of exclude_non_trunk() and filter_excluded_symbols().
Exclude(excluded) ==
  /\ \E s \in LeafLods(file, pending) :
       /\ file' = ExcludeFrom(file, s, excluded)
       /\ ntdbr_excluded' =
            (ntdbr_excluded \/ (LodAt(file, s) \in excluded /\ StartsWithNtdbr(file, s)))
       /\ pending' = pending \ {s}
  /\ UNCHANGED <<parsed, trunk_only, fatal, pc, fate>>

ExcludeNonTrunk == pc = "exclude_non_trunk" /\ Exclude(Symbols)

EndOfExcludeNonTrunk ==
  /\ pc = "exclude_non_trunk" /\ pending = {}
  /\ file' = GraftIfExcluded(file, ntdbr_excluded)
  /\ ntdbr_excluded' = FALSE
  /\ pc' = "collected"
  /\ UNCHANGED <<parsed, trunk_only, fatal, pending, fate>>

-----------------------------------------------------------------------------
(***************************************************************************)
(* CollateSymbolsPass: the symbol strategies may decide anything that      *)
(* SymbolStatistics.check_consistency() accepts.  The other files of the   *)
(* project can only add to its objections.                                 *)
(***************************************************************************)
CollateSymbols ==
  /\ pc = "collected"
  /\ ~fatal
  /\ fate' \in {f \in [Symbols -> {"branch", "tag", "exclude"}] : IsConsistent(file, f)}
  /\ pending' = Lods(file)
  /\ pc' = "filter"
  /\ UNCHANGED <<parsed, file, trunk_only, fatal, ntdbr_excluded>>

\* FilterSymbolsPass.run()
FilterExcludedSymbols == pc = "filter" /\ Exclude(ExcludedOf(fate))

EndOfFilter ==
  /\ pc = "filter" /\ pending = {}
  /\ file' = GraftIfExcluded(file, ntdbr_excluded)
  /\ ntdbr_excluded' = FALSE
  /\ pending' = {i \in Ids(file') : ~IsRev(file', i)}
  /\ pc' = "mutate"
  /\ UNCHANGED <<parsed, trunk_only, fatal, fate>>

\* mutate_symbols() visits the items in the order of a dict.
MutateSymbol ==
  /\ pc = "mutate"
  /\ \E i \in pending :
       /\ pending' = pending \ {i}
       /\ file' = CASE IsBranch(file, i) /\ fate[file.item[i].symbol] = "tag" ->
                         MutateBranchToTag(file, i)
                    [] ~IsBranch(file, i) /\ fate[file.item[i].symbol] = "branch" ->
                         MutateTagToBranch(file, i)
                    [] OTHER -> file
  /\ UNCHANGED <<parsed, trunk_only, fatal, pc, ntdbr_excluded, fate>>

EndOfMutate ==
  /\ pc = "mutate" /\ pending = {}
  /\ pending' = {i \in Ids(file) : ~IsRev(file, i)}
  /\ pc' = "adjust"
  /\ UNCHANGED <<parsed, file, trunk_only, fatal, ntdbr_excluded, fate>>

(***************************************************************************)
(* adjust_parents() moves the symbols of an LOD after those of the LODs    *)
(* that sprout from it, tags before branches, and the branches of an LOD   *)
(* from the last to the first.                                             *)
(***************************************************************************)
SiblingsAfter(i) ==
  LET branch_ids == file.item[file.item[i].source_id].branch_ids
  IN  {branch_ids[k] : k \in {k \in DOMAIN branch_ids :
         \E l \in 1 .. k - 1 : branch_ids[l] = i}}

MayAdjust(i) ==
  LET siblings == {j \in pending : file.item[j].source_id = file.item[i].source_id}
  IN  IF IsBranch(file, i)
      THEN /\ \A j \in siblings : IsBranch(file, j)
           /\ SiblingsAfter(i) \cap pending = {}
           /\ TagsOf(file, i) \cap pending = {}
           /\ BranchesOf(file, i) \cap pending = {}
      ELSE TRUE

AdjustParents ==
  /\ pc = "adjust"
  /\ \E i \in {i \in pending : MayAdjust(i)} :
       \E preferred_parent \in
           {Trunk} \cup (Symbols \ (ExcludedOf(fate) \cup {file.item[i].symbol})) :
         /\ file' = AdjustParent(file, i, preferred_parent)
         /\ pending' = pending \ {i}
  /\ UNCHANGED <<parsed, trunk_only, fatal, pc, ntdbr_excluded, fate>>

\* refine_symbols(), record_opened_symbols() and record_closed_symbols().
Record ==
  /\ pc = "adjust" /\ pending = {}
  /\ file' = RecordSymbols(RefineSymbols(file))
  /\ pc' = "done"
  /\ UNCHANGED <<parsed, trunk_only, fatal, pending, ntdbr_excluded, fate>>

\* The revisions of a parsed file that have none before them.
RootIds(p) ==
  {i \in DOMAIN p.item : p.item[i].kind = "revision" /\ p.item[i].prev_id = None}

Init ==
  /\ parsed \in Parsed
  /\ file = [item |-> parsed.item, root |-> RootIds(parsed)]
  /\ trunk_only \in BOOLEAN
  /\ fatal = FALSE
  /\ pc = "parsed"
  /\ pending = {}
  /\ ntdbr_excluded = FALSE
  /\ fate = [x \in Symbols |-> "exclude"]

Next ==
  \/ ProcessLiveNtdb \/ ProcessHistoricalNtdb \/ NoNtdb
  \/ RemoveUnneededInitialTrunkDelete
  \/ RemoveInitialBranchDeletes \/ EndOfBranchDeletes
  \/ ExcludeNonTrunk \/ EndOfExcludeNonTrunk
  \/ CollateSymbols
  \/ FilterExcludedSymbols \/ EndOfFilter
  \/ MutateSymbol \/ EndOfMutate
  \/ AdjustParents
  \/ Record

Spec == Init /\ [][Next]_vars

-----------------------------------------------------------------------------
ASSUME NamesAssumption  == Trunk \in Nat /\ Symbols \subseteq Nat \ {Trunk} /\ None \notin Nat
ASSUME ParsedAssumption ==
  \A p \in Parsed :
    /\ IsParsed(p)
    /\ \A i \in DOMAIN p.item : p.item[i].kind # "revision" => p.item[i].symbol \in Symbols

(***************************************************************************)
(* Between two methods the file is linked as check_links() wants it, not   *)
(* only where the code calls check_link_consistency(), and between two     *)
(* turns of a loop too.  While parents are adjusted every symbol still to  *)
(* be adjusted sprouts from a revision, which both methods assert.         *)
(***************************************************************************)
LinksConsistent ==
  /\ LinksHold(file)
  /\ pc = "adjust" => \A i \in pending : IsRev(file, file.item[i].source_id)

-----------------------------------------------------------------------------
\* The content of a revision of the parsed file: without a deltatext it is
\* that of the revision before.
Content(i) ==
  LET r == parsed.item
      text[j \in DOMAIN r] == IF ~r[j].live THEN None
                              ELSE IF r[j].deltatext_exists \/ r[j].prev_id = None THEN j
                              ELSE text[r[j].prev_id]
  IN  text[i]

\* What a checkout of x yields: its last revision, or what it sprouts from.
Checkout(f, x) ==
  LET revs == {i \in Ids(f) : IsRev(f, i) /\ f.item[i].lod = x}
      roots == {i \in Ids(f) : ~IsRev(f, i) /\ f.item[i].symbol = x}
  IN  IF revs # {} THEN Content(CHOOSE i \in revs : f.item[i].next_id = None)
      ELSE IF roots # {} THEN Content(RevisionSource(f, CHOOSE i \in roots : TRUE))
      ELSE None

\* On trunk CVS takes the default branch instead, and the conversion copies
\* the revisions of that branch to trunk until 1.2.
DefaultBranch(p) ==
  IF p.default_branch # None THEN p.default_branch
  ELSE IF p.file_imported /\ p.vendor_branch # None
            /\ p.item[p.item[p.vendor_branch].source_id].next_id = None
       THEN p.vendor_branch ELSE None

TrunkBefore ==
  LET b == DefaultBranch(parsed)
  IN  IF b \in DOMAIN parsed.item /\ parsed.item[b].next_id # None
      THEN Checkout(parsed, parsed.item[b].symbol) ELSE Checkout(parsed, Trunk)

TrunkAfter ==
  LET ends == {i \in Ids(file) : /\ IsRev(file, i) /\ file.item[i].ntdbr
                                 /\ file.item[i].next_id = None
                                 /\ file.item[i].ntdbr_next_id = None}
  IN  IF ends # {} THEN Content(CHOOSE i \in ends : TRUE) ELSE Checkout(file, Trunk)

(***************************************************************************)
(* Rewriting the file never changes what a checkout yields: of trunk, of   *)
(* an included branch or of an included tag, whichever revisions were      *)
(* removed, grafted, severed or given another parent on the way.           *)
(***************************************************************************)
ContentKept ==
  pc = "done" =>
    /\ TrunkAfter = TrunkBefore
    /\ ~trunk_only =>
         \A x \in Symbols \ ExcludedOf(fate) : Checkout(file, x) = Checkout(parsed, x)

(***************************************************************************)
(* Symbols opened by an item are closed by exactly one revision, the one   *)
(* that replaces the item's content on its LOD, if any: SymbolingsReader   *)
(* rejects a second closing, and a missing one would let a symbol be       *)
(* copied from a revision that has other content.                          *)
(***************************************************************************)
Replaces(f, i, x) ==
  LET posts == {y \in Ids(f) : IsRev(f, y) /\ f.item[y].ntdbr
                                 /\ f.item[y].first_on_branch_id # None
                                 /\ f.item[y].prev_id = x}
  IN  IF posts # {} THEN i \in posts ELSE f.item[x].next_id = i

ClosedByItsSuccessor ==
  pc = "done" =>
    \A x \in Ids(file) : \A s \in file.item[x].opened_symbols :
      {i \in Ids(file) : s \in file.item[i].closed_symbols} =
        {i \in Ids(file) : Replaces(file, i, x)}

-----------------------------------------------------------------------------
\* The file as the changeset passes read it.
Handed ==
  [i \in Ids(file) |->
    LET r == file.item[i]
    IN  [kind |-> r.kind, timestamp |-> r.timestamp,
         symbol |-> IF IsRev(file, i) THEN 0 ELSE r.symbol,
         prev_id |-> r.prev_id, next_id |-> r.next_id,
         first_on_branch_id |-> r.first_on_branch_id,
         ntdbr_prev_id |-> r.ntdbr_prev_id, ntdbr_next_id |-> r.ntdbr_next_id,
         source_id |-> r.source_id, branch_ids |-> ToSet(r.branch_ids),
         tag_ids |-> r.tag_ids, branch_commit_ids |-> r.branch_commit_ids]]

Changeset == INSTANCE CVSItem WITH Item <- Ids(file), cvs_item <- Handed

(***************************************************************************)
(* The finished file satisfies everything that CVSItem and BreakAllCycles  *)
(* assume of the item database: links in pairs and to items of the right   *)
(* class, no circle, no symbol twice, and a first revision on a branch     *)
(* that follows the revision the branch comes from.                        *)
(***************************************************************************)
FeedsChangesets ==
  pc = "done" =>
    /\ Handed \in [Ids(file) -> Changeset!ItemRecord]
    /\ \A i \in Ids(file) : Changeset!CheckLinks(i)
    /\ LET preds == [i \in Ids(file) |-> Changeset!GetPredIds(i)]
       IN  \A S \in SUBSET Ids(file) : S # {} => \E i \in S : preds[i] \cap S = {}
    /\ \A i, j \in Ids(file) : i # j /\ ~IsRev(file, i) /\ ~IsRev(file, j) =>
         file.item[i].symbol # file.item[j].symbol
    /\ \A i \in Ids(file) : LET b == file.item[i].first_on_branch_id
         IN  b # None => RevisionSource(file, b) = file.item[i].prev_id
=============================================================================

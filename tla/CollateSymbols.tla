--------------------------- MODULE CollateSymbols ---------------------------
(***************************************************************************)
(* From the files of a project to the plan for its symbols:                *)
(* CollectRevsPass registers the statistics of one file after the other,   *)
(* CollateSymbolsPass applies the strategy rules to them, checks the plan  *)
(* and stores it for the passes that follow (passes.py).  A conversion     *)
(* ends with a plan, or the user has to change the options.                *)
(***************************************************************************)
EXTENDS FileItems, Bags

CONSTANTS
  Files,   \* the files CollectData may hand over, of type FileItems
  Options  \* what the user may ask for (see RulesOf)

VARIABLES
  files,        \* the files of the project, in the order they are read
  num_files,    \* how many of them were read
  symbol_stats, \* LOD -> _Stats
  options,      \* the options of this conversion
  symbol_map,   \* LOD -> what CollateSymbolsPass decided
  symbol_db,    \* what SYMBOL_DB holds: LOD -> symbol
  pc            \* where the two passes are

vars == <<files, num_files, symbol_stats, options, symbol_map, symbol_db, pc>>

-----------------------------------------------------------------------------
(***************************************************************************)
(* What becomes of the symbols.  CollectRevsPass counts how every line of  *)
(* development (LOD) is used while it reads the files, and the counts serve *)
(* to check a plan (symbol_statistics.py).  The rules of symbol_strategy.py *)
(* decide on each symbol, in the list that the command line sets up        *)
(* (run_options.py, svn_run_options.py); each may change what the ones     *)
(* before it made of the symbol.                                           *)
(*                                                                         *)
(* A plan maps every LOD to a record [type, preferred_parent, base_path],  *)
(* which is also what the rules work on; its type is "symbol" as long as no *)
(* rule decided it, and "error" once a rule has raised SymbolPlanError.  A *)
(* rule is a record of its class and its arguments.                        *)
(***************************************************************************)
\* A _Stats record.  possible_parents is a bag of LODs.
NewStats ==
  [tag_create |-> 0, branch_create |-> 0, branch_commit |-> 0,
   trivial_import |-> 0, pure_ntdb |-> 0,
   branch_blockers |-> {}, possible_parents |-> EmptyBag]

Count(condition) == IF condition THEN 1 ELSE 0

IsTrivialImport(f, s) ==
  Cardinality(Revisions(f, s)) = 1 /\ f.item[FirstRev(f, s)].ntdbr

\* The LODs that item i of file f could as well sprout from: that of its
\* source, the trunk if the source is copied there, and the branches at the
\* same source, for a branch only those before it.
PossibleParentLods(f, i) ==
  LET source == f.item[f.item[i].source_id]
      earlier == {k \in DOMAIN source.branch_ids :
                    \A l \in 1 .. k : source.branch_ids[l] # i}
  IN  {source.lod}
        \cup (IF source.ntdbr THEN {Trunk} ELSE {})
        \cup {f.item[source.branch_ids[k]].symbol : k \in earlier}

\* What one file adds to the record of the LOD that starts at s ...
LodStats(f, s) ==
  [tag_create |-> 0,
   branch_create |-> 1,
   branch_commit |-> Count(Revisions(f, s) # {}),
   trivial_import |-> Count(IsTrivialImport(f, s)),
   pure_ntdb |-> Count(IsPureNtdb(f, s)),
   branch_blockers |-> Blockers(f, s),
   possible_parents |->
     IF IsBranch(f, s) THEN SetToBag(PossibleParentLods(f, s)) ELSE EmptyBag]

\* ... and to that of the symbol of tag t.
TagStats(f, t) ==
  [NewStats EXCEPT !.tag_create = 1,
                   !.possible_parents = SetToBag(PossibleParentLods(f, t))]

AddStats(a, b) ==
  [tag_create |-> a.tag_create + b.tag_create,
   branch_create |-> a.branch_create + b.branch_create,
   branch_commit |-> a.branch_commit + b.branch_commit,
   trivial_import |-> a.trivial_import + b.trivial_import,
   pure_ntdb |-> a.pure_ntdb + b.pure_ntdb,
   branch_blockers |-> a.branch_blockers \cup b.branch_blockers,
   possible_parents |-> a.possible_parents (+) b.possible_parents]

\* SymbolStatisticsCollector.register(): every LOD of the file, every tag.
Tags(f) == {i \in Ids(f) : f.item[i].kind = "tag"}

FileStats(f) ==
  [x \in {LodAt(f, s) : s \in Lods(f)} \cup {f.item[t].symbol : t \in Tags(f)} |->
     LET starts == {s \in Lods(f) : LodAt(f, s) = x}
     IN  IF starts # {} THEN LodStats(f, CHOOSE s \in starts : TRUE)
         ELSE TagStats(f, CHOOSE t \in Tags(f) : f.item[t].symbol = x)]

Register(stats, f) ==
  LET of == FileStats(f)
  IN  [x \in DOMAIN stats \cup DOMAIN of |->
         IF x \notin DOMAIN of THEN stats[x]
         ELSE IF x \notin DOMAIN stats THEN of[x] ELSE AddStats(stats[x], of[x])]

\* purge_ghost_symbols()
IsGhost(stats, x) ==
  /\ x # Trunk
  /\ stats[x].branch_commit = 0
  /\ stats[x].branch_blockers = {}
  /\ stats[x].possible_parents = EmptyBag

PurgeGhostSymbols(stats) ==
  Restrict(stats, {x \in DOMAIN stats : ~IsGhost(stats, x)})

-----------------------------------------------------------------------------
IsIncluded(symbol) == symbol.type \in {"branch", "tag"}

\* check_preferred_parent_allowed()
HasBadParent(stats, plan, x) ==
  /\ IsIncluded(plan[x])
  /\ plan[x].preferred_parent # None
  /\ plan[x].preferred_parent \notin BagToSet(stats[x].possible_parents)

\* _check_blocked_excludes()
IsBlocked(stats, plan, x) ==
  /\ plan[x].type = "exclude"
  /\ \E blocker \in stats[x].branch_blockers \cap DOMAIN plan : IsIncluded(plan[blocker])

\* _check_invalid_tags()
IsInvalidTag(stats, plan, x) == plan[x].type = "tag" /\ stats[x].branch_commit > 0

\* Mutant: only a branch keeps its parent from being excluded.
CheckConsistency_BranchesBlock(stats, plan) ==
  \A x \in DOMAIN plan :
    /\ ~HasBadParent(stats, plan, x)
    /\ plan[x].type = "exclude" =>
         \A b \in stats[x].branch_blockers \cap DOMAIN plan : plan[b].type # "branch"
    /\ ~IsInvalidTag(stats, plan, x)

\* check_consistency()
CheckConsistency(stats, plan) ==
  \A x \in DOMAIN plan :
    /\ ~HasBadParent(stats, plan, x)
    /\ ~IsBlocked(stats, plan, x)
    /\ ~IsInvalidTag(stats, plan, x)

\* exclude_symbol(), of all excluded symbols.
ExcludeSymbols(stats, S) ==
  [x \in DOMAIN stats \ S |->
     [stats[x] EXCEPT
        !.branch_blockers = @ \ S,
        !.possible_parents = Restrict(@, DOMAIN @ \ S)]]

-----------------------------------------------------------------------------
(***************************************************************************)
(* The rules.                                                              *)
(***************************************************************************)

CONSTANT NameOf  \* the name of a symbol, as a sequence of path components

-----------------------------------------------------------------------------
\* Branch(symbol), Tag(symbol), ExcludedSymbol(symbol): only a LOD has a path.
Convert(symbol, type) ==
  [symbol EXCEPT !.type = type, !.base_path = IF type = "exclude" THEN None ELSE @]

IsTyped(symbol) == symbol.type \in {"branch", "tag", "exclude"}

\* The type that a rule for symbols not yet decided gives to x, or "symbol".
TypeByUsage(rule, x, stats) ==
  LET is_tag == stats.tag_create > 0
      is_branch == stats.branch_create > 0 \/ stats.branch_commit > 0
      If(condition, type) == IF condition THEN type ELSE "symbol"
  IN  CASE rule.class = "Regexp" -> If(x \in rule.matches, rule.action)
        [] rule.class = "ExcludeTrivialImportBranch" ->
             If(stats.tag_create = 0 /\ stats.branch_create = stats.trivial_import, "exclude")
        [] rule.class = "ExcludeVendorBranch" ->
             If(stats.tag_create = 0 /\ stats.branch_create = stats.pure_ntdb, "exclude")
        [] rule.class = "UnambiguousUsage" ->
             If(is_tag # is_branch, IF is_tag THEN "tag" ELSE "branch")
        [] rule.class = "BranchIfCommits" -> If(stats.branch_commit > 0, "branch")
        [] rule.class = "Heuristic" ->
             IF stats.tag_create >= stats.branch_create THEN "tag" ELSE "branch"
        [] rule.class = "CatchAll" -> rule.action

UsageRules ==
  {"Regexp", "ExcludeTrivialImportBranch", "ExcludeVendorBranch",
   "UnambiguousUsage", "BranchIfCommits", "Heuristic", "CatchAll"}

\* HeuristicPreferredParentRule._get_preferred_parent(): the most frequent
\* possible parent, the first of them in the order of the symbols.
PreferredParent(possible_parents) ==
  LET Better(a, b) == \/ possible_parents[a] > possible_parents[b]
                      \/ possible_parents[a] = possible_parents[b] /\ a < b
  IN  IF possible_parents = EmptyBag THEN None
      ELSE CHOOSE a \in DOMAIN possible_parents :
             \A b \in DOMAIN possible_parents \ {a} : Better(a, b)

\* ManualSymbolRule.get_symbol() for the symbol of the rule.
ManualSymbol(rule, symbol, stats) ==
  LET converted == IF rule.conversion = None THEN symbol
                   ELSE Convert(symbol, rule.conversion)
      with_parent == IF rule.parent = None THEN converted
                     ELSE [converted EXCEPT !.preferred_parent = rule.parent]
      placed == IF rule.path = None THEN with_parent
                ELSE [with_parent EXCEPT !.base_path = rule.path]
      known == rule.parent \in {None, Trunk} \cup DOMAIN stats.possible_parents
  IN  IF known THEN placed ELSE [symbol EXCEPT !.type = "error"]

\* ManualTrunkRule.get_symbol(), and ManualSymbolRule.get_symbol().
GetManualSymbol(rule, symbol, x, stats) ==
  CASE x # rule.symbol \/ symbol.type = "error" -> symbol
    [] x = Trunk -> [symbol EXCEPT !.base_path = rule.path]
    [] OTHER -> ManualSymbol(rule, symbol, stats)

(***************************************************************************)
(* SymbolHintsFileRule: a line of the file is a record [symbol,            *)
(* conversion, path, parent], None where it says "." or nothing.  start()  *)
(* rejects the file, or makes a rule of every line that asks for           *)
(* something.                                                              *)
(***************************************************************************)
IsIllegalHint(line) ==
  line.symbol = Trunk /\ (line.conversion \notin {None, "trunk"} \/ line.parent # None)

IsHint(line) ==
  \/ line.path # None
  \/ line.symbol # Trunk /\ ~(line.conversion = None /\ line.parent = None)

HintsFile(lines) == [class |-> "SymbolHintsFile", lines |-> SelectSeq(lines, IsHint),
                     is_illegal |-> \E i \in DOMAIN lines : IsIllegalHint(lines[i])]

\* get_symbol() of the rule, for the LOD x with these statistics.
GetSymbol(rule, symbol, x, stats) ==
  CASE rule.class = "SymbolHintsFile" ->
         FoldLeft(LAMBDA s, line : GetManualSymbol(line, s, x, stats), symbol, rule.lines)
    [] symbol.type = "error" -> symbol
    [] rule.class \in UsageRules ->
         IF symbol.type # "symbol" THEN symbol
         ELSE Convert(symbol, TypeByUsage(rule, x, stats))
    [] rule.class = "HeuristicPreferredParent" ->
         IF ~IsTyped(symbol) \/ symbol.preferred_parent # None THEN symbol
         ELSE [symbol EXCEPT !.preferred_parent = PreferredParent(stats.possible_parents)]
    [] rule.class = "TrunkPath" ->
         IF x # Trunk \/ symbol.base_path # None THEN symbol
         ELSE [symbol EXCEPT !.base_path = rule.path]
    [] rule.class = "SymbolPath" ->
         IF symbol.type # rule.type \/ symbol.base_path # None THEN symbol
         ELSE [symbol EXCEPT !.base_path = rule.path \o NameOf[x]]

\* CollateSymbolsPass.get_symbol(): all rules, one after the other.
Collate(rules, x, stats) ==
  FoldLeft(LAMBDA symbol, rule : GetSymbol(rule, symbol, x, stats),
           [type |-> IF x = Trunk THEN "trunk" ELSE "symbol",
            preferred_parent |-> None, base_path |-> None],
           rules)

-----------------------------------------------------------------------------
(***************************************************************************)
(* process_symbol_strategy_options() and add_project(): the rules of the   *)
(* command line, in its order, then those of --keep-trivial-imports and    *)
(* --symbol-default, then the one for the parents, then the paths.         *)
(***************************************************************************)
DefaultRules(symbol_default) ==
  CASE symbol_default = "strict" -> <<>>
    [] symbol_default \in {"branch", "tag", "exclude"} ->
         <<[class |-> "CatchAll", action |-> symbol_default]>>
    [] symbol_default = "heuristic" ->
         <<[class |-> "BranchIfCommits"], [class |-> "Heuristic"]>>

PathRules(base) ==
  <<[class |-> "TrunkPath", path |-> base.trunk],
    [class |-> "SymbolPath", type |-> "branch", path |-> base.branches],
    [class |-> "SymbolPath", type |-> "tag", path |-> base.tags]>>

RulesOf(asked) ==
  asked.rules
    \o (IF asked.keep_trivial_imports THEN <<>>
        ELSE <<[class |-> "ExcludeTrivialImportBranch"]>>)
    \o <<[class |-> "UnambiguousUsage"]>>
    \o DefaultRules(asked.symbol_default)
    \o <<[class |-> "HeuristicPreferredParent"]>>
    \o (IF asked.svn THEN PathRules(asked.base) ELSE <<>>)

-----------------------------------------------------------------------------
\* Python's order of lists, and verify_paths_disjoint(): after the sort a
\* path comes just before the first of those nested in it.
PathLess(p, q) ==
  \/ IsStrictPrefix(p, q)
  \/ \E k \in DOMAIN p \cap DOMAIN q :
       p[k] < q[k] /\ \A l \in 1 .. k - 1 : p[l] = q[l]

NoneNested(paths) == \A i \in 1 .. Len(paths) - 1 : ~IsPrefix(paths[i], paths[i + 1])

\* Mutant: without the sort.
VerifyPathsDisjoint_Unsorted(paths) == NoneNested(paths)

VerifyPathsDisjoint(paths) == NoneNested(SortSeq(paths, PathLess))

\* SVNOutputOption.check_symbols(); the other outputs check nothing.
CheckSymbols(plan) ==
  LET lods == {x \in DOMAIN plan : plan[x].type # "exclude"}
  IN  options.svn =>
        /\ \A x \in lods : plan[x].base_path # None
        /\ VerifyPathsDisjoint([i \in 1 .. Cardinality(lods) |->
             plan[SetToSeq(lods)[i]].base_path])

-----------------------------------------------------------------------------
\* CollectData.register_trunk(), and the registration of a file after another.
RegisterFile ==
  /\ pc = "collect" /\ num_files < Len(files)
  /\ num_files' = num_files + 1
  /\ symbol_stats' = Register(symbol_stats, files[num_files'])
  /\ UNCHANGED <<files, options, symbol_map, symbol_db, pc>>

CloseCollectData ==
  /\ pc = "collect" /\ num_files = Len(files)
  /\ symbol_stats' = PurgeGhostSymbols(symbol_stats)
  /\ pc' = "collate"
  /\ UNCHANGED <<files, num_files, options, symbol_map, symbol_db>>

\* get_symbols(): an illegal hints file, errors and undecided symbols end the pass.
RejectHints(rules) ==
  \E i \in DOMAIN rules : rules[i].class = "SymbolHintsFile" /\ rules[i].is_illegal

GetSymbols ==
  /\ pc = "collate"
  /\ symbol_map' = [x \in DOMAIN symbol_stats |->
                      Collate(RulesOf(options), x, symbol_stats[x])]
  /\ pc' = IF \/ RejectHints(options.rules)
              \/ \E x \in DOMAIN symbol_map' : symbol_map'[x].type \in {"error", "symbol"}
           THEN "failed" ELSE "check"
  /\ UNCHANGED <<files, num_files, symbol_stats, options, symbol_db>>

Check ==
  /\ pc = "check"
  /\ pc' = IF CheckConsistency(symbol_stats, symbol_map) /\ CheckSymbols(symbol_map)
           THEN "store" ELSE "failed"
  /\ UNCHANGED <<files, num_files, symbol_stats, options, symbol_map, symbol_db>>

CreateSymbolDatabase ==
  /\ pc = "store"
  /\ symbol_stats' =
       ExcludeSymbols(symbol_stats, {x \in DOMAIN symbol_map : symbol_map[x].type = "exclude"})
  /\ symbol_db' = symbol_map
  /\ pc' = "done"
  /\ UNCHANGED <<files, num_files, options, symbol_map>>

Init ==
  /\ files \in Files
  /\ options \in Options
  /\ num_files = 0
  /\ symbol_stats = (Trunk :> NewStats)
  /\ symbol_map = EmptyBag /\ symbol_db = EmptyBag
  /\ pc = "collect"

Next ==
  \/ RegisterFile \/ CloseCollectData
  \/ GetSymbols \/ Check \/ CreateSymbolDatabase

Spec == Init /\ [][Next]_vars

-----------------------------------------------------------------------------
LodsOf(f) == DOMAIN FileStats(f)

(***************************************************************************)
(* The preferred parent of every branch and tag that a file may have to    *)
(* move onto another parent is known to the symbol database, where         *)
(* FilterSymbolsPass looks it up, and the symbol could sprout from it in   *)
(* at least one file.                                                      *)
(***************************************************************************)
ParentsKnown ==
  pc = "done" =>
    \A f \in ToSet(files) : \A i \in Ids(f) :
      LET x == f.item[i].symbol
      IN  ~IsRev(f, i) /\ IsIncluded(symbol_db[x]) =>
            /\ symbol_db[x].preferred_parent \in DOMAIN symbol_db
            /\ \E g \in ToSet(files) : \E j \in Ids(g) :
                 /\ ~IsRev(g, j) /\ g.item[j].symbol = x
                 /\ symbol_db[x].preferred_parent \in PossibleParentLods(g, j)

(***************************************************************************)
(* In a plan for Subversion no two LODs can meet in one directory: neither *)
(* is the path of one the path of another, nor is it inside of it, though  *)
(* only neighbours in a sorted list are compared, and trunk, branches and  *)
(* tags may be anywhere and names may have several components.             *)
(***************************************************************************)
PathsDisjoint ==
  pc = "done" /\ options.svn =>
    \A x, y \in DOMAIN symbol_db :
      x # y /\ symbol_db[x].type # "exclude" /\ symbol_db[y].type # "exclude" =>
        ~IsPrefix(symbol_db[x].base_path, symbol_db[y].base_path)

(***************************************************************************)
(* The plan that is stored is one that CVSFileItems can carry out in every *)
(* single file of the project, though it was checked against counts of all *)
(* of them: an excluded LOD has no kept symbol sprouting from it, a tag no *)
(* revisions, and no file mentions a symbol without a decision.  This is   *)
(* what FilterSymbolsPass relies on when it rewrites the files.  No path   *)
(* of a line of development contains the path of another.                  *)
(***************************************************************************)
PlanFitsEveryFile ==
  /\ ParentsKnown
  /\ pc = "done" =>
       \A f \in ToSet(files) :
         /\ LodsOf(f) \subseteq DOMAIN symbol_db
         /\ IsConsistent(f, [x \in DOMAIN symbol_db |-> symbol_db[x].type])
  /\ PathsDisjoint
=============================================================================

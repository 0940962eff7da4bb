---------------------------- MODULE CollectData ----------------------------
(***************************************************************************)
(* CollectRevsPass (collect_data.py): the RCS files of a project are       *)
(* parsed one after the other.  The parser (cvs2svn_rcsparse) calls a      *)
(* _FileDataCollector back for the default branch, for every symbol, for   *)
(* every revision in the order the file lists them, and for every          *)
(* deltatext; in between the collector sorts out what the file says twice, *)
(* wrongly or not at all, and links the items for CVSFileItems.            *)
(***************************************************************************)
EXTENDS FileItems

CONSTANTS
  Projects,         \* projects: [files |-> sequence of RCS files,
                    \*            transform |-> name -> name or None]
  UnlabeledName(_), \* "unlabeled-" + branch number
  DuplicateName(_)  \* name + "-DUPLICATE-1"

VARIABLES
  transform,    \* Project.transform_symbol(), as a function
  todo,         \* the files of the project that have not been looked at
  file,         \* the RCS file that is being parsed
  pc,           \* the part of the file the parser is in
  pos,          \* how many entries of that part it has handed over
  turn,         \* how many turns the loop of define_revision() has made
  fdc,          \* the _FileDataCollector of the file, with its sdc
  fatal_errors  \* CollectData.fatal_errors, by kind

vars == <<transform, todo, file, pc, pos, turn, fdc, fatal_errors>>

-----------------------------------------------------------------------------
(***************************************************************************)
(* Revision numbers are sequences: 1.2 is <<1, 2>>, on trunk, and the      *)
(* branch 1.2.4 is <<1, 2, 4>>.  CVS writes a zero into branch numbers.    *)
(***************************************************************************)
IsTrunkRevision(n) == Len(n) = 2
IsBranchNumber(n) == Len(n) % 2 = 1

\* Mutant: the zero stays.
Canonical_KeepsZero(n) == n

\* _branch_revision_re.sub() and _valid_revision_re.match()
Canonical(n) ==
  IF Len(n) > 2 /\ Len(n) % 2 = 0 /\ n[Len(n) - 1] = 0
  THEN Append(SubSeq(n, 1, Len(n) - 2), Last(n)) ELSE n
IsValid(n) == Len(n) > 1

\* A new collector; only the key generator outlives the file.
Collector(last_id) ==
  [symbol_defs |-> <<>>, defined_symbols |-> {}, branches_data |-> <<>>,
   tags_data |-> {}, rev_data |-> <<>>, primary_dependencies |-> {},
   default_branch |-> None, file_imported |-> FALSE, item |-> <<>>,
   last_id |-> last_id]

Error(S) == fatal_errors' = fatal_errors \cup S

\* process_project(), for the next path that is a file.
ProcessFile ==
  /\ pc = "project" /\ todo # <<>>
  /\ file' = Head(todo)
  /\ todo' = Tail(todo)
  /\ fdc' = Collector(fdc.last_id)
  /\ pc' = "branch"
  /\ UNCHANGED <<transform, pos, turn, fatal_errors>>

-----------------------------------------------------------------------------
\* set_principal_branch(), if the file has a default branch.
SetPrincipalBranch ==
  /\ pc = "branch"
  /\ LET branch == IF file.branch = None THEN <<1>> ELSE Canonical(file.branch)
     IN  CASE Len(branch) = 1 -> UNCHANGED <<fdc, fatal_errors>>
           [] Len(branch) = 3 -> /\ fdc' = [fdc EXCEPT !.default_branch = branch]
                                 /\ UNCHANGED fatal_errors
           [] OTHER -> UNCHANGED fdc /\ Error({"default branch"})
  /\ pc' = "symbols"
  /\ UNCHANGED <<transform, todo, file, pos, turn>>

\* define_tag() for the next symbol
DefineTag ==
  /\ pc = "symbols" /\ pos < Len(file.symbols)
  /\ LET name == transform[file.symbols[pos + 1][1]]
         number == Canonical(file.symbols[pos + 1][2])
     IN  fdc' = IF name # None /\ IsValid(number)
                THEN [fdc EXCEPT !.symbol_defs = Append(@, <<name, number>>)]
                ELSE fdc
  /\ pos' = pos + 1
  /\ UNCHANGED <<transform, todo, file, pc, turn, fatal_errors>>

\* The definitions that _eliminate_trivial_duplicate_defs() and
\* _process_duplicate_defs() leave: the last one of each name.
IsRedefined(defs, k) == \E l \in k + 1 .. Len(defs) : defs[l][1] = defs[k][1]
KeptDefs(defs) ==
  LET kept == SelectSeq([k \in DOMAIN defs |-> k], LAMBDA k : ~IsRedefined(defs, k))
  IN  [k \in DOMAIN kept |-> defs[kept[k]]]

\* What makes the second one complain: one name for two numbers.
IsAmbiguous(defs) ==
  \E k, l \in DOMAIN defs : defs[k][1] = defs[l][1] /\ defs[k][2] # defs[l][2]

\* _add_branch(): a second name of a branch is ignored.
AddBranch(d, name, number) ==
  IF number \in DOMAIN d.branches_data THEN d
  ELSE [d EXCEPT
         !.branches_data = (number :> [id |-> d.last_id + 1, symbol |-> name, child |-> None]) @@ @,
         !.last_id = @ + 1]

AddTag(d, name, rev) ==
  [d EXCEPT !.tags_data = @ \cup {[id |-> d.last_id + 1, symbol |-> name, rev |-> rev]},
            !.last_id = @ + 1]

ProcessSymbol(d, def) ==
  IF IsBranchNumber(def[2]) THEN AddBranch(d, def[1], def[2]) ELSE AddTag(d, def[1], def[2])

\* admin_completed(), which calls process_symbols().
AdminCompleted ==
  /\ pc = "symbols" /\ pos = Len(file.symbols)
  /\ LET defs == KeptDefs(fdc.symbol_defs)
     IN  fdc' = FoldLeft(ProcessSymbol,
                         [fdc EXCEPT !.defined_symbols = {def[1] : def \in ToSet(defs)}], defs)
  /\ Error(IF IsAmbiguous(fdc.symbol_defs) THEN {"multiple definitions"} ELSE {})
  /\ pc' = "tree" /\ pos' = 0
  /\ UNCHANGED <<transform, todo, file, turn>>

-----------------------------------------------------------------------------
\* The loop of define_revision() over the first revisions on the branches that
\* sprout from the revision: the branch has a symbol ...
Entry == file.tree[pos + 1]
InLoop == pc = "tree" /\ pos < Len(file.tree) /\ turn < Len(Entry.branches)

KnownBranch ==
  /\ InLoop
  /\ LET branch == Entry.branches[turn + 1]
     IN  /\ Front(branch) \in DOMAIN fdc.branches_data
         /\ fdc' = [fdc EXCEPT !.branches_data[Front(branch)].child = branch]
  /\ turn' = turn + 1
  /\ UNCHANGED <<transform, todo, file, pc, pos, fatal_errors>>

\* Mutant: unlabeled branches may have the name of another symbol.
IsTaken_Never(d, name) == FALSE

\* _construct_distinct_name(): another name is tried if the name is taken.
IsTaken(d, name) == name \in d.defined_symbols
ConstructDistinctName(d, name) ==
  IF IsTaken(d, name) THEN DuplicateName(name) ELSE name

(***************************************************************************)
(* ... or has none, and _add_unlabeled_branch() makes one up.  If the      *)
(* other name is taken as well, the loop of _construct_distinct_name()     *)
(* tries the same name again and again: nothing changes any more.          *)
(***************************************************************************)
UnlabeledBranch ==
  /\ InLoop
  /\ LET branch == Entry.branches[turn + 1]
         original_name == UnlabeledName(Front(branch))
         transformed == transform[original_name]
         name == IF transformed = None THEN original_name ELSE transformed
         distinct_name == ConstructDistinctName(fdc, name)
         named == AddBranch([fdc EXCEPT !.defined_symbols = @ \cup {distinct_name}],
                            distinct_name, Front(branch))
     IN  /\ Front(branch) \notin DOMAIN fdc.branches_data
         /\ ~IsTaken(fdc, distinct_name)
         /\ fdc' = [named EXCEPT !.branches_data[Front(branch)].child = branch]
         /\ Error((IF transformed = None THEN {"unlabeled branch ignored"} ELSE {})
                    \cup IF distinct_name # name THEN {"name already used"} ELSE {})
  /\ turn' = turn + 1
  /\ UNCHANGED <<transform, todo, file, pc, pos>>

\* The rest of define_revision().  RCS links the trunk backwards.
PrimaryDependency(rev, next) ==
  IF next = None THEN {}
  ELSE IF IsTrunkRevision(rev) THEN {<<next, rev>>} ELSE {<<rev, next>>}

DefineRevision ==
  /\ pc = "tree" /\ pos < Len(file.tree) /\ turn = Len(Entry.branches)
  /\ Entry.rev \notin DOMAIN fdc.rev_data
  /\ fdc' = [fdc EXCEPT
       !.rev_data = (Entry.rev :> [id |-> fdc.last_id + 1, timestamp |-> Entry.timestamp,
                                   dead |-> Entry.dead]) @@ @,
       !.primary_dependencies = @ \cup PrimaryDependency(Entry.rev, Entry.next),
       !.last_id = @ + 1]
  /\ pos' = pos + 1 /\ turn' = 0
  /\ UNCHANGED <<transform, todo, file, pc, fatal_errors>>

-----------------------------------------------------------------------------
\* _resolve_branch_dependencies() and _resolve_tag_dependencies() drop the
\* symbols of revisions that the file does not have.
WithoutDangling(d) ==
  [d EXCEPT !.branches_data = Restrict(@, {n \in DOMAIN @ : Front(n) \in DOMAIN d.rev_data}),
            !.tags_data = {t \in @ : t.rev \in DOMAIN d.rev_data}]

\* Then they and _resolve_primary_dependencies() link what is left.
GetRevId(d, rev) == IF rev = None THEN None ELSE d.rev_data[rev].id
RevToLod(d, rev) ==
  IF IsTrunkRevision(rev) THEN Trunk ELSE d.branches_data[Front(rev)].symbol

OneOf(S) == IF S = {} THEN None ELSE CHOOSE x \in S : TRUE
BranchFrom(d, rev) == OneOf({n \in DOMAIN d.branches_data : d.branches_data[n].child = rev})
ChildOf(d, rev) == OneOf({e[2] : e \in {e \in d.primary_dependencies : e[1] = rev}})
ParentOf(d, rev) ==
  OneOf({e[1] : e \in {e \in d.primary_dependencies : e[2] = rev}}
          \cup {Front(n) : n \in {BranchFrom(d, rev)} \ {None}})

BranchesAt(d, rev) == {n \in DOMAIN d.branches_data : Front(n) = rev}

\* _sort_branches(): creation order is the reverse of the order in the file.
SortedBranches(d, rev) ==
  SetToSortSeq({d.branches_data[n].id : n \in BranchesAt(d, rev)}, >)

\* _determine_operation()
IsLive(d, rev) == rev # None /\ ~d.rev_data[rev].dead

RevisionItem(d, rev) ==
  [NewItem EXCEPT
    !.timestamp = d.rev_data[rev].timestamp,
    !.lod = RevToLod(d, rev),
    !.is_rev_1_1 = (rev = <<1, 1>>),
    !.live = IsLive(d, rev), !.pred_live = IsLive(d, ParentOf(d, rev)),
    !.prev_id = GetRevId(d, ParentOf(d, rev)),
    !.next_id = GetRevId(d, ChildOf(d, rev)),
    !.first_on_branch_id =
       IF BranchFrom(d, rev) = None THEN None ELSE d.branches_data[BranchFrom(d, rev)].id,
    !.tag_ids = {t.id : t \in {t \in d.tags_data : t.rev = rev}},
    !.branch_ids = SortedBranches(d, rev),
    !.branch_commit_ids =
       {GetRevId(d, d.branches_data[n].child) : n \in BranchesAt(d, rev)} \ {None}]

SymbolItem(d, kind, symbol, source, child) ==
  [NewItem EXCEPT !.kind = kind, !.symbol = symbol,
                  !.source_id = GetRevId(d, source), !.source_lod = RevToLod(d, source),
                  !.next_id = GetRevId(d, child)]

\* _get_cvs_revisions(), _get_cvs_branches() and _get_cvs_tags()
Items(d) ==
  [i \in {d.rev_data[rev].id : rev \in DOMAIN d.rev_data} |->
     RevisionItem(d, CHOOSE rev \in DOMAIN d.rev_data : d.rev_data[rev].id = i)]
  @@ [i \in {d.branches_data[n].id : n \in DOMAIN d.branches_data} |->
     LET n == CHOOSE n \in DOMAIN d.branches_data : d.branches_data[n].id = i
     IN  SymbolItem(d, "branch", d.branches_data[n].symbol, Front(n), d.branches_data[n].child)]
  @@ [i \in {t.id : t \in d.tags_data} |->
     LET t == CHOOSE t \in d.tags_data : t.id = i
     IN  SymbolItem(d, "tag", t.symbol, t.rev, None)]

TreeCompleted ==
  /\ pc = "tree" /\ pos = Len(file.tree)
  /\ LET d == WithoutDangling(fdc) IN fdc' = [d EXCEPT !.item = Items(d)]
  /\ pc' = "deltatexts" /\ pos' = 0
  /\ UNCHANGED <<transform, todo, file, turn, fatal_errors>>

-----------------------------------------------------------------------------
\* set_revision_info(): the first deltatext of a revision counts ...
Delta == file.deltas[pos + 1]
HasMetadata(rev) == fdc.item[GetRevId(fdc, rev)].log # None

SetRevisionInfo ==
  /\ pc = "deltatexts" /\ pos < Len(file.deltas)
  /\ ~HasMetadata(Delta.rev)
  /\ LET i == GetRevId(fdc, Delta.rev)
     IN  fdc' = [fdc EXCEPT
           !.item[i].log = Delta.log, !.item[i].deltatext_exists = Delta.text,
           !.file_imported =
             IF Delta.rev = <<1, 1>> THEN Delta.log = "initial revision" ELSE @]
  /\ pos' = pos + 1
  /\ UNCHANGED <<transform, todo, file, pc, turn, fatal_errors>>

\* ... and a second one is ignored.
RepeatedDeltatext ==
  /\ pc = "deltatexts" /\ pos < Len(file.deltas)
  /\ HasMetadata(Delta.rev)
  /\ pos' = pos + 1
  /\ UNCHANGED <<transform, todo, file, pc, turn, fdc, fatal_errors>>

ParseCompleted ==
  /\ pc = "deltatexts" /\ pos = Len(file.deltas)
  /\ ~file.broken
  /\ Error(IF \A rev \in DOMAIN fdc.rev_data : HasMetadata(rev) THEN {} ELSE {"no deltatext"})
  /\ pc' = "collected" /\ pos' = 0
  /\ UNCHANGED <<transform, todo, file, turn, fdc>>

(***************************************************************************)
(* process_file(): the parser or define_revision() finds the file to be    *)
(* invalid and nothing is returned for it, which _process_cvs_file_items() *)
(* does not expect.                                                        *)
(***************************************************************************)
IsDuplicateRevision ==
  /\ pc = "tree" /\ pos < Len(file.tree) /\ turn = Len(Entry.branches)
  /\ Entry.rev \in DOMAIN fdc.rev_data

InvalidFile ==
  /\ pc \in {"branch", "symbols", "tree", "deltatexts"}
  /\ file.broken \/ IsDuplicateRevision
  /\ Error({"not a valid ,v file"})
  /\ pc' = "crashed"
  /\ UNCHANGED <<transform, todo, file, pos, turn, fdc>>

\* The file is handed to CVSFileItems and stored; CollectRevsPass.run() gives up
\* if there was any error.
NextFile ==
  /\ pc = "collected"
  /\ pc' = IF todo # <<>> THEN "project" ELSE IF fatal_errors = {} THEN "done" ELSE "fatal"
  /\ UNCHANGED <<transform, todo, file, pos, turn, fdc, fatal_errors>>

NoFiles ==
  /\ pc = "project" /\ todo = <<>>
  /\ Error({"no RCS files found"})
  /\ pc' = "fatal"
  /\ UNCHANGED <<transform, todo, file, pos, turn, fdc>>

Init ==
  /\ \E p \in Projects : todo = p.files /\ transform = p.transform
  /\ file = None
  /\ pc = "project"
  /\ pos = 0 /\ turn = 0
  /\ fdc = Collector(0)
  /\ fatal_errors = {}

Next ==
  \/ ProcessFile
  \/ SetPrincipalBranch \/ DefineTag \/ AdminCompleted
  \/ KnownBranch \/ UnlabeledBranch \/ DefineRevision \/ TreeCompleted
  \/ SetRevisionInfo \/ RepeatedDeltatext \/ ParseCompleted
  \/ InvalidFile
  \/ NextFile \/ NoFiles

Spec == Init /\ [][Next]_vars

-----------------------------------------------------------------------------
\* What CVSFileItems receives, with what _process_ntdbrs() reads besides: a
\* default branch that the file does not have is no item.
Collected ==
  [item |-> fdc.item,
   default_branch |->
     IF fdc.default_branch = None THEN None
     ELSE IF fdc.default_branch \in DOMAIN fdc.branches_data
     THEN fdc.branches_data[fdc.default_branch].id ELSE 0,
   vendor_branch |->
     IF <<1, 1, 1>> \in DOMAIN fdc.branches_data
     THEN fdc.branches_data[<<1, 1, 1>>].id ELSE None,
   file_imported |-> fdc.file_imported]

\* What a number in the symbols of a file means: a revision, or a branch.
Magic(n) == Len(n) > 2 /\ n[Len(n) - 1] = 0
MeansBranch(n) == Len(n) % 2 = 1 \/ Magic(n)
MeantRevision(n) ==
  IF Magic(n) THEN SubSeq(n, 1, Len(n) - 2) ELSE IF MeansBranch(n) THEN Front(n) ELSE n
MeantNumber(n) == IF MeansBranch(n) THEN Append(MeantRevision(n), Last(n)) ELSE n

\* The symbols of the file: the last of several definitions counts.
Defined ==
  {k \in DOMAIN file.symbols :
     /\ transform[file.symbols[k][1]] # None
     /\ Len(file.symbols[k][2]) > 1
     /\ ~\E l \in k + 1 .. Len(file.symbols) :
           /\ transform[file.symbols[l][1]] = transform[file.symbols[k][1]]
           /\ Len(file.symbols[l][2]) > 1}

\* A branch is known by the symbol that is defined first.
NamesIt(k) ==
  LET number == file.symbols[k][2]
  IN  MeansBranch(number) =>
        ~\E l \in Defined : l < k /\ MeantNumber(file.symbols[l][2]) = MeantNumber(number)

IsPlaced(k) ==
  LET number == file.symbols[k][2]
      source == MeantRevision(number)
      found == {i \in Ids(Collected) :
                  ~IsRev(Collected, i) /\ fdc.item[i].symbol = transform[file.symbols[k][1]]}
  IN  IF NamesIt(k) /\ source \in DOMAIN fdc.rev_data
      THEN \E i \in found :
             /\ fdc.item[i].kind = IF MeansBranch(number) THEN "branch" ELSE "tag"
             /\ fdc.item[i].source_id = GetRevId(fdc, source)
             /\ MeansBranch(number) => \A rev \in DOMAIN fdc.rev_data :
                  Front(rev) = MeantNumber(number) =>
                    fdc.item[GetRevId(fdc, rev)].lod = transform[file.symbols[k][1]]
      ELSE found = {}

(***************************************************************************)
(* Every symbol of the file becomes one item at the revision it names,     *)
(* however its number is written, carries the revisions of its branch, and *)
(* a branch stands before those that were created before it; a symbol of a *)
(* revision that was removed from the file becomes nothing.                *)
(***************************************************************************)
SymbolsPlaced ==
  pc = "collected" =>
    /\ \A k \in Defined : IsPlaced(k)
    /\ \A k, l \in Defined :
         LET rank(x) == {r \in 1 .. 9 : \E i \in Ids(Collected) :
               /\ IsRev(Collected, i) /\ r \in DOMAIN fdc.item[i].branch_ids
               /\ fdc.item[fdc.item[i].branch_ids[r]].symbol = transform[file.symbols[x][1]]}
         IN  k < l /\ MeantRevision(file.symbols[k][2]) = MeantRevision(file.symbols[l][2])
               => \A p \in rank(k), q \in rank(l) : p > q

(***************************************************************************)
(* Whatever the file repeats, contradicts or leaves out, what is collected *)
(* is what CVSFileItems takes for granted: links in pairs, one item per    *)
(* symbol, the vendor branch on the first revision; and every symbol is    *)
(* where its number says.                                                  *)
(***************************************************************************)
FeedsFileItems ==
  /\ pc = "collected" => IsParsed(Collected)
  /\ SymbolsPlaced
=============================================================================

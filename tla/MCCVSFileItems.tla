-------------------------- MODULE MCCVSFileItems --------------------------
(***************************************************************************)
(* CollectData and CVSFileItems: an RCS file is collected, and what was    *)
(* collected is rewritten.  A behaviour begins with an RCS file ("collect")*)
(* or with a file of items as MCItems has them ("rewrite"), which are more *)
(* than RCS files of that size can lead to.                                *)
(*                                                                         *)
(* The RCS files have up to two revisions on trunk and on the branch 1.1.1,*)
(* one on 1.1.2 and one on 1.1.1.1.2, and symbols in the header.  Names    *)
(* are numbers: 1 and 2 are those of symbols, 10 + n those of unlabeled    *)
(* branches and 100 + n the duplicate of n.                                *)
(***************************************************************************)
EXTENDS CVSFileItems, MCItems

CONSTANT Projects  \* the projects whose RCS files are collected

MCParsed == {FileOf(NewItem, s) : s \in {s \in VendorShapes \cup AddedShapes : IsShape(s)}}

NameOfUnlabeled(number) ==
  CASE number = <<1, 1, 1>> -> 11 [] number = <<1, 1, 2>> -> 12 [] OTHER -> 13
NameOfDuplicate(name) == 100 + name

Names == {1, 2, 11, 12, 13, 101}
Keep == [n \in Names |-> n]

\* How many revisions are on trunk, 1.1.1, 1.1.2 and 1.1.1.1.2.
Shapes ==
  {s \in [trunk : 1 .. 2, vendor : 0 .. 2, b : 0 .. 1, nested : 0 .. 1] :
     s.nested <= s.vendor}

If(test, n) == IF test THEN <<n>> ELSE <<>>
TreeEntry(rev, next, branches, dead) ==
  [rev |-> rev, timestamp |-> Last(rev), dead |-> rev \in dead,
   branches |-> branches, next |-> next]

\* The revisions in the order in which RCS lists them.
Tree(s, dead) ==
  If(s.trunk = 2, TreeEntry(<<1, 2>>, <<1, 1>>, <<>>, dead))
  \o <<TreeEntry(<<1, 1>>, None, If(s.vendor > 0, <<1, 1, 1, 1>>) \o If(s.b > 0, <<1, 1, 2, 1>>), dead)>>
  \o If(s.b > 0, TreeEntry(<<1, 1, 2, 1>>, None, <<>>, dead))
  \o If(s.vendor > 0, TreeEntry(<<1, 1, 1, 1>>, IF s.vendor = 2 THEN <<1, 1, 1, 2>> ELSE None,
                                If(s.nested > 0, <<1, 1, 1, 1, 2, 1>>), dead))
  \o If(s.nested > 0, TreeEntry(<<1, 1, 1, 1, 2, 1>>, None, <<>>, dead))
  \o If(s.vendor = 2, TreeEntry(<<1, 1, 1, 2>>, None, <<>>, dead))

Log(rev, dead, imported) ==
  IF rev = <<1, 1>> /\ imported /\ rev \notin dead THEN "initial revision"
  ELSE IF rev = <<1, 1, 2, 1>> /\ rev \in dead THEN "added on branch"
  ELSE "other"

File(branch, symbols, tree, dead, imported) ==
  [branch |-> branch, symbols |-> symbols, tree |-> tree, broken |-> FALSE,
   deltas |-> [k \in DOMAIN tree |->
     [rev |-> tree[k].rev, log |-> Log(tree[k].rev, dead, imported), text |-> TRUE]]]

Project(f, t) == [files |-> <<f>>, transform |-> t]

\* What a symbol may stand for: a branch with and without CVS's zero, also of
\* a branch; a revision; a branch or revision the file does not have; nothing.
Numbers ==
  {<<1, 1, 1>>, <<1, 1, 0, 2>>, <<1, 1>>, <<1, 1, 1, 1>>, <<1, 1, 1, 1, 0, 2>>,
   <<1, 9>>, <<1, 9, 0, 2>>, <<1>>}
Symbols2 == UNION {[1 .. n -> {1, 2} \X Numbers] : n \in 0 .. 2}

Transforms == {Keep, [Keep EXCEPT ![2] = 1], [Keep EXCEPT ![2] = None],
               [Keep EXCEPT ![11] = 1, ![12] = 1], [Keep EXCEPT ![11] = None]}

SymbolProjects ==
  {Project(File(None, symbols, Tree(s, {}), {}, FALSE), t) :
     symbols \in Symbols2, s \in {s \in Shapes : s.trunk = 1 /\ s.vendor <= 1},
     t \in Transforms}

\* Default branches, dead revisions, and what a deltatext says of the file.
Branches == {None, <<1>>, <<1, 1>>, <<1, 1, 1>>, <<1, 1, 0, 1>>, <<1, 1, 1, 1, 2>>}
Plain == {<<>>, <<<<1, <<1, 1, 1>>>>>>, <<<<2, <<1, 1, 0, 2>>>>, <<1, <<1, 1, 1>>>>>>}
TreeProjects ==
  {Project(File(branch, symbols, Tree(s, dead), dead, imported), Keep) :
     branch \in Branches, symbols \in Plain, s \in Shapes,
     dead \in {{}, {<<1, 1>>}, {<<1, 2>>, <<1, 1, 2, 1>>}}, imported \in BOOLEAN}

\* Files with something wrong with them, alone and before another file.
Sound == File(None, <<<<1, <<1, 1, 0, 2>>>>>>, Tree([trunk |-> 2, vendor |-> 0, b |-> 1, nested |-> 0], {}), {}, FALSE)
Spoilt ==
  {[Sound EXCEPT !.broken = TRUE],
   [Sound EXCEPT !.tree = Append(@, Sound.tree[1])],
   [Sound EXCEPT !.deltas = Append(Sound.deltas, [Sound.deltas[2] EXCEPT !.log = "initial revision", !.text = FALSE])],
   [Sound EXCEPT !.deltas = Tail(Sound.deltas)],
   [Sound EXCEPT !.symbols = <<<<1, <<1, 1>>>>, <<101, <<1, 2>>>>>>]}
SpoiltProjects ==
  {[files |-> files, transform |-> [Keep EXCEPT ![12] = 1]] :
     files \in {<<>>} \cup {<<f>> : f \in Spoilt} \cup {<<f, Sound>> : f \in Spoilt}}


MCProjects == SymbolProjects \cup TreeProjects \cup SpoiltProjects
MCSymbols == {Vendor, B, C}

-----------------------------------------------------------------------------
VARIABLES
  rcs_file,      \* the RCS file that is parsed: CollectData's file
  parser,        \* the part of it the parser is in: CollectData's pc
  transform, todo, pos, turn, fdc, fatal_errors

Collect ==
  INSTANCE CollectData WITH
    UnlabeledName <- NameOfUnlabeled, DuplicateName <- NameOfDuplicate,
    file <- rcs_file, pc <- parser
collect_vars == <<rcs_file, parser, transform, todo, pos, turn, fdc, fatal_errors>>

NotCollecting ==
  /\ rcs_file = None /\ parser = "none" /\ transform = <<>> /\ todo = <<>>
  /\ pos = 0 /\ turn = 0 /\ fdc = None /\ fatal_errors = {}

Unparsed ==
  [item |-> <<>>, default_branch |-> None, vendor_branch |-> None, file_imported |-> FALSE]
NotRewriting ==
  /\ parsed = Unparsed /\ file = [item |-> <<>>, root |-> {}]
  /\ trunk_only = FALSE /\ fatal = FALSE /\ pc = "none" /\ pending = {}
  /\ ntdbr_excluded = FALSE /\ fate = <<>>

\* What was collected is rewritten, if it has no other symbols than Symbols.
HandOver ==
  /\ parser = "collected"
  /\ \A i \in DOMAIN fdc.item : fdc.item[i].symbol \in Symbols \cup {None}
  /\ parsed' = Collect!Collected
  /\ file' = [item |-> parsed'.item, root |-> RootIds(parsed')]
  /\ trunk_only' \in BOOLEAN /\ fatal' = FALSE /\ pc' = "parsed" /\ pending' = {}
  /\ ntdbr_excluded' = FALSE /\ fate' = [x \in Symbols |-> "exclude"]
  /\ rcs_file' = None /\ parser' = "none" /\ transform' = <<>> /\ todo' = <<>>
  /\ pos' = 0 /\ turn' = 0 /\ fdc' = None /\ fatal_errors' = {}

CollectInit == Collect!Init /\ NotRewriting
CollectStep == Collect!Next /\ UNCHANGED vars
RewriteStep == Next /\ UNCHANGED collect_vars

MCInit == CollectInit \/ (Init /\ NotCollecting)
MCNext == CollectStep \/ HandOver \/ RewriteStep
MCSpec == MCInit /\ [][MCNext]_<<vars, collect_vars>>
MCFairSpec == MCSpec /\ WF_<<vars, collect_vars>>(MCNext)

-----------------------------------------------------------------------------
\* Whatever an RCS file repeats, contradicts or leaves out, what is collected
\* is what CVSFileItems takes for granted.
FeedsFileItems == parser # "none" => Collect!FeedsFileItems

\* "Construct and return a new name that is not already used": every file is
\* collected in the end.
CollectionStops == <>(parser \in {"none", "done", "fatal", "crashed"})
=============================================================================

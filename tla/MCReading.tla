----------------------------- MODULE MCReading -----------------------------
(***************************************************************************)
(* What is read from a CVS repository, and what is planned for its symbols; *)
(* which part a behaviour is about is chosen at its start.                 *)
(*                                                                         *)
(* "walk": RepositoryWalker on every repository of up to seven files and   *)
(* directories, with the names that get in each other's way: a root        *)
(* directory with a file, an Attic and a subdirectory that has an Attic    *)
(* too; with one path excluded, an illegal name, and files kept in the     *)
(* Attic or not.                                                           *)
(*                                                                         *)
(* "transform": SymbolTransform with lists of two transforms, for names,   *)
(* paths and revision numbers that tell them apart.                        *)
(*                                                                         *)
(* "apple": AppleSingleFilter on streams in and out of AppleSingle format, *)
(* each cut short at every character, read by one to three characters, or  *)
(* all at once.                                                            *)
(*                                                                         *)
(* "properties": PropertySetters on files of every mode, with auto-props   *)
(* and MIME types that contradict each other and the options, converted to *)
(* Subversion and to git.                                                  *)
(*                                                                         *)
(* "symbols": CollateSymbols on projects of two files, as CollectRevsPass  *)
(* leaves them, with the options of a user.  Names and paths of symbols    *)
(* are sequences of numbers.                                               *)
(***************************************************************************)
EXTENDS CollateSymbols, MCItems, FiniteSetsExt

CONSTANTS
  Unset, Keyword, Value, Keywords, Texts,  \* PropertySetters's
  Patterns  \* those of the transforms

Names == <<"Attic", "CVS", "a", "b">>

VARIABLES
  part,  \* which part it is
  disk, walk_options, made, logged, frames, errors, result, walk_pc,
  call, rules, name, transform_pc,
  stream, position, endings, buffer, skip, length_remaining, data_read, output, apple_pc,
  file, output_options, properties, todo, history, before, node, original, setter_pc

Walker == INSTANCE RepositoryWalker WITH options <- walk_options, pc <- walk_pc, None <- 0
Transforming == INSTANCE SymbolTransform WITH pc <- transform_pc
Apple == INSTANCE AppleSingleFilter WITH MaxSize <- 3, file <- stream, pc <- apple_pc
Setters == INSTANCE PropertySetters WITH options <- output_options, pc <- setter_pc

walk_vars == <<disk, walk_options, made, logged, frames, errors, result, walk_pc>>
transform_vars == <<call, rules, name, transform_pc>>
apple_vars == <<stream, position, endings, buffer, skip, length_remaining,
                data_read, output, apple_pc>>
setter_vars ==
  <<file, output_options, properties, todo, history, before, node, original, setter_pc>>

-----------------------------------------------------------------------------
(* "walk"                                                                  *)

Dir(n) == Walker!Dir(n)
File(n) == Walker!File(n)
Attic == Dir("Attic")
SubDir == Dir("a")
AllPaths == {
  <<File("a")>>, <<File("Attic")>>, <<<<"a", "other">>>>,
  <<Attic>>, <<Attic, File("a")>>, <<Attic, File("b")>>,
  <<Attic, Dir("b")>>, <<Attic, Dir("b"), File("a")>>,
  <<SubDir>>, <<SubDir, File("b")>>,
  <<SubDir, Attic>>, <<SubDir, Attic, File("b")>>,
  <<SubDir, Dir("b")>>, <<SubDir, Dir("b"), Dir("a")>>,
  <<Dir("CVS")>>, <<Dir("CVS"), File("a")>>}

Repositories ==
  {S \in UNION {kSubset(n, AllPaths) : n \in 0..7} :
     \A p \in S : Len(p) > 1 => Front(p) \in S}

MayExclude == {<<File("a")>>, <<Attic>>, <<Attic, File("a")>>, <<SubDir>>}

WalkerInit ==
  \E repository \in Repositories,
     exclude \in {{}} \union {{p} : p \in MayExclude},
     illegal \in SUBSET {"b"}, retain \in BOOLEAN :
    /\ exclude \subseteq repository
    /\ Walker!Walk(repository, [excluded |-> exclude, illegal |-> illegal,
                                retain |-> retain])

-----------------------------------------------------------------------------
(* "transform"                                                             *)

SymbolNames == {<<"a">>, <<"b">>, <<"a", "b">>, <<"b", "a", "b">>, <<"a", "c">>,
                <<"/", "a", "/", "/", "b">>, <<"/">>}
Subtrees == {<<"/", "d">>, <<"/", "d", "/", "f">>}
FilePaths == {<<"/", "d", "/", "f">>, <<"/", "d", "e", "/", "f">>,
              <<"/", "d", "/", "e", "/", "f">>}
RevisionNumbers == {<<1, 2>>, <<1, 2, 2>>}

Pattern(grouped, alternatives) == [grouped |-> grouped, alternatives |-> alternatives]

\* a, a single character, (a|b), (ab|.a) and .b; and with the alternatives in
\* the open: a|b and ab|.a.
AnchoredPatterns ==
  {Pattern(FALSE, <<<<"a">>>>), Pattern(FALSE, <<<<".">>>>), Pattern(FALSE, <<<<".", "b">>>>),
   Pattern(TRUE, <<<<"a">>, <<"b">>>>), Pattern(TRUE, <<<<"a", "b">>, <<".", "a">>>>)}
OpenPatterns ==
  {Pattern(FALSE, <<<<"a">>, <<"b">>>>), Pattern(FALSE, <<<<"a", "b">>, <<".", "a">>>>)}
AllPatterns == AnchoredPatterns \union OpenPatterns

SubtreeItems == {<<<<<<"/", "d">>, <<"a">>, <<"b">>>>>>,
                 <<<<<<"/", "d">>, <<"a">>, <<"b">>>>, <<<<"/", "d", "/", "e">>, <<"a">>, None>>,
                   <<<<"/", "d">>, <<"a">>, <<"a", "b">>>>>>,
                 <<<<<<"/">>, <<"a">>, <<"/">>>>>>}
PlainRules ==
  {[kind |-> "normalize"]}
    \union {[kind |-> "replace", old |-> old, new |-> <<"b">>] : old \in {<<"a">>, <<"a", "b">>}}
    \union {[kind |-> "regexp", pattern |-> p, new |-> <<"c", "a">>] : p \in Patterns}
    \union {[kind |-> "ignore", pattern |-> p] : p \in Patterns}
    \union {[kind |-> "subtree_mapper", items |-> items] : items \in SubtreeItems}
    \union {[kind |-> "mapper",
             items |-> <<<<<<"/", "d", "/", "f">>, <<"a">>, <<1, 2>>, new>>,
                         <<<<"/", "d", "/", "f">>, <<"a">>, <<1, 2>>, <<"c">>>>>>] :
              new \in {None, <<"b">>}}
LimitedRules ==
  {[kind |-> kind, inner |-> rule] : kind \in {"tags", "branches"}, rule \in PlainRules}
    \union {[kind |-> "subtree", subtree |-> path, inner |-> rule] :
              path \in Subtrees, rule \in PlainRules}
Rules == PlainRules \union LimitedRules

TransformInit ==
  \E path \in FilePaths, revision \in RevisionNumbers, n \in SymbolNames,
     first \in Rules, second \in PlainRules :
    Transforming!Transform(path, revision, n, <<first, second>>)

-----------------------------------------------------------------------------
(* "apple"                                                                 *)

ForkEntries == {<<id, offset, length>> : id \in 1..2, offset \in 7..12, length \in 0..2}
EntryLists == {<< >>} \union {<<e>> : e \in ForkEntries}
                \union {<<<<2, 12, 1>>, e>> : e \in {f \in ForkEntries : f[2] > 9}}
                \union {<<<<1, 12, 1>>, <<1, 11, 1>>>>}
Headers == {<<1, 0>>, <<1, 9>>, <<2, 0>>, <<2, 9>>, <<3, 0>>}

\* Every version with one list, and every list with one version
Whole ==
  {Apple!Magic \o header \o <<Len(list)>> \o FlattenSeq(list) \o <<70, 71, 72>> :
     <<header, list>> \in (Headers \X {<<<<1, 8, 2>>>>}) \union ({<<2, 0>>} \X EntryLists)}
Streams == UNION {Prefixes(f) : f \in Whole}
           \union {<<5, 17>>, <<5, 17, 1, 0>>, <<6>>}

AppleInit == \E f \in Streams : Apple!Open(f)

-----------------------------------------------------------------------------
(* "properties"                                                            *)

\* Texts in which there are line ends, keywords, and line ends in keywords.
Pieces == {<<"LF">>, <<"CR">>, <<"$", Keyword, "$">>,
           <<"$", Keyword, ":", "old", "$">>, <<"$", Keyword, ":", "CR", "$">>,
           <<"$", Keyword, ":", "LF">>}
RevisionTexts ==
  {<< >>} \union Pieces
    \union {first \o second : first \in {<<"CR">>, <<"$", Keyword, ":", "LF">>},
                              second \in Pieces}

AutoPropsLists ==
  {<< >>}
    \union {<<"svn:eol-style" :> style>> : style \in {"CRLF", "", "weird"}}
    \union {<<("svn:mime-type" :> "text/") @@ ("svn:keywords" :> Unset)>>,
            <<"svn:keywords" :> Keywords, "svn:eol-style" :> "native">>,
            <<"svn:eol-style" :> Unset, "svn:eol-style" :> "LF">>}

\* What happens to a file, with the property that tells its revision number
Histories ==
  LET Own(k) == "cvs-rev" :> <<"1.1", "1.2", "1.3">>[k]
      Number(n, ops) ==
        [k \in DOMAIN ops |->
           [op |-> ops[k], properties |-> IF n THEN Own(k) ELSE Setters!Nothing]]
  IN {Number(FALSE, <<"add", "delete", "add">>)}
       \union {Number(n, <<"add", "change">>) : n \in BOOLEAN}

PropertiesInit ==
  /\ \E mode \in {"kv", "k", "o", "b"}, mime \in {Unset, "text/", "app/"},
        auto \in AutoPropsLists, executable \in BOOLEAN :
       /\ (executable => mode = "kv")
       /\ file = [mode |-> mode, mime_type |-> mime, auto_props |-> auto,
                  executable |-> executable]
  /\ \E from_mime, keywords_off \in BOOLEAN,
        default_eol \in {Unset, "native", "CR"}, output_kind \in {"svn", "git"} :
       output_options = [eol_from_mime_type |-> from_mime, keywords_off |-> keywords_off,
                  default_eol |-> default_eol, output |-> output_kind]
  /\ \E revisions \in Histories : Setters!Start(revisions)

-----------------------------------------------------------------------------
(* "symbols"                                                               *)

\* CollectRevsPass, without --trunk-only; only B was ever "added on branch".
NtdbrsProcessed(p) ==
  LET f == [item |-> p.item,
            root |-> {i \in DOMAIN p.item :
                        p.item[i].kind = "revision" /\ p.item[i].prev_id = None}]
  IN  IF p.default_branch # None
      THEN LiveNtdbProcessed(f, p.default_branch, p.file_imported)
      ELSE IF p.file_imported /\ p.vendor_branch # None
           THEN HistoricalNtdbProcessed(f, p.vendor_branch) ELSE f

Collected(p) ==
  LET f == NtdbrsProcessed(p)
      unneeded == UnneededTrunkDeletes(f)
      g == IF unneeded = {} THEN f ELSE RemoveTrunkDelete(f, CHOOSE i \in unneeded : TRUE)
      b == {s \in Lods(g) : LodAt(g, s) = B}
  IN  IF b = {} THEN g ELSE RemoveBranchDelete(g, CHOOSE s \in b : TRUE)

Shape(trunk, vendor, b, b_at, c_at, c_tag) ==
  [trunk |-> trunk, vendor |-> vendor, b |-> b, b_at |-> b_at, c_at |-> c_at,
   c_tag |-> c_tag, order |-> IF c_tag THEN <<11, 21, 31>> ELSE <<31, 11, 21>>,
   dead |-> {}, early |-> 1, delta |-> FALSE, default |-> vendor > 0 /\ trunk = 1,
   imported |-> vendor > 0, added |-> FALSE, added_b |-> FALSE]

\* Vendor branches with one or two imports, before or with commits on trunk
\* and on the branch; B with and without commits, before and after C; C a
\* branch or a tag of any of them, or absent; and files added on B.
Shapes ==
  {Shape(trunk, vendor, b, b_at, c_at, c_tag) :
     trunk \in 1 .. 2, vendor \in {-1, 1, 2}, b \in 0 .. 1,
     b_at \in {0, 1, 12}, c_at \in {0, 1, 12, 22}, c_tag \in BOOLEAN}

IsSound(s) ==
  /\ s.b_at \in {0} \cup Trunks(s) \cup Vendors(s)
  /\ s.c_at \in {0} \cup Trunks(s) \cup Vendors(s) \cup BRevs(s)
  /\ s.b_at = 0 => s.b = 0
  /\ s.c_at = 0 => ~s.c_tag
  /\ s.b = 0 => s.trunk = 1

AddedOnB ==
  [Shape(1, -1, 2, 1, 22, TRUE) EXCEPT !.dead = {1}, !.added = TRUE]

MCFileSet ==
  {Collected(FileOf(NewItem, s)) : s \in {s \in Shapes : IsSound(s)} \cup {AddedOnB}}
MCFilesOf == {<<f, g>> : f, g \in MCFileSet}

MCNameOf == (1 :> <<1>>) @@ (2 :> <<2>>) @@ (3 :> <<2, 3>>)

Force(S, type) == [class |-> "Regexp", matches |-> S, action |-> type]
Line(x, conversion, path, parent) ==
  [symbol |-> x, conversion |-> conversion, path |-> path, parent |-> parent]
Hint(x, conversion, parent) == HintsFile(<<Line(x, conversion, None, parent)>>)

Standard == [trunk |-> <<0>>, branches |-> <<1>>, tags |-> <<2>>]

CommandLine(list, keep, default) ==
  [rules |-> list, keep_trivial_imports |-> keep, symbol_default |-> default,
   svn |-> TRUE, base |-> Standard]

MCOptions ==
  {CommandLine(<<>>, keep, default) :
     keep \in BOOLEAN, default \in {"strict", "branch", "tag", "exclude", "heuristic"}}
  \cup
  {CommandLine(list, FALSE, "heuristic") : list \in
     {<<Force({B}, "exclude")>>, <<Force({B, C}, "exclude")>>, <<Force({Vendor}, "exclude")>>,
      <<Force({B, C}, "tag"), Force({B}, "exclude")>>,
      <<[class |-> "ExcludeVendorBranch"]>>,
      <<Hint(C, None, B)>>, <<Hint(C, "tag", Trunk)>>, <<Hint(B, None, C)>>,
      <<Force({C}, "branch"), Hint(C, "tag", Vendor)>>}}
  \cup
  {[CommandLine(<<>>, TRUE, "branch") EXCEPT !.base = base, !.svn = svn] :
     svn \in BOOLEAN,
     base \in {[Standard EXCEPT !.trunk = <<>>], [Standard EXCEPT !.tags = <<1>>],
               [Standard EXCEPT !.branches = <<0, 1>>]}}
  \cup
  {CommandLine(<<Force({C}, "tag"), HintsFile(<<Line(Trunk, None, <<2>>, None),
                                                Line(B, None, path, None),
                                                Line(B, None, None, None)>>)>>, TRUE, "branch") :
     path \in {<<2>>, <<5>>}}
  \cup
  {CommandLine(<<HintsFile(<<Line(Trunk, "tag", None, None)>>)>>, TRUE, "branch")}

-----------------------------------------------------------------------------
NoWalk ==
  /\ disk = {} /\ walk_options = << >> /\ made = << >> /\ logged = << >>
  /\ frames = << >> /\ errors = {} /\ result = << >> /\ walk_pc = "done"
NoTransform == call = << >> /\ rules = << >> /\ name = << >> /\ transform_pc = "done"
NoStream ==
  /\ stream = << >> /\ position = 0 /\ endings = 0 /\ buffer = << >> /\ skip = 0
  /\ length_remaining = 0 /\ data_read = << >> /\ output = << >> /\ apple_pc = "done"
NoProperties ==
  /\ file = << >> /\ output_options = << >> /\ properties = << >> /\ todo = << >>
  /\ history = << >> /\ before = << >> /\ node = << >> /\ original = << >>
  /\ setter_pc = "done"

NoSymbols ==
  /\ files = << >> /\ num_files = 0 /\ symbol_stats = << >> /\ options = << >>
  /\ symbol_map = << >> /\ symbol_db = << >> /\ pc = "none"

MCInit ==
  \/ part = "walk" /\ WalkerInit /\ NoTransform /\ NoStream /\ NoProperties /\ NoSymbols
  \/ part = "transform" /\ TransformInit /\ NoWalk /\ NoStream /\ NoProperties /\ NoSymbols
  \/ part = "apple" /\ AppleInit /\ NoWalk /\ NoTransform /\ NoProperties /\ NoSymbols
  \/ part = "properties" /\ PropertiesInit /\ NoWalk /\ NoTransform /\ NoStream /\ NoSymbols
  \/ part = "symbols" /\ Init /\ NoWalk /\ NoTransform /\ NoStream /\ NoProperties

MCNext ==
  \/ /\ part = "walk" /\ Walker!Next
     /\ UNCHANGED <<part, transform_vars, apple_vars, setter_vars, vars>>
  \/ /\ part = "transform" /\ Transforming!Next
     /\ UNCHANGED <<part, walk_vars, apple_vars, setter_vars, vars>>
  \/ /\ part = "apple" /\ Apple!Next
     /\ UNCHANGED <<part, walk_vars, transform_vars, setter_vars, vars>>
  \/ /\ part = "properties" /\ Setters!Next
     /\ UNCHANGED <<part, walk_vars, transform_vars, apple_vars, vars>>
  \/ /\ part = "symbols" /\ Next
     /\ UNCHANGED <<part, walk_vars, transform_vars, apple_vars, setter_vars>>

MCSpec ==
  MCInit /\ [][MCNext]_<<part, walk_vars, transform_vars, apple_vars, setter_vars, vars>>

-----------------------------------------------------------------------------
\* The paths that are found form a tree with every file to be converted in it
\* once, under a name of its own; the walk fails only where names clash.
WalkExact == part = "walk" => Walker!WalkExact

\* A name is transformed by all rules in turn, each where it applies, and by a
\* pattern only if it matches the whole name.
TransformsExact == part = "transform" => Transforming!TransformsExact

\* "P must match the whole symbol name" (run_options.py:383): a name that no
\* pattern of the transforms matches as a whole stays as it is.
WholeNamesOnly == part = "transform" => Transforming!WholeNamesOnly

\* The data fork, or else the whole stream, is read, to its end and not beyond.
AppleExact == part = "apple" => Apple!AppleExact

\* The text that is committed fits the properties that are committed with it.
TextAndProperties == part = "properties" => Setters!TextFitsProperties
=============================================================================

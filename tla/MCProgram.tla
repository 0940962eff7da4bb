----------------------------- MODULE MCProgram -----------------------------
(***************************************************************************)
(* The programs around a conversion; which one a behaviour is about is     *)
(* chosen at its start.                                                    *)
(*                                                                         *)
(* "passes": PassManager, with two runs of the program.                    *)
(*                                                                         *)
(* "command": RunOptions, for command lines that begin with a choice of    *)
(* output, an options file or nothing, followed by any two options of      *)
(* which the second is one that takes part in a check; and shorter ones    *)
(* with every list of arguments.                                           *)
(*                                                                         *)
(* "shrink": ShrinkTestCase, on a repository of two directories and four   *)
(* files, of which two have branches and tags, for every bug that needs at *)
(* most three items.                                                       *)
(*                                                                         *)
(* "blobs": GenerateBlobs, with a file of five revisions and one of one;   *)
(* each revision may be made from any one before it.                       *)
(*                                                                         *)
(* "sort": SortFile: up to six items with keys in any order and texts that *)
(* need escapes, and single items with every short text.                   *)
(***************************************************************************)
EXTENDS PassManager

VARIABLES
  part,  \* which program it is
  call, left, found, incompatible, values, rules, transforms, passRange,
  collector, reader, output, projects, command_pc,
  repository, needed, phase, todo, attempt, step, temporary, shrink_pc,
  external, base_revision, kept, file, token, main, pipe, generator, deltatexts,
  revrecs, last, assertion, blobfile,
  items, bufferSize, maxMerge, input, sort_pc, files, created, names, sort_todo,
  made, heap, rest, merged, sorted

Command == INSTANCE RunOptions WITH
  NumPasses <- 3, pc <- command_pc

Tree == {<<"r">>, <<"r", "d1">>, <<"r", "d2">>, <<"r", "f4">>, <<"r", "f4", "t3">>,
         <<"r", "d1", "f1">>, <<"r", "d1", "f2">>, <<"r", "d2", "f3">>,
         <<"r", "d1", "f1", "b1">>, <<"r", "d1", "f1", "b1", "b2">>,
         <<"r", "d1", "f1", "b1", "t2">>, <<"r", "d1", "f1", "b3">>,
         <<"r", "d1", "f1", "t1">>}
KindOf(item) ==
  LET name == Last(item)
  IN CASE name \in {"r", "d1", "d2"} -> "directory"
       [] name \in {"f1", "f2", "f3", "f4"} -> "file"
       [] name \in {"b1", "b2", "b3"} -> "branch"
       [] OTHER -> "tag"
Shrink == INSTANCE ShrinkTestCase WITH Root <- <<"r">>, pc <- shrink_pc

MCBases ==
  {<<None, 1, b3, b4, b5, None>> : b3 \in 1 .. 2, b4 \in 1 .. 3, b5 \in 1 .. 4}
Blobs == INSTANCE GenerateBlobs WITH
  Garbled <- 0, CVSFiles <- <<1 .. 5, {6}>>, Bases <- MCBases

\* A text of its own for each position, so that a lost or swapped item shows.
TextAt(k) ==
  CASE k = 1 -> <<"LF">>
    [] k = 2 -> <<"\\", "n">>
    [] k = 3 -> << >>
    [] k = 4 -> <<"CR", "\\">>
    [] OTHER -> <<"\\", "\\", "SUB">>

KeyLists == UNION {[1..n -> 1..3] : n \in 0..6}
SingleTexts == UNION {[1..n -> {"\\", "n", "z", "LF", "CR", "SUB"}] : n \in 0..3}
Unsorted ==
  {[k \in DOMAIN keys |-> [key |-> keys[k], text |-> TextAt(k)]] : keys \in KeyLists}
  \union {<<[key |-> 1, text |-> t]>> : t \in SingleTexts}

Sort == INSTANCE SortFile WITH
  Inputs <- Unsorted, BufferSizes <- {1, 2, 3}, MaxMerges <- {2, 3},
  pc <- sort_pc, todo <- sort_todo, output <- sorted

command_vars == <<call, left, found, incompatible, values, rules, transforms,
                  passRange, collector, reader, output, projects, command_pc>>
shrink_vars == <<repository, needed, phase, todo, attempt, step, temporary, shrink_pc>>
blobs_vars == <<external, base_revision, kept, file, token, main, pipe, generator,
                deltatexts, revrecs, last, assertion, blobfile>>
sort_vars == <<items, bufferSize, maxMerge, input, sort_pc, files, created, names,
               sort_todo, made, heap, rest, merged, sorted>>
all_vars == <<part, vars, command_vars, shrink_vars, blobs_vars, sort_vars>>

-----------------------------------------------------------------------------
(* "command"                                                               *)

Flag(S) == [name : S, value : {TRUE}]
Valued ==
  [name : {"--svnrepos", "--dumpfile", "--blobfile", "--options"}, value : {"out"}]
    \cup [name : {"--fs-type"}, value : {"bdb", "fsfs"}]
    \cup [name : {"--symbol-default"}, value : {"strict", "branch"}]
    \cup [name : Command!RuleOptions, value : {"a"}]
    \cup [name : {"--symbol-transform"}, value : {<<"a">>, <<"a", "b">>}]
    \cup [name : {"--trunk", "--tags"},
          value : {<<>>, <<"branches">>, <<"branches", "a">>}]
    \cup [name : {"--pass"}, value : {<<2>>, <<0>>, <<None>>}]
    \cup [name : {"--passes"},
          value : {<<2, None>>, <<None, 2>>, <<3, 2>>, <<None, 4>>, <<1, 2, 3>>}]
Flags ==
  Flag({"--existing-svnrepos", "--bdb-txn-nosync", "--create-option", "--dump-only",
        "--dry-run", "--no-cross-branch-commits", "--trunk-only", "--encoding",
        "--retain-conflicting-attic-files", "--keep-trivial-imports",
        "--no-default-eol", "--username", "--use-cvs", "--use-rcs",
        "--use-internal-co", "--use-external-blob-generator", "--svnadmin", "--help",
        "--skip-cleanup", "--profile"})
AnyOption == Valued \cup Flags
Telling ==
  {o \in AnyOption :
     o.name \in {"--existing-svnrepos", "--bdb-txn-nosync", "--dry-run", "--trunk-only",
                 "--use-cvs", "--use-rcs", "--fs-type", "--tags", "--dumpfile",
                 "--options"}}
Starts ==
  {<<>>} \cup {<<o>> : o \in {p \in AnyOption :
                 p.name \in {"--svnrepos", "--dumpfile", "--dry-run", "--options"}}}

Lines == {s \o <<a, b>> : s \in Starts, a \in AnyOption, b \in Telling}
ShortLines == {s \o l : s \in Starts, l \in {<<>>} \cup {<<o>> : o \in AnyOption}}
Call(program, line, file_does, target, args) ==
  [program |-> program, line |-> line, file |-> file_does, target |-> target, args |-> args]

CommandInit ==
  \E program \in {"svn", "git", "bzr"} :
    \/ \E line \in Lines, target \in {"nothing", "directory"} :
         Command!Start(Call(program, line, "complete", target, <<"cvs">>))
    \/ \E line \in ShortLines,
          file_does \in {"complete", "no output", "no project"},
          target \in {"nothing", "file", "directory"},
          args \in {<<>>, <<"nowhere">>, <<"cvs", "cvs">>, <<"cvs">>} :
         Command!Start(Call(program, line, file_does, target, args))

-----------------------------------------------------------------------------
(* The programs that a behaviour is not about.                             *)

NoPasses ==
  /\ options = "git" /\ disk = << >> /\ tmpdir = FALSE /\ lock = FALSE
  /\ runs = 0 /\ process = "none" /\ pass = 1 /\ index_end = 1
  /\ skip_cleanup = FALSE /\ erase_tmpdir = FALSE
  /\ pass_needs = {} /\ active = {} /\ unneeded = << >>
  /\ unclean = FALSE /\ error = None /\ resumable = {} /\ unbroken = TRUE
NoCommand ==
  /\ call = None /\ left = << >> /\ found = FALSE /\ incompatible = {}
  /\ values = << >> /\ rules = << >> /\ transforms = << >> /\ passRange = << >>
  /\ collector = None /\ reader = None /\ output = None /\ projects = << >>
  /\ command_pc = "ready"
NoShrink ==
  /\ repository = {} /\ needed = {} /\ phase = "tags" /\ todo = {} /\ attempt = None
  /\ step = 0 /\ temporary = << >> /\ shrink_pc = "finished"
NoBlobs ==
  /\ external = FALSE /\ base_revision = << >> /\ kept = {} /\ file = 1
  /\ token = << >> /\ main = "finished" /\ pipe = << >> /\ generator = "reading"
  /\ deltatexts = << >> /\ revrecs = << >> /\ last = None /\ assertion = FALSE
  /\ blobfile = << >>
NoSort ==
  /\ items = << >> /\ bufferSize = 0 /\ maxMerge = 0 /\ input = << >>
  /\ sort_pc = "done" /\ files = << >> /\ created = 0 /\ names = << >>
  /\ sort_todo = << >> /\ made = << >> /\ heap = {} /\ rest = << >>
  /\ merged = << >> /\ sorted = << >>

MCInit ==
  \/ part = "passes" /\ Init /\ NoCommand /\ NoShrink /\ NoBlobs /\ NoSort
  \/ part = "command" /\ CommandInit /\ NoPasses /\ NoShrink /\ NoBlobs /\ NoSort
  \/ /\ part = "shrink" /\ NoPasses /\ NoCommand /\ NoBlobs /\ NoSort
     /\ \E bug \in UNION {kSubset(n, Tree) : n \in 0 .. 3} : Shrink!Start(bug)
  \/ part = "blobs" /\ Blobs!Init /\ NoPasses /\ NoCommand /\ NoShrink /\ NoSort
  \/ part = "sort" /\ Sort!Init /\ NoPasses /\ NoCommand /\ NoShrink /\ NoBlobs

OnlyBlobs == part = "blobs" /\ UNCHANGED <<part, vars, command_vars, shrink_vars, sort_vars>>
Collect == OnlyBlobs /\ Blobs!Collect
Generate == OnlyBlobs /\ Blobs!Generate
Sorting ==
  /\ part = "sort" /\ Sort!Next
  /\ UNCHANGED <<part, vars, command_vars, shrink_vars, blobs_vars>>
MCNext ==
  \/ /\ part = "passes" /\ Next
     /\ UNCHANGED <<part, command_vars, shrink_vars, blobs_vars, sort_vars>>
  \/ /\ part = "command" /\ Command!Next
     /\ UNCHANGED <<part, vars, shrink_vars, blobs_vars, sort_vars>>
  \/ /\ part = "shrink" /\ Shrink!Next
     /\ UNCHANGED <<part, vars, command_vars, blobs_vars, sort_vars>>
  \/ Collect
  \/ Generate
  \/ OnlyBlobs /\ Blobs!Die
  \/ Sorting

\* Both processes that write blobs run on; nothing makes the second one die.  A
\* sort runs to its end by itself.
MCSpec ==
  /\ MCInit /\ [][MCNext]_all_vars
  /\ WF_all_vars(Collect) /\ WF_all_vars(Generate) /\ WF_all_vars(Sorting)

-----------------------------------------------------------------------------
\* A file that is needed is there, whole and registered, and none is left
\* behind, however the passes are spread over program runs that may be killed.
FilesThere == part = "passes" => NothingMissing

\* A conversion that begins can be carried out, as it was asked for.
RunnableAsAsked == part = "command" => Command!RunnableAsAsked

\* A repository is shrunk as far as it can be and never loses the bug.
ShrinksWell == part = "shrink" => Shrink!ShrinksWell

\* Every blob has the text of the revision with its mark, and every mark that
\* will be used has a blob.
BlobsExact == part = "blobs" => Blobs!BlobsExact

\* Neither of the processes that write blobs waits for the other for ever.
CollectionEnds == part = "blobs" => Blobs!CollectionEnds

\* A sort comes to an end, with all items in the order of their keys, equal
\* ones in the order they were stored, and no temporary file left.
SortsAll == part = "sort" => Sort!SortsAll
=============================================================================

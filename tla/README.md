# A verification of cvs2svn

cvs2svn converts a CVS repository, in which every file has a history of its
own, into one history of commits for Subversion, git or Bazaar. It works in
sixteen passes that hand their results on through files. This directory holds
TLA+ models of the passes and of what they read, write and store, TLC
configurations that check them on small instances, and proofs, checked by
TLAPS, about every pass from the first changesets to the final order of the
commits and about the databases that the program is built on.

All paths below are relative to `src/cvs2svn_lib/` unless they begin with
`cvs2svn_rcsparse` or `contrib`. `PROJECT.json` names, for every definition
that models code, the lines it models.

## The system

### Components

| component | state | operations | correct if |
|---|---|---|---|
| repository walk (`repository_walker.py`, `project.py`, `cvs_path.py`) | the paths made so far, the errors | walk a directory and its Attic, retain or reject files | every file is found once, under the path CVS gives it; conflicts are errors |
| RCS parser (`cvs2svn_rcsparse`) | the token stream with its buffer, the callbacks made | get and unget tokens, parse the phrases | the callbacks do not depend on how the file is cut into chunks |
| collecting a file (`collect_data.py`) | what the callbacks reported so far | the callbacks, resolving what is missing or defined twice | a linked file, or an error |
| symbol transforms (`symbol_transform.py`) | none | apply a list of rules to a name | the first rule that says no decides; a rule applies to the paths it names |
| CVS items (`cvs_item.py`) | revisions, branches and tags of one RCS file, each with links to others by id | `get_pred_ids()`, `get_succ_ids()`, `get_ids_closed()`, `check_links()` | links come in pairs; the dependencies have no cycle within a file |
| a file's items (`cvs_file_items.py`) | the items of a file, its roots | handle the default branch, drop initial deletions, exclude, graft, turn tags into branches and back, choose parents, record what each revision opens and closes | links survive every step; what a checkout yields does not change; what the later passes assume holds |
| symbol statistics and strategy (`symbol_statistics.py`, `symbol_strategy.py`, `CollateSymbolsPass`) | counts, blockers and possible parents of each symbol | register a file, apply the rules, check the plan | a plan that passes breaks no file |
| first changesets (`InitializeChangesetsPass`) | a group being read, a stack of groups to split, the changeset tables | start and store a group, cut it for an internal dependency, make the changeset of a symbol | every item in one changeset; cut only for a reason |
| changeset graph and links (`changeset_graph.py`, `changeset.py`, `changeset_graph_link.py`) | changesets on disk, item table, nodes, heap of ready nodes | add, delete, consume, find a cycle, search for a path; count and compare links, split | edges are the dependencies of the items; ready nodes are exact; the best link can be broken |
| cycle breaking (three passes) | the graph, ids to read, a key generator | load, consume, find a cycle or path, split | no item lost, progress, no cycle at the end |
| sorting (two passes, `Timestamper`) | the graph, the list of results | consume in order, write neighbour ids, adjust times | the dependencies and the order of the revisions are kept; times increase |
| Subversion commits (`svn_commit_creator.py`, `persistence_manager.py`, `openings_closings.py`) | commits by number, the lines of openings and closings | turn a changeset into commits, log, sort, read a range | a symbol's range has its content; it is open before it is filled |
| fill sources (`fill_source.py`, `svn_revision_range.py`) | none | score the ranges below a directory, choose the best source | the source serves the most files |
| repository mirror (`repository_mirror.py`) | nodes by revision, the history of each line of development (LOD), writable and read-only directory objects | read, make writable, add, copy, delete, end a commit | past revisions never change; what is shared is copied before it changes |
| Subversion output (`svn_output_option.py`, `svn_dump.py`) | the mirror, the dump | commit, copy to trunk, fill a branch or tag | what Subversion has is what CVS had |
| git and bzr output (`git_output_option.py`, `dvcs_common.py`) | the mirror, marks | commit, merge to trunk, fill, fixup branches | every ref has what the symbol had |
| blobs for git (`external_blob_generator.py`, `generate_blobs.py`, `git_revision_collector.py`) | two processes and a pipe; the text one of them keeps | assign marks and send, parse and write | every mark has its text; both processes end |
| internal checkout (`checkout_internal.py`, `rcs_stream.py`) | deltas, texts with reference counts | collect, count, check out, discard | a text is there whenever it is needed, and no longer |
| properties (`property_setters.py`, `svn_run_options.py`, `dvcs_common.py`) and the readers | the properties of a file and a revision | run the setters in order, convert the text | text and properties agree |
| AppleSingle (`apple_single_filter.py`) | the position in the stream | read at most so many bytes | the data fork, the whole of it, and nothing else |
| databases (`record_table.py`, `indexed_database.py`, `sort.py`) | file, cache of dirty records; runs of sorted items | get, set, delete, iterate, flush; sort and merge | a map; a sorted permutation |
| passes and artifacts (`pass_manager.py`, `artifact_manager.py`, `main.py`) | which pass needs which file, what is on disk, a lock | run, skip and defer passes; delete files; fail, die, resume | a file exists as long as a pass needs it |
| options (`run_options.py` and those of the programs) | the options met so far | take options, execute an options file, check, set up | what starts is what was asked, and can run |
| `contrib/shrink_test_case.py` | the repository, the modifications left to try | modify, test, revert, halve | the bug stays; nothing that can go alone is left |

### How they interact

One pass runs after another and one file, changeset or commit is handled at a
time. What is hard is that every pass relies on what the one before
left: the links that `FilterSymbolsPass` rewrites decide the dependencies that
four passes break and sort; the order that comes out decides the revision
numbers of the openings and closings; those decide from where directories are
copied; and copying changes a mirror whose nodes are shared between LODs and
revisions. Within a pass the order of events is mostly free: which file is
read first, which of several ready changesets or equal links is taken, comes
from dictionaries, clocks and ids. The models leave these choices open.

Three parts are not sequential. A conversion may be stopped, or killed, after or
within any pass and resumed in another run of the program; `cvs2git` may
leave the writing of blobs to a second process; and the shrinking script may be
interrupted while it modifies its repository.

    main.py, options, passes and their files         RunOptions, PassManager
    CollectRevs                                      RepositoryWalker, RCSParser,
      |  items, symbol statistics                    CollectData, SymbolTransform
    CollateSymbols                                   CollateSymbols
      |  the plan for the symbols
    FilterSymbols                                    CVSFileItems (FileItems, CVSItem)
      |  items with links, openings, closings        CheckoutInternal, GenerateBlobs: texts
    InitializeChangesets                             InitializeChangesets
      |  changeset table, changesets                 Changesets
    BreakRevisionChangesetCycles                     BreakCycles
    RevisionTopologicalSort                          RevisionTopologicalSort
      |  ordered changesets                          (Changesets)
    BreakSymbolChangesetCycles                       BreakCycles
    BreakAllChangesetCycles                          BreakAllCycles
    TopologicalSort                                  TopologicalSort
      |  changesets in order                         CommitOrder
    CreateRevs, SortSymbolOpeningsClosings           SVNCommitCreator
      |  commits, openings and closings
    Output                                           SVNOutputOption or GitOutputOption,
                                                     RepositoryMirror,
                                                     CheckoutInternal, PropertySetters
    under all of them: TableMap, IndexedDatabase, SortFile

### What can go wrong

`PROJECT.json` lists the hazards with their lines. Most are of these kinds:
state read before it is changed (a node built from a table that is behind, a
directory object read before its node was copied, a record of which the cache
and the file have different versions); sequences of legal calls (rewriting a
file in several ways, filling a symbol in several commits, a branch pruned and
filled again, options in any order); orders (which changeset is ready first, in
which commit a default branch reaches trunk, which setter comes first);
boundaries (equal timestamps, ordinals at a limit, an `@` at the end of a
chunk, a cache that is just full); termination of the loops that break cycles
bit by bit, and of two processes that share a pipe; and failures between two
steps: a pass that dies, a delta that is wrong, an interrupt in the middle of
a modification.

## Modules

### Reading a repository

`RepositoryWalker` keeps the recursion of the walk as a stack of frames. The
paths it makes are compared with `Converted`, which is stated on the disk alone.

`RCSParser` has the token stream (`Get`, `Unget`, `Match`, chunk by chunk) and
an action for each `parse_...()` method; `CollectData` has an action for each callback, for RCS
files that name what they do not have, or define it twice. `FeedsFileItems` says that what it hands over is a file of the kind that
`CVSFileItems` starts from. `SymbolTransform` has the rules that change a symbol's name, one action for each class;
`TransformsExact` compares them with what their docstrings say, for a pattern that it matches the whole name or
changes nothing.

`CheckoutInternal` has the sink that turns deltas round (`RCSStream` is its
operators `ApplyDiff`, `InvertDiff`), the counting of what is needed, and the reader.
`AppleSingleFilter` and `PropertySetters` are what happens to a text on its way
out; `PropertySetters` also has what the dumper writes of it.

### Items and files

`CVSItem` has the item records, `get_pred_ids()`, `get_succ_ids()` and what
`check_links()` asserts. Its constants are one database of items; the
assumptions say what the passes may take for granted (links in pairs, no cycle
within a file, one branch or tag per symbol and file). Two of them only fix how the model
writes things down: `RevisionAssumption`, that the field of the symbol is 0 in a revision, and
`NoneAssumption`, that Python's `None` is neither an item nor a number.

`FileItems` has the operators on one file's items that do not change its
symbols: roots, LODs, the handling of default branches and initial deletions. `CVSFileItems`
is one file from the parser to `FilterSymbolsPass`. `file` is the
current state of its items, `fate` the plan for its symbols, `pc` and `pending`
where the passes are. There is an action for each transformation:
`ProcessLiveNtdb` and `ProcessHistoricalNtdb` for a default branch,
`RemoveUnneededInitialTrunkDelete`, `RemoveInitialBranchDeletes`,
`CollateSymbols` (any plan that `check_consistency()` accepts),
`FilterExcludedSymbols`, `Mutate...`, `AdjustParents`, `RefineSymbols`, `Record`.
Assumed of the parser (`IsParsed`): the vendor branch is rooted at a root
revision that is alive if the file was imported, and only a first, dead revision
of a branch says "was added on branch". The branches of a file are handled
from the leaves in any order, of which the order of `iter_lods()` is one. A
preferred parent is chosen freely for each symbol.

`CollateSymbols` registers the statistics of each file of a project, applies
the rules of the strategy one by one, and checks the plan; `PlanFitsEveryFile`
applies the plan to each file, as `CVSFileItems` would, and looks at the result.

### Changesets

`Changesets` has the records, the order and the databases, among them the
OrderedChangesets that `RevisionTopologicalSortPass` leaves for the passes after it;
`ChangesetGraph` the methods of the graph as operators and actions, the types and
counts of links, how a changeset is split, and the ids that the passes number
their changesets with.

`InitializeChangesets`, `BreakCycles` (both `BreakRevisionChangesetCyclesPass`
and `BreakSymbolChangesetCyclesPass`: they differ in the constant `Breakable`),
`RevisionTopologicalSort`, `BreakAllCycles` and `TopologicalSort` are the passes.
`pc` stands for the position in `run()`; each iteration of a loop is an action.
`BreakAllCycles` has no action for the generic `break_cycle()`: `PathFound`
shows that it is never reached.

`CommitOrder` is the abstract specification of every pass that consumes a
graph: items are emitted in groups, each once and after those it depends on,
and all in the end. `BreakCycles` and `BreakAllCycles` implement it; the emitted
items are those of the changesets taken off the graph.

The theorems about the graph's operators are in `ChangesetGraphTheorems`, those about a
pass in the module named for it (`InitializeChangesetsProofs`, `BreakCyclesProofs`,
`RevisionTopologicalSortProofs`, `BreakAllCyclesProofs`, `TopologicalSortProofs`), and
those about tables and databases in `DatabaseTheorems`.

### Output

`SVNCommitCreator` is `CreateRevsPass` and the reader of its results, with the
fill sources: the scores of ranges and the choice of the best one. Changesets
may come in any order that the dependencies allow (`CommitOrder`'s promise), those
of a symbol split in any way, those of revisions whole. `commits` are the
SVNCommits by number, `symbolings` the lines of openings and closings. It also
has what CVS has at each commit, which the outputs are compared with.

`RepositoryMirror` has the methods of the mirror as operators on a record; the
directory objects that the code holds are in its field `objects`, so that a
stale object is stale in the model too. `SVNOutputOption` replays the commits on
the mirror and on a dump; `repository` is what `svnadmin load` makes of the dump
(external: an addition fails if the path exists, a copy or deletion if it does
not). `GitOutputOption` replays them on the mirror and writes commands; `refs` and
`git` are what `git fast-import` makes of them (external: a reset
moves a ref, a commit takes its files from its parent and changes them).
`GenerateBlobs` has the two processes that may write the texts: `Collect` and
`Generate` take turns as they like, and either may die.

### Databases

`TableMap` is the abstract specification of a table: a map from indexes to
records whose calls are one step each. The first half of `IndexedDatabase` is the class RecordTable: a file of
fixed records, a cache, and a flush that is several writes. It implements
`TableMap` with the mapping "the cached record if there is one, else the file's".
The second half is the database that is built on it and implements a `TableMap` of objects.
`SortFile` is `sort.py` with the escaping of the lines that are sorted.

### The program

`PassManager` has the sixteen passes with the files that each registers and
that each really opens, `ArtifactManager`'s bookkeeping, the lock, and runs of the
program that end, fail or are killed at any point. `RunOptions` takes the
options of `cvs2svn`, `cvs2git` and `cvs2bzr` in order. `ShrinkTestCase` is
`contrib/shrink_test_case.py`.

### Small instances

`MCItems` builds item databases and files from rows. Most
`MC...` modules are suites: several components that share nothing are put in one
run, a variable (`pass`, `part`, `kind` or `output`) says at Init
which of them a behaviour is about, and the variables of the others stay
as they are. Each property of a suite speaks about its component alone and is
true of the behaviours of the others. Coverage shows that every
action of every component of a suite is taken.

## Runs

| run | question | instance |
|---|---|---|
| `changeset_passes` | does each of the six passes from `InitializeChangesetsPass` to `TopologicalSortPass` cut, order and time as it should, does it end, and does it implement `CommitOrder`? | the six instances at the head of `MCChangesetPasses`: up to five files each, in every grouping or order |
| `break_revision_cycles` | do both databases and the graph stay right while cycles are broken? | seven revisions of three files in every grouping of up to three changesets |
| `break_all_cycles` | do the assertions hold, among them that the early part of a split is not split again, are shortest paths broken, is no cycle left? | four files, every order of the revisions, one symbol split in two |
| `cvs_file_items` | from the parser's callbacks to rewritten items: are links, content and the later passes' assumptions kept? | files with up to two revisions on trunk, a vendor branch and a branch, and a third branch or tag, with deletions, imports, default branches; every plan; RCS files of up to six revisions and two symbols with parts missing, repeated, or named alike |
| `taken_names` | does collecting a file end? No | as `cvs_file_items` |
| `output` | is the loaded Subversion repository what CVS had, in every revision, are the refs of git, and does nothing raise? | projects of up to three files in nested directories, in every order, with and without pruning; Git and Bzr, tags tied or not |
| `revnum_of_a_revision` | is `get_svn_revnum()` the revision in which a CVS revision was committed? No | as `output` |
| `texts` | are tokens, phrases, deltas and checkouts exact; is a table a map of records, and a database one of objects? | texts of up to six characters in chunks of every size; RCS files cut at every character; deltas between all texts of up to three lines; two files of seven revisions, every set of revisions kept and every order of reading; two indexes, a cache of two, two objects |
| `partial_names` | does a pattern change only the names that it matches as a whole? No | the transforms of `reading`, with patterns such as `a\|b` beside `(a\|b)` |
| `reading` | are paths, names, forks and properties what they should be; can a plan that passes be carried out in each file? | see the head of `MCReading`; for plans, two files of 55 shapes in each order, 28 sets of options |
| `program` | are files there when they are needed, is what starts what was asked, is a test case shrunk, are blobs exact, do the two processes end, does sorting sort? | see the head of `MCProgram`; for sorting, six items of three keys |

`MCChangesetPasses` and `MCOutput` say which instances are taken, and what the bounds
of the other suites are is said at their heads.

### Why these bounds

*Changesets.* A cycle needs two files; three changesets give cycles in which one changeset is
entered and left through different items, which is what the choice of a link is
about, and a chain of five revisions is the shortest in which an unbreakable
link would be as good as a breakable one. A retrograde branch needs a branch
on a branch and two files that disagree on the order; three such files give the
paths with a detour among which the shortest must be found.

*Output.* A wrong file in a
branch needs a directory that is copied with more, or other versions, than the
symbol has: two files in nested directories and revisions before and after the
symbol; a third, in the root, gives different sources for a directory and
the one below it. A second fill of a branch needs a symbol in two changesets,
which the splitting of symbol changesets gives. The content of a file is the
revision it comes from. In Subversion the loaded repository is compared with
CVS after each commit for the youngest revision, and at the end for all of
them, since later commits might change the mirror's past. For git, the changeset of a
tag stays whole: nothing depends on a tag, so no cycle goes through it.

*Files.* A plan can break a file only through two symbols of which one depends
on the other, so a vendor branch, a branch and a third symbol that may be on
either of them give every kind of dependency; two files give statistics that
differ from what holds in any one of them. `CollectData` names symbols and
branches by numbers; `UnlabeledName` and `DuplicateName` are the two
ways to make a name.

*Texts.* A chunk matters at one character: the `@` at its end, the end of the
file, the end of a word. Six characters hold a string with a doubled `@` and what
follows it. A word is one character. Three lines hold two changes with a line between
them, and a last line without a newline. The branch of a branch, and a file
that is twice in its own deltatexts, are what the counts depend on.

*Databases.* A cache of two entries is full, and flushed, between any two of
the calls that a caller makes; a main file of five cells and offsets modulo
eight (`OffsetLimit`) hold three objects of different lengths, of which one is stored
again. Callers do not store while they iterate, as none in the repository
does. For sorting, six items in chunks of one to three and merges of two or three give two generations of
merges with a file left over.

*Program.* Two program runs (`MaxRuns`) that end after the pass they begin with, the
fourth or the last one (`Ends`) show every way of splitting a conversion in two; a third
run begins with the same files as the second, unless files are left that should not be.
A run begins where the documentation allows it: after the last pass that was completed, or at one
before it. The artifacts are cleaned up in one order and its reverse: the
dictionary's order is arbitrary, and two files whose order matters are
met both ways. For options, the second one that takes part in a check
is enough because the checks are about pairs; `--passes` is met with one pass, two, and three, which is no range. A bug that needs up to
three items out of thirteen needs more than half of any list that is split.

*Reading.* Seven paths hold a directory with a file, an Attic with another and a
subdirectory with both; the names are those that can clash. Property setters are
run over every mode of CVS with nineteen texts, in which a keyword and its value are one
character each.

That the interesting cases
happen is seen from the mutants listed in `PROJECT.json`: each is a
plausible mistake in the code, and the property it is listed for fails with it.

Named bounds: `TimeCeiling` stands for the initial `1L<<32` of a time range,
`MaxInt` for `sys.maxint`, `MaxTimestamp` for tomorrow; timestamps are small
numbers, which the code only compares and adds one to. `MaxSize` limits the main
file of a database and what is read from a stream at once.

### Fairness

A pass is a loop in one thread that does its next step as long as there is
one, so each of the passes that break cycles has weak fairness of its next step and no more: no particular choice has
to be made eventually. `Termination` and `ImplementsCommitOrder` hold for every way of choosing.
`SortFile` and the collecting of a file (`taken_names`) are such loops too. `GenerateBlobs` has weak fairness of each of
the two processes, which the operating system runs; there is none for dying, so that neither
relies on the other's death to get on. What the other runs check are finite loops over data, for which no
fairness is stated. Most systems stop at the end (`CHECK_DEADLOCK FALSE` where they do).

### Disagreements with comments

Three have a run of their own.

`revnum_of_a_revision`: `put_svn_commit()` records the number of every
SVNRevisionCommit for its revisions. A revision on a default branch is in two:
the primary commit and the SVNPostCommit that copies it to trunk, and the second
number overwrites the first. The docstring of `get_svn_revnum()` says "Return
the Subversion revision number in which CVS_REV_ID was committed", and a
comment in `SVNPostCommit.get_cvs_items()` that "this commit doesn't really
include those CVSItems". Nothing calls `get_svn_revnum()` now.

`partial_names`: "P must match the whole symbol name" (`run_options.py:383`), and the docstrings of
`RegexpSymbolTransform` and `IgnoreSymbolTransform` (`symbol_transform.py:106`, `:230`) say the same. They compile
`'^' + pattern + '$'`, which ties only the first of several alternatives to the
beginning of the name and only the last to its end: `a|b` changes or ignores a symbol named `ab`. The rules for
symbols put the pattern in a group (`symbol_strategy.py:89`). `TransformsExact` is therefore checked for
patterns whose alternatives are in parentheses.

`taken_names`: `_construct_distinct_name()` loops with an `index` that it never
increases. If both a name and its `-DUPLICATE-1` are taken in a file,
`CollectRevsPass` does not end; the comment promises "a new name that is not
already used".

Others were met while modelling. The models follow the code:

- `_create_commit_mark(None, ...)` records the mark of a post commit under no
  LOD, while the comment on `_marks` (`git_output_option.py:229`) says that
  it has every commit to a LOD. No ref suffers: a source on trunk
  always has a primary commit.
- `symbol.py:74` says that ExcludedSymbols are discarded at the end of
  `CollateSymbolsPass`; they are stored with the others, because
  `FilterSymbolsPass` looks them up.
- After a parse error, "let the pass continue with other files" says
  `collect_data.py:1058`, but the caller uses the missing result and raises.
- `cvs2git` and `cvs2bzr` collapse keywords in every file that nothing else decides about, binary ones
  included (`dvcs_common.py:107`), where `doc/properties.txt:48` has
  'untouched' for binary files.
- The manual page allows `--dry-run` with an options file (`run_options.py:293`), where
  only Subversion's output options look at it; git's is replaced by none only
  on the command line (`git_run_options.py:168`).
- The exception for symbol options with `--trunk-only` lists eight of them
  (`run_options.py:150`) and is raised for some only (`:1012`): `--symbol-transform`, `--symbol-default` and
  `--no-cross-branch-commits` are accepted. `RunnableAsAsked` claims of `--trunk-only` only that no rule
  about symbols is asked for, nor `--keep-trivial-imports`, and that none is applied.
- `checkout_internal.py:299` says that during `FilterSymbolsPass` the delta
  database is a stand-in that is not changed; `process_file()` hands over the real one, and
  what is not needed is deleted from it.
- `_mark_deleted()` disables an object before it looks up its writable
  subdirectories, so deleting a directory with one would raise TypeError;
  `SVNFaithful`, which says that nothing is raised, shows that no output gets there.

## Proofs

Every theorem holds for every value of the constants that satisfies the named
assumptions, so for repositories of any size. TLC evaluates the assumptions in the runs.
Each proof of a component starts from an inductive invariant (`IInv`, or `FileInv` and `ContentInv` for files), which TLC
checked on the small instances first, and has one lemma for each action.

| module | about | theorems |
|---|---|---|
| `CVSFileItemsProofs` | `CVSFileItems`, `FileItems` | `FileStaysLinked`, `SymbolsCloseOnce`, `FilesFeedChangesets`, `ContentStays` |
| `ChangesetGraphTheorems` | the operators on changesets and graphs | only lemmas, cited by the four modules after it |
| `BreakCyclesProofs` | `BreakCycles`, as both passes | `TypeCorrect`, `NoItemLost`, `GraphIsExact`, `CycleIsOrdered`, `NeverUnbreakable`, `AcyclicInTheEnd`, `SplitsOnly`, `EmitsInOrder` |
| `RevisionTopologicalSortProofs` | `RevisionTopologicalSort` | `OutputOrdered` |
| `BreakAllCyclesProofs` | `BreakAllCycles` | `TypeCorrect`, `AllAgree`, `StaysInPlace`, `NeverSplitEarly`, `PathAlwaysFound`, `EmitsInOrder` |
| `TopologicalSortProofs` | `TopologicalSort` | `TimesExact`, `OrderStays`, `OrderOfCommits` |
| `InitializeChangesetsProofs` | `InitializeChangesets` | `RevisionsKept`, `CommitsKept` |
| `DatabaseTheorems` | `IndexedDatabase`, both halves | `InvarianceTable`, `RefinesTableMap`, `InvarianceDatabase`, `RefinesStore` |

Together the changeset theorems follow a revision through six passes:
it is put in one changeset (`RevisionsKept`); stays in exactly one while cycles are
broken (`NoItemLost`, `AllAgree`); has its changeset numbered after those it depends on
(`OutputOrdered`); keeps that place when symbols are fitted in (`StaysInPlace`, `OrderStays`);
and gets one commit, after all that it depends on, with a later time (`OrderOfCommits`, `TimesExact`).
Each pass is proved from what the pass before it leaves in the tables, as its `Init`
says: `NothingLost` and `OutputIsOrdered` contain, as conjuncts, that the output of one
pass is a table the next may start from, and `AcyclicWhenDone` is what
`RevisionTopologicalSort` needs to reach the end of its list.

The first of these needs items without circles whose links come in pairs. That is what `FilterSymbolsPass` stores
of every file (`FilesFeedChangesets`).

### Rewriting a file

| theorem | says |
|---|---|
| `FileStaysLinked` | between two methods of `CVSFileItems`, and between two turns of their loops, every file passes `check_link_consistency()`, whatever is decided of its symbols (`LinksConsistent`) |
| `SymbolsCloseOnce` | what an item opens is closed by the revision that replaces its content on its line of development, and by no other (`ClosedByItsSuccessor`) |
| `FilesFeedChangesets` | the items stored have links in pairs, no circle of predecessors, and no symbol twice (`FeedsChangesets`): what `CVSItem` assumes of each file |
| `ContentStays` | a checkout of trunk, or of a symbol that is not excluded, yields what it yielded in the file as it was parsed (`ContentKept`) |

*The argument.* `check_link_consistency()` is not inductive: it says nothing of circles, of the
links of branches that are being taken off, or of which symbols a file may have
twice. `Linked` restates it as facts about pairs of items (what the next of an item has as its
previous one, what sprouts from where, which items are roots) and adds that following `prev_id` ends
(`PrevsEnd`). From it follow what `Revisions()` and
`RevisionSource()` return: the walk along `next_id`, or from symbol to symbol, meets no item twice, so
that it ends. `FileInv` says what holds in each phase of a conversion:

- from the parser on, `NtdbLinked`, that revisions on the default branch are on the vendor branch and the links between
  it and trunk exist in pairs (`Good` joins it with `Linked` and the names of symbols);
- while symbols are excluded, that what depends on an excluded branch is excluded before it, that what becomes a tag has no revisions,
  and that an NTDB is excluded whole (`Excluding`);
- while branches become tags, that those still to be done have no commits (`Mutating`); while parents are
  adjusted, that a symbol sprouts from its source's LOD, and has a possible parent there (`Adjustable`);
- in the end, that every symbol sprouts from a revision, and that the symbols opened and closed are those of the
  items (`Recorded`).

Most operations delete items, and their effect on links is one lemma (`PrunedGood`: if what is
deleted is closed under the links that must not dangle, the rest is good), of which each is an instance. Grafting the NTDB to trunk is the
one operation that moves a chain of revisions from one LOD to another.

`ContentKept` needs a second invariant, `ContentInv`, on top of `FileInv`. `Checkout` chooses the end of
an LOD; `Yields` says the same of every end and of every symbol of the name, which a step keeps
item by item. That a deletion is harmless rests on facts about what CVS's default branch
leaves: where the NTDB revisions end the LOD, trunk ends with the revision they follow, and where they do not, 1.2
follows them (`Stumps`); an LOD that lost its branch has no other start (`Rooted`); and a
revision that is not alive has no content, so that deleting the first one of an LOD is not missed (`Dead`).
While symbols are excluded the NTDB revisions that are to be grafted are on an excluded LOD (`NtdbIn`). Each
operation has a lemma (`...Carries`), and `_process_ntdbrs()` one for each of its three cases, which begin from the parsed
file. A file for which a fatal error was recorded goes no further than CollectRevsPass, and nothing is claimed of it.

Assumed: `NamesAssumption`, that names are numbers and trunk is no symbol's, and
`ParsedAssumption`, that each parsed file has the links of its classes, which
TLC evaluates for the instances, and which `FeedsFileItems` checks for what `CollectData` makes of RCS files.

### The operators on graphs

`ChangesetGraphTheorems` has what the four modules share: predecessors and successors of items are
inverse; the table of items agrees with the changesets after `StoreItems`; adding a
node, deleting one, consuming one and replacing a changeset by two leaves a graph with
exactly the edges the items call for (`HasEdges`); the counts of links and the choice of
the best one; the databases of ordered changesets that the later passes begin with.

### Breaking cycles of revisions or symbols

| theorem | says |
|---|---|
| `TypeCorrect` | the graph never refers to a changeset that is not there |
| `NoItemLost` | the databases agree on a partition of the items into nonempty changesets |
| `GraphIsExact` | edges are the dependencies of the items; `find_cycle()` never meets a node without predecessors |
| `CycleIsOrdered` | `find_cycle()` returns a cycle, in order |
| `NeverUnbreakable` | the link that `break_cycle()` prefers can be broken |
| `AcyclicInTheEnd` | the changesets that are left have no cycle |
| `SplitsOnly` | changesets are only replaced by two proper parts, never after they were consumed |
| `EmitsInOrder` | the safety part of `CommitOrder` is implemented: every step is one of its steps or a stutter |

*The argument.* None of these is inductive alone. `IInv`
joins `TypeOK`; `DbInv`, that the databases agree, that a changeset's items have one kind
and do not depend on each other, and that no new key was used before; `GraphInv`,
that the edges mirror the items, that consumed changesets depend only on
consumed ones, and that the heap is exact; and `CycleInv`, that
the nodes walked so far form a path. Adding a
node is the delicate step: both halves of a split changeset are added one after the other while the
item table changes, and `AddNode` followed by
`StoreItems` ties a node in exactly. `NeverUnbreakable` follows from
`ItemsWellFounded`: were every link of a cycle unbreakable, following
dependencies inside the changesets would give a set of items each of which
has a predecessor in the set. Further lemmas say that a breakable link splits properly.

The assumptions are those of `CVSItem` and `BreakCycles`. `FilesFeedChangesets` says that `CVSItem`'s hold of
every file after `FilterSymbolsPass`; the items of several files have no links with each other.

### Breaking all cycles

| theorem | says |
|---|---|
| `TypeCorrect` | the graph, the heap, the path and the search refer to changesets that exist |
| `AllAgree` | both databases and the graph agree (`Consistent`) |
| `StaysInPlace` | a branch changeset that was looked at never again has to come both after and before an ordered one; the assertion on the limits of an item holds (`NoneRetrograde`) |
| `NeverSplitEarly` | the early part of a branch changeset that was split never has to be split, as the assertion at `passes.py:1272` says (`EarlyStays`) |
| `PathAlwaysFound` | a search comes to an ordered changeset, by a shortest path, and the next ordered changeset is in the graph when it is needed (`PathFound`) |
| `EmitsInOrder` | the safety part of `CommitOrder` is implemented |

*The argument.* `IInv` joins `TypeOK`; `DbInv`, that the databases agree, that the
changesets of symbols alone have no cycle (what `BreakSymbolChangesetCyclesPass`
achieved) and that the keys are fresh; `GraphInv`, that edges are the dependencies
of the items with the chain of ordered changesets, that what was consumed is closed
under predecessors, that `next_ordered_changeset` counts the ordered ones among it, and
that no branch in the graph that was looked at is out of place; and `SearchInv`. Splitting only takes
dependencies away, so the symbols stay without a cycle and no changeset becomes
retrograde again. The early part of a split is in place from the start (`EarlyInPlace`): none of its items comes after
an ordered changeset that is as late as one which an item of the whole comes before. If no node is ready, a node without a symbol's predecessors among the symbols has
an ordered one among its predecessors, and the first ordered one of these is reached
backwards from the next one due: so the queue of `search_for_path()` never runs dry.
That the path is shortest is the argument for breadth-first search: `LevelsRight` and
`QueueRight` say that there is a level for each node reached, that levels do
not decrease along the queue and span at most two values.

Assumed besides: `MaxIntAssumption`, that there are fewer items than `sys.maxint`, and
`BranchRootAssumption`, that from the first revision on a branch one comes, through the branches
that it springs from, to the revision before it.

### Sorting

`OutputOrdered`: the changesets of revisions keep their ids and items, are numbered
without gaps, each after those it depends on, the oldest of those ready first, and
are linked to their neighbours; symbols are copied. `IInv` joins `TypeOK`, `GraphInv`
(the graph has what was read and not yet placed, with exact edges), `ListInv` (each changeset
has one place, after what it depends on, and if it was ready before the one it follows
it sorts after it) and `OutputInv` (what is
written agrees with the list). That the end of the list is reached with an empty graph uses
that the source has no cycle.

`TimesExact`: the time of the *k*-th commit is the greatest of *k* and of what every
commit up to it asks for, a second being added for each commit since, where what asks for a time after
`MAX_TIMESTAMP` is not counted. `OrderStays`: ordered changesets stay in their order, and
a symbol is written as soon as what it depends on is, its changeset having the
time 0 in the sort key. `OrderOfCommits`: all are written, once, in an order of the
dependencies. `IInv` joins `TypeOK`, `GraphInv`, `OrderInv` (what is written of the ordered
changesets is the start of their order; what is ready became so with the last commit, or
sorts after it) and `TimeInv`. The model says what a list of times is by a
maximum over the list; a lemma turns `Timestamper.get()`'s update into that maximum.

### First changesets

`RevisionsKept`: every revision is in one place, unread, in the group, on the
stack or in a changeset; the tables agree; and in the end they are a source of the passes
that break cycles (`NothingLost`). `CommitsKept`: a changeset has the metadata of one
commit, no revision depending on another, no gap over the threshold; the counts made by
`break_internal_dependencies()` are the numbers of dependencies that a break would cut; and
two changesets that could be one were parted for a dependency (`CutForDependency`).

*The argument.* Helpers first: `SortedExact` (sorting gives an increasing list of the same
items), `BreaksExact` (the running sum of changes is the number of dependencies over each place),
`BestBreakCuts` (the chosen place has a dependency over it, and both sides an item), `SplitExact`, `PushExact` and
`StoreExact` (what a split, the stack and a store do). Then `IInv`, which joins `TypeOK` with
`ListedOnce` and `DatabasesAgree`, `PhaseInv` (where the loop
stands), `StoredInv` (what is in the tables), `GroupInv` (the group and what is left of it have the metadata of the last
revision read, those still to be read are not near a complete group), `StackInv` (a dependency
crosses every cut between two lists on the stack), `LastInv` (one crosses the cut after the last changeset
if what follows is near it), and `CutForDependency`.

Assumed besides: `ConstantsOK`, that metadata are numbers, the threshold is one, and no two
revisions rank alike in the sort; `MCChangesetPasses` has it as an ASSUME for its instance.

### Tables and databases

For all sets of indexes and records and every size of the cache
(`TableAssumption`: the indexes that are stored are natural numbers without gaps below them, those asked for are integers
and include them, the empty record and what a hole in the file reads as are records, not necessarily the same, and the size
of the cache is a natural number), and for all objects of any lengths
(`DatabaseAssumption`: lengths are positive, the records of the table are the offsets below `OffsetLimit`, of which 0
is the empty one, `MaxSize` is no more than `OffsetLimit`, and what is garbled or missing is no object):

| theorem | says |
|---|---|
| `InvarianceTable` | `IInv` holds in every state, in the middle of a flush too |
| `RefinesTableMap` | every table is a `TableMap`: a call is one step of the map, and a write or a flush none (`ImplementsMap`) |
| `InvarianceDatabase` | `DatabaseIInv` holds in every state |
| `RefinesStore` | every `IndexedDatabase` is a `TableMap` of objects (`ImplementsStore`) |

*The argument.* That what the cache does not have is in the file is not
inductive: during a flush some dirty records are in both, the limit lags behind the
file, and a gap is being filled. `IInv` joins `TypeOK`, `LimitsExact` (the limits
are those of the file and the cache), `CacheMatches` (a clean entry is what
the file has), `CallsOrdered` (which calls may be under way together) and
`ScanExact` (what a flush has yet to write). The mapping takes the record of the
cache where there is one and that of the file otherwise, the empty one beyond
its end. `DatabaseIInv` adds that every offset in the table is that of a whole object
in the main file, which appending does not change; the second mapping looks up in the
main file what the first one gives.

### Runs and theorems

The runs `cvs_file_items`, `break_revision_cycles`, `break_all_cycles` and `texts` check properties that are proved
under the same name. `changeset_passes` is a suite: its `NothingLost`, `CutForDependency`,
`OutputIsOrdered`, `TimestampsExact` and `SkeletonKept` are the properties of
one pass, restricted to the behaviours that are about it, and the theorems state the ones of the pass itself.

### What is only model-checked

- Liveness, and what needs ENABLED: `Termination`, the fair half of `ImplementsCommitOrder`,
  `CollectionEnds`, `SortsAll`, and that both processes of `GenerateBlobs` end.
- What recursive operators compute: `SVNOutputOption`, `RepositoryMirror`,
  `GitOutputOption`, `RepositoryWalker`, `RCSParser`, `PropertySetters`, `SymbolTransform` and `ShrinkTestCase`
  recurse over directories, texts and trees, so their properties are checked by TLC alone.
- What folds over lists of any length compute, which is induction over data as well: `PlanFitsEveryFile` (rules are asked one after
  the other, and the preferred parent is found by sorting) and `FeedsFileItems` (`CollectData` goes
  through the lists of the parser).
- The safety of the other components (see the plan): `TokensExact`, `SinkExact`, `ThereAndBack`; `WalkExact`, `TransformsExact`, `AppleExact`,
  `TextAndProperties`; `FilesThere`, `RunnableAsAsked`, `ShrinksWell`, `BlobsExact`.

## Not modelled

- `svntest/` and `run-tests.py` are the tests. `run-tests.py` was read for what conversions are expected to give.
- `cvs2svn_rcsparse/texttools.py` is another tokenizer, on a C extension that is not in the repository.
- `database.py` wraps the DBM modules of Python, `serializer.py` its pickling.
- `hg_run_options.py` imports a module that is not in the repository. Bazaar's output differs
  from git's by where texts stand and by a name.
- Logging, statistics that are only shown, the manual page, symbol info files, and the passes that are
  commented out of the list, which check databases for debugging.
- Dates, authors and log messages of commits, and the conversion of character sets: functions of
  one value that decide nothing.
- Empty directories and `.cvsignore` in the output (in `RepositoryWalker` empty directories are found).
- More than one project: paths of projects are only checked not to overlap.
- `contrib/` except `shrink_test_case.py`: scripts that rewrite or compare files one by one.

Parts that are modelled leave out: a directory named like an RCS file in the walk; a subtree `/` in
a transform; an interrupt of the shrinking script while it reverts; the memory mapped
variant of record tables, which keeps every record in place.

## Plan

Done: everything from the command line to the output, in the order changesets, Subversion,
files, texts and databases, git, the program.

Done, theorems: every safety property of the changeset passes and of the databases; the links of every file, and
what a checkout of it yields.

Next, theorems: `NothingMissing` of `PassManager` for any number of runs;
`BlobsExact` of `GenerateBlobs`; that `RevisionTopologicalSort` and `TopologicalSort` implement
`CommitOrder`'s safety part. Then models: empty directories in the output, and projects that share their symbols.

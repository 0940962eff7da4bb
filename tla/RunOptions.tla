----------------------------- MODULE RunOptions -----------------------------
(***************************************************************************)
(* What the command line asks for: the options are taken from left to      *)
(* right, an options file is executed where it stands, and what they ask   *)
(* for is checked and set up before the first pass (run_options.py,        *)
(* svn_run_options.py, git_run_options.py, bzr_run_options.py).            *)
(*                                                                         *)
(* An option is [name, value]; the value of a flag is TRUE.  A path in the *)
(* output is a sequence of components.                                     *)
(***************************************************************************)
EXTENDS Integers, SequencesExt, FiniteSets, TLC

CONSTANTS
  None,             \* an option that is not given
  NumPasses         \* how many passes there are

VARIABLES
  call,             \* the program, the options and arguments of its command
                    \* line, what its options file does, and what there is
                    \* at the path of the output
  left,             \* the options that are not yet taken
  found,            \* whether an options file was one of them
  incompatible,     \* those of the options that an options file excludes
  values,           \* what was stored for every option
  rules,            \* the rules for symbols
  transforms,       \* the transforms of symbols
  passRange,        \* the first and the last pass
  collector,        \* what reads the revisions while files are parsed
  reader,           \* what reads the revisions for the output
  output,           \* where to and how the output is written
  projects,         \* the projects, each with its directories and rules
  pc

vars == <<call, left, found, incompatible, values, rules, transforms, passRange,
          collector, reader, output, projects, pc>>
asked == <<incompatible, values, rules, transforms, passRange>>
setUp == <<collector, reader, output, projects>>

Program == call.program
DryRun == values["--dry-run"] # None
TrunkOnly == values["--trunk-only"] # None
----------------------------------------------------------------------------
(* The options, group by group.  An "incompatible" or "context" option     *)
(* must not be given along with an options file; a "compatible" one may.   *)

Group(class, names) == [o \in names |-> class]

OptionsFileOptions == Group("plain", {"--options"})
OutputOptions(program) ==
  CASE program = "svn" ->
         Group("incompatible",
               {"--svnrepos", "--existing-svnrepos", "--fs-type", "--bdb-txn-nosync",
                "--create-option", "--dumpfile", "--dump-only", "--create"})
           @@ Group("context", {"--dry-run"})
    [] program = "git" ->
         Group("incompatible", {"--blobfile", "--dumpfile"}) @@ Group("context", {"--dry-run"})
    [] program = "bzr" ->
         Group("incompatible", {"--dumpfile"}) @@ Group("context", {"--dry-run"})
LayoutOptions(program) ==
  IF program = "svn"
  THEN Group("incompatible", {"--trunk", "--branches", "--tags"})
         @@ Group("context", {"--include-empty-directories", "--no-prune",
                              "--no-cross-branch-commits"})
  ELSE << >>
ConversionOptions ==
  Group("compatible", {"--trunk-only"})
    @@ Group("plain", {"--encoding", "--fallback-encoding"})
    @@ Group("context", {"--retain-conflicting-attic-files"})
SymbolOptions ==
  Group("incompatible", {"--symbol-transform", "--symbol-hints", "--symbol-default",
                         "--force-branch", "--force-tag", "--exclude",
                         "--keep-trivial-imports"})
PropertyOptions ==
  Group("context", {"--username", "--keep-cvsignore"})
    @@ Group("incompatible",
             {"--auto-props", "--mime-types", "--eol-from-mime-type", "--default-eol",
              "--keywords-off", "--cvs-revnums", "--no-default-eol",
              "--auto-props-ignore-case"})
ExtractionOptions(program) ==
  Group("incompatible",
        {"--use-cvs", "--use-rcs"}
          \cup CASE program = "svn" -> {"--use-internal-co"}
                 [] program = "git" -> {"--use-external-blob-generator"}
                 [] program = "bzr" -> {})
EnvironmentOptions(program) ==
  Group("context", {"--tmpdir"}) @@ Group("incompatible", {"--co", "--cvs"})
    @@ Group("compatible", IF program = "svn" THEN {"--svnadmin"} ELSE {})
PartialOptions == Group("plain", {"--pass", "--passes"})
Answers == {"--version", "--help", "--help-passes", "--man"}
InformationOptions ==
  Group("plain", Answers \cup {"--verbose", "--quiet", "--profile"})
    @@ Group("context", {"--write-symbol-info", "--skip-cleanup"})

Options(program) ==
  OptionsFileOptions @@ OutputOptions(program) @@ LayoutOptions(program)
    @@ ConversionOptions @@ SymbolOptions @@ PropertyOptions
    @@ ExtractionOptions(program) @@ EnvironmentOptions(program) @@ PartialOptions
    @@ InformationOptions
AllOptions == UNION {DOMAIN Options(program) : program \in {"svn", "git", "bzr"}}

RuleOptions == {"--symbol-hints", "--force-branch", "--force-tag", "--exclude"}
ListOptions == {"--create-option", "--auto-props", "--mime-types", "--encoding"}
NotStored == RuleOptions \cup Answers \cup DOMAIN PartialOptions
               \cup {"--options", "--symbol-transform", "--no-default-eol"}

Defaults ==
  [o \in AllOptions |->
     CASE o \in ListOptions -> << >>
       [] o = "--trunk" -> <<"trunk">>
       [] o = "--branches" -> <<"branches">>
       [] o = "--tags" -> <<"tags">>
       [] o = "--symbol-default" -> "heuristic"
       [] OTHER -> None]
----------------------------------------------------------------------------
(* Parsing.                                                                *)

Option == Head(left)
IsNext(names) ==
  /\ pc = "parse"
  /\ left # << >>
  /\ Option.name \in names \cap DOMAIN Options(Program)

\* Mutant: options that are stored in the context are not noted.
Recorded_NoContext(class) == class = "incompatible"
\* take_action() and the callback of a ContextOption note what they are given.
Recorded(class) == class \in {"incompatible", "context"}

Taken ==
  /\ left' = Tail(left)
  /\ incompatible' = incompatible
       \cup {o \in {Option.name} : Recorded(Options(Program)[o])}
  /\ UNCHANGED call

Leave(why) ==
  /\ pc' = why
  /\ left' = << >>
  /\ UNCHANGED <<call, found, asked, setUp>>

\* callback_options(): what the file sets, it sets right now.
ReadOptionsFile ==
  /\ IsNext({"--options"})
  /\ Taken
  /\ found' = TRUE
  /\ IF call.file = "no output"
     THEN UNCHANGED output
     ELSE output' = [kind |-> "dumpfile", path |-> "in file"]
  /\ IF call.file = "no project"
     THEN UNCHANGED projects
     ELSE projects' = Append(projects, [root |-> "in file", directories |-> << >>,
                                        rules |-> << >>, transforms |-> << >>])
  /\ collector' = [kind |-> "internal", reader |-> None]
  /\ reader' = "internal"
  /\ UNCHANGED <<values, rules, transforms, passRange, pc>>

Store(o, v) ==
  /\ Taken
  /\ values' = [values EXCEPT ![o] = v]
  /\ UNCHANGED <<found, rules, transforms, passRange, setUp, pc>>
StoreOption ==
  /\ IsNext(AllOptions \ (NotStored \cup ListOptions))
  /\ Store(Option.name, Option.value)
AppendOption ==
  /\ IsNext(ListOptions)
  /\ Store(Option.name, Append(values[Option.name], Option.value))
NoDefaultEOL ==
  /\ IsNext({"--no-default-eol"})
  /\ Store("--default-eol", None)

\* callback_symbol_hints(), callback_force_branch(), ...
SymbolRule ==
  /\ IsNext(RuleOptions)
  /\ Taken
  /\ rules' = Append(rules, <<Option.name, Option.value>>)
  /\ UNCHANGED <<found, values, transforms, passRange, setUp, pc>>

\* callback_symbol_transform(): the value is split at its colons.
SymbolTransform ==
  /\ IsNext({"--symbol-transform"})
  /\ Len(Option.value) = 2
  /\ Taken
  /\ transforms' = Append(transforms, Option.value)
  /\ UNCHANGED <<found, values, rules, passRange, setUp, pc>>
NotATransform ==
  /\ IsNext({"--symbol-transform"})
  /\ Len(Option.value) # 2
  /\ Leave("ValueError")

\* callback_passes(): with two colons the value is no range.  In
\* get_pass_number() a name stands for its number; None is no text at all.
PassNumber(pass, default) == IF pass = None THEN default ELSE pass
PassesOf(value) ==
  IF Len(value) = 1 THEN <<value[1], value[1]>>
  ELSE <<PassNumber(value[1], 1), PassNumber(value[2], NumPasses)>>
ArePasses(pair) == \A i \in {1, 2} : pair[i] \in 1 .. NumPasses

IsPassRange == IsNext(DOMAIN PartialOptions) /\ Len(Option.value) <= 2
Passes ==
  /\ IsPassRange
  /\ ArePasses(PassesOf(Option.value))
  /\ Taken
  /\ passRange' = PassesOf(Option.value)
  /\ UNCHANGED <<found, values, rules, transforms, setUp, pc>>
InvalidPass ==
  /\ IsPassRange
  /\ ~ArePasses(PassesOf(Option.value))
  /\ Leave("FatalError")
NotAPassRange ==
  /\ IsNext(DOMAIN PartialOptions)
  /\ Len(Option.value) > 2
  /\ Leave("ValueError")

Answer == IsNext(Answers) /\ Leave("exit")
\* The option parser does not know the option.
NoSuchOption ==
  /\ pc = "parse"
  /\ left # << >>
  /\ Option.name \notin DOMAIN Options(Program)
  /\ Leave("exit")

\* verify_option_compatibility()
CompatibleWithFile == incompatible = {} /\ call.args = << >>
Proceed(to) == pc' = to /\ UNCHANGED <<call, left, found>>
VerifyOptionCompatibility ==
  /\ pc = "parse"
  /\ left = << >>
  /\ found
  /\ Proceed(IF CompatibleWithFile THEN "check" ELSE "exit")
  /\ UNCHANGED <<asked, setUp>>
----------------------------------------------------------------------------
(* process_options(), without an options file.                             *)

\* cvs2svn wants one CVS repository, the others take the working directory.
Arguments ==
  IF call.args = << >> /\ Program # "svn" THEN <<"here">> ELSE call.args
CheckArguments ==
  /\ pc = "parse"
  /\ left = << >>
  /\ ~found
  /\ Proceed(IF Len(Arguments) = 1 THEN "extraction" ELSE "exit")
  /\ UNCHANGED <<asked, setUp>>

\* not_both()
Given(o) == values[o] # None
Clash(pairs) == \E pair \in pairs : Given(pair[1]) /\ Given(pair[2])

Ways == {"--use-rcs", "--use-cvs", "--use-internal-co", "--use-external-blob-generator"}
TwoWays == Clash({<<a, b>> \in Ways \X Ways : a # b})
RCSOr(other) == IF Given("--use-rcs") THEN "rcs" ELSE other
Null == [kind |-> "null", reader |-> None]

TwoExtractions == pc = "extraction" /\ TwoWays /\ Leave("FatalError")
ProcessAllExtractionOptions ==
  /\ pc = "extraction" /\ Program = "svn" /\ ~TwoWays
  /\ reader' = RCSOr(IF Given("--use-cvs") THEN "cvs" ELSE "internal")
  /\ collector' = IF Given("--use-rcs") \/ Given("--use-cvs") THEN Null
                  ELSE [kind |-> "internal", reader |-> None]
  /\ Proceed("output")
  /\ UNCHANGED <<asked, output, projects>>
GitExtractionOptions ==
  /\ pc = "extraction" /\ Program = "git" /\ ~TwoWays
  /\ reader' = None
  /\ collector' = IF DryRun THEN Null
                  ELSE IF Given("--use-external-blob-generator")
                  THEN [kind |-> "external", reader |-> None]
                  ELSE [kind |-> "git", reader |-> RCSOr("cvs")]
  /\ Proceed("output")
  /\ UNCHANGED <<asked, output, projects>>
BzrExtractionOptions ==
  /\ pc = "extraction" /\ Program = "bzr" /\ ~TwoWays
  /\ Proceed("output")
  /\ UNCHANGED <<asked, setUp>>

\* Mutant: what is created may be a repository that exists.
SVNClashes_NewExisting ==
  {<<"--svnrepos", "--dumpfile">>, <<"--dumpfile", "--existing-svnrepos">>,
   <<"--bdb-txn-nosync", "--existing-svnrepos">>, <<"--dumpfile", "--bdb-txn-nosync">>}
SVNClashes ==
  {<<"--svnrepos", "--dumpfile">>, <<"--dumpfile", "--existing-svnrepos">>,
   <<"--bdb-txn-nosync", "--existing-svnrepos">>, <<"--dumpfile", "--bdb-txn-nosync">>,
   <<"--fs-type", "--existing-svnrepos">>}

SVNOutputRefused ==
  \/ Given("--dump-only") /\ ~Given("--dumpfile")
  \/ ~Given("--svnrepos") /\ ~Given("--dumpfile") /\ ~DryRun
  \/ Clash(SVNClashes)
  \/ Given("--bdb-txn-nosync") /\ values["--fs-type"] \notin {None, "bdb"}
\* create_options of NewRepositoryOutputOption
CreateOptions ==
  (CASE values["--fs-type"] = None -> <<"--bdb-txn-nosync">>
     [] values["--fs-type"] = "bdb" -> <<"--fs-type=bdb", "--bdb-txn-nosync">>
     [] OTHER -> <<"--fs-type=other">>)
    \o values["--create-option"]
SVNOutput ==
  IF ~Given("--svnrepos") THEN [kind |-> "dumpfile", path |-> values["--dumpfile"]]
  ELSE IF Given("--existing-svnrepos")
  THEN [kind |-> "existing", path |-> values["--svnrepos"]]
  ELSE [kind |-> "new", path |-> values["--svnrepos"], create |-> CreateOptions,
        nosync |-> Given("--bdb-txn-nosync")]

OutputRefused ==
  /\ pc = "output"
  /\ \/ Program = "svn" /\ SVNOutputRefused
     \/ Program = "bzr" /\ ~DryRun /\ ~Given("--dumpfile")
  /\ Leave("FatalError")
ProcessSVNOutputOptions ==
  /\ pc = "output" /\ Program = "svn" /\ ~SVNOutputRefused
  /\ output' = SVNOutput
  /\ Proceed("symbols")
  /\ UNCHANGED <<asked, collector, reader, projects>>
NullOutput == [kind |-> "null"]
ProcessGitOutputOptions ==
  /\ pc = "output" /\ Program = "git"
  /\ output' = IF DryRun THEN NullOutput
               ELSE [kind |-> "git", path |-> values["--dumpfile"]]
  /\ Proceed("symbols")
  /\ UNCHANGED <<asked, collector, reader, projects>>
ProcessBzrOutputOptions ==
  /\ pc = "output" /\ Program = "bzr" /\ (DryRun \/ Given("--dumpfile"))
  /\ collector' = Null
  /\ reader' = None
  /\ output' = IF DryRun THEN NullOutput
               ELSE [kind |-> "bzr", path |-> values["--dumpfile"],
                     reader |-> RCSOr("cvs")]
  /\ Proceed("symbols")
  /\ UNCHANGED <<asked, projects>>

StandardTransforms == <<"slashes", "normalize">>
DefaultRules ==
  CASE values["--symbol-default"] = "strict" -> << >>
    [] values["--symbol-default"] = "heuristic" ->
         <<<<"branch if commits", None>>, <<"heuristic", None>>>>
    [] OTHER -> <<<<"all", values["--symbol-default"]>>>>

\* Mutant: only the options that give rules are refused.
TrunkOnlyRefused_Rules == TrunkOnly /\ rules # << >>
TrunkOnlyRefused == TrunkOnly /\ (rules # << >> \/ Given("--keep-trivial-imports"))
SymbolOptionsWithTrunkOnly == pc = "symbols" /\ TrunkOnlyRefused /\ Leave("FatalError")
ProcessSymbolStrategyOptions ==
  /\ pc = "symbols" /\ ~TrunkOnlyRefused
  /\ transforms' = transforms \o StandardTransforms
  /\ rules' = IF TrunkOnly THEN rules
              ELSE rules
                     \o (IF Given("--keep-trivial-imports") THEN << >>
                         ELSE <<<<"exclude trivial imports", None>>>>)
                     \o <<<<"unambiguous", None>>>> \o DefaultRules
                     \o <<<<"preferred parent", None>>>>
  /\ Proceed("project")
  /\ UNCHANGED <<incompatible, values, passRange, setUp>>

\* Project.__init__() looks for its directory and wants disjoint paths.
Layout == <<values["--trunk"], values["--branches"], values["--tags"]>>
InitialDirectories == SelectSeq(Layout, LAMBDA path : path # << >>)
Within(a, b) == Len(b) <= Len(a) /\ SubSeq(a, 1, Len(b)) = b
Disjoint(paths) ==
  \A i, j \in DOMAIN paths : i # j => ~Within(paths[i], paths[j])
ProjectRefused ==
  \/ Arguments[1] = "nowhere"
  \/ /\ Program = "svn"
     /\ \/ values["--branches"] = << >> \/ values["--tags"] = << >>
        \/ ~Disjoint(InitialDirectories)
BadProject == pc = "project" /\ ProjectRefused /\ Leave("FatalError")
PathRules == <<<<"trunk path", Layout[1]>>, <<"branches path", Layout[2]>>,
               <<"tags path", Layout[3]>>>>
\* Both replace or extend an empty list.
NewProject(directories, strategyRules) ==
  projects' = <<[root |-> Arguments[1], directories |-> directories,
                 rules |-> strategyRules, transforms |-> transforms]>>
AddProject ==
  /\ pc = "project" /\ Program = "svn" /\ ~ProjectRefused
  /\ NewProject(InitialDirectories, rules \o PathRules)
  /\ Proceed("check")
  /\ UNCHANGED <<asked, collector, reader, output>>
SetProject ==
  /\ pc = "project" /\ Program # "svn" /\ ~ProjectRefused
  /\ NewProject(<< >>, rules)
  /\ Proceed("check")
  /\ UNCHANGED <<asked, collector, reader, output>>
----------------------------------------------------------------------------
(* check_options()                                                         *)

\* check() of the output option
OutputFails ==
  CASE output.kind = "new" -> ~DryRun /\ call.target # "nothing"
    [] output.kind = "existing" -> call.target # "directory"
    [] OTHER -> FALSE
OptionsFail ==
  \/ passRange[1] > passRange[2]
  \/ ~DryRun /\ output = None
  \/ output # None /\ OutputFails
  \/ projects = << >>
CheckFails == pc = "check" /\ OptionsFail /\ Leave("FatalError")
CheckOptions ==
  /\ pc = "check" /\ ~OptionsFail
  /\ Proceed("ready")
  /\ UNCHANGED <<asked, setUp>>
----------------------------------------------------------------------------
Start(c) ==
  /\ call = c
  /\ left = c.line
  /\ found = FALSE
  /\ incompatible = {}
  /\ values = Defaults
  /\ rules = << >>
  /\ transforms = << >>
  /\ passRange = <<1, NumPasses>>
  /\ collector = None
  /\ reader = None
  /\ output = None
  /\ projects = << >>
  /\ pc = "parse"

Next ==
  \/ ReadOptionsFile \/ StoreOption \/ AppendOption \/ NoDefaultEOL
  \/ SymbolRule \/ SymbolTransform \/ NotATransform \/ Passes \/ InvalidPass
  \/ NotAPassRange
  \/ Answer \/ NoSuchOption
  \/ VerifyOptionCompatibility \/ CheckArguments
  \/ TwoExtractions \/ ProcessAllExtractionOptions \/ GitExtractionOptions
  \/ BzrExtractionOptions
  \/ OutputRefused \/ ProcessSVNOutputOptions \/ ProcessGitOutputOptions
  \/ ProcessBzrOutputOptions
  \/ SymbolOptionsWithTrunkOnly \/ ProcessSymbolStrategyOptions
  \/ BadProject \/ AddProject \/ SetProject
  \/ CheckFails \/ CheckOptions
-----------------------------------------------------------------------------
Asked(name) == \E i \in DOMAIN call.line : call.line[i].name = name
AskedNames == {call.line[i].name : i \in DOMAIN call.line}

\* The options that --help of --options (run_options.py:290-297) calls allowed
\* along with it, and one that is allowed besides them
Documented ==
  {"--options", "--help", "--help-passes", "--version", "--verbose", "--quiet",
   "--pass", "--passes", "--dry-run", "--profile", "--trunk-only", "--encoding",
   "--fallback-encoding"}
AlongWithFile == Documented \cup {"--svnadmin"}
FileStandsAlone ==
  Asked("--options") => call.args = <<>> /\ AskedNames \subseteq AlongWithFile

\* The collector that the output's reader depends on has run, and the reader
\* is the one that was asked for.
ReaderServesOutput ==
  /\ output.kind \in {"new", "existing", "dumpfile"} =>
       /\ reader # None
       /\ reader = "internal" <=> collector.kind = "internal"
       /\ Asked("--use-cvs") => reader = "cvs"
       /\ Asked("--use-rcs") => reader = "rcs"
  /\ output.kind = "git" =>
       /\ collector.kind \in {"git", "external"}
       /\ Asked("--use-external-blob-generator") <=> collector.kind = "external"
       /\ Asked("--use-rcs") <=> collector.reader = "rcs"
  /\ output.kind = "bzr" =>
       /\ collector.kind = "null"
       /\ output.reader = IF Asked("--use-rcs") THEN "rcs" ELSE "cvs"
  /\ output.kind = "null" => Asked("--dry-run")

\* What there is at the path of the output is neither overwritten nor created
\* with options that would have no effect.
TargetIsSpared ==
  /\ output.kind = "new" => call.target = "nothing" \/ Asked("--dry-run")
  /\ output.kind = "existing" =>
       /\ call.target = "directory"
       /\ ~Asked("--fs-type") /\ ~Asked("--bdb-txn-nosync")

\* The rules of the caller come first, in their order; which lines of
\* development there are is decided before where they go.
RulesInOrder ==
  LET line == SelectSeq(call.line, LAMBDA o : o.name \in RuleOptions)
      ours == projects[1].rules
      At(kind) == {i \in DOMAIN ours : ours[i][1] = kind}
  IN /\ Len(line) <= Len(ours)
     /\ \A i \in DOMAIN line : ours[i] = <<line[i].name, line[i].value>>
     /\ ~Asked("--trunk-only") =>
          \E decided \in At("unambiguous"), parent \in At("preferred parent") :
            /\ Len(line) < decided /\ decided < parent
            /\ \A i \in DOMAIN ours :
                 /\ ours[i][1] \in {"all", "heuristic"} => i > decided /\ i < parent
                 /\ ours[i][1] \in {"trunk path", "branches path", "tags path"} =>
                      i > parent

\* With --trunk-only no rule decides about symbols, and none is asked for.  This
\* is less than the list of options "not allowed to be used with --trunk-only"
\* (run_options.py:149) says: the code refuses those that give rules and
\* --keep-trivial-imports, but lets --symbol-transform, --symbol-default and
\* --no-cross-branch-commits pass.
NoRulesOnTrunkOnly ==
  Asked("--trunk-only") =>
    /\ AskedNames \cap (RuleOptions \cup {"--keep-trivial-imports"}) = {}
    /\ {rule[1] : rule \in ToSet(projects[1].rules)}
         \subseteq {"trunk path", "branches path", "tags path"}
LayoutIsSound ==
  \A p \in DOMAIN projects :
    LET paths == projects[p].directories
    IN \A i, j \in DOMAIN paths :
         i # j => \E k \in DOMAIN paths[i] :
                    k \in DOMAIN paths[j] /\ paths[i][k] # paths[j][k]

\* A conversion that begins can be carried out, as it was asked for
\* (check_options(), verify_option_compatibility() and the checks before them):
\* with passes that there are, a reader that its output can use, no repository
\* in the way, paths that do not overlap, the caller's rules first and with
\* --trunk-only none, and with an options file nothing besides it.
RunnableAsAsked ==
  pc = "ready" =>
    /\ 1 <= passRange[1] /\ passRange[1] <= passRange[2] /\ passRange[2] <= NumPasses
    /\ projects # <<>>
    /\ output # None \/ Asked("--dry-run")
    /\ FileStandsAlone
    /\ ~Asked("--options") =>
         /\ ReaderServesOutput /\ TargetIsSpared /\ RulesInOrder
         /\ NoRulesOnTrunkOnly /\ LayoutIsSound
=============================================================================

-------------------------- MODULE PropertySetters ---------------------------
(***************************************************************************)
(* The properties of a file are set by a list of property setters, one     *)
(* after the other, none of which changes what an earlier one has set      *)
(* (property_setters.py, and those of svn_run_options.py and               *)
(* dvcs_common.py).  Those of its revisions follow; get_content() of the two *)
(* kinds of reader turns the text in the RCS file into the text that is    *)
(* committed, as the properties _keyword_handling and _eol_fix say; and each *)
(* revision that is dumped has a text, and its properties if they differ   *)
(* from those of the revision before (svn_dump.py).                        *)
(*                                                                         *)
(* A property that is set to Unset is one that is to be left unset.  A text *)
(* is a sequence of characters, of which a keyword and its value are one   *)
(* each; "LF" and "CR" end lines.                                          *)
(***************************************************************************)
EXTENDS Integers, Sequences, SequencesExt, TLC

CONSTANTS
  Unset,            \* Python's None
  Keyword,          \* a word that is a keyword between $ signs
  Value             \* what it stands for in the revision that is read

\* The least k in Dom where Is(k), or 0
FirstWhere(Dom, Is(_)) ==
  LET hits == {k \in Dom : Is(k)}
  IN IF hits = {} THEN 0 ELSE CHOOSE k \in hits : \A h \in hits : k <= h

\* Where the $ sign is that ends a keyword which begins at k: 0 if there is
\* none on the line.  Only "LF" ends a line here.
ClosedAt(text, k) ==
  LET stop == FirstWhere((k + 3)..Len(text), LAMBDA j : text[j] \in {"$", "LF"})
  IN IF stop # 0 /\ text[stop] = "$" THEN stop ELSE 0

BeginsAt(text, k) ==
  k + 2 <= Len(text) /\ text[k] = "$" /\ text[k + 1] = Keyword

\* _kw_re: a keyword with a value
ExpandedAt(text, k) ==
  IF BeginsAt(text, k) /\ text[k + 2] = ":" THEN ClosedAt(text, k) ELSE 0

\* _kwo_re: a keyword, with a value or without
KeywordAt(text, k) ==
  IF BeginsAt(text, k) /\ text[k + 2] = "$" THEN k + 2 ELSE ExpandedAt(text, k)

\* re.sub(): each match is replaced, and the search goes on after it.
RECURSIVE Substitute(_, _, _)
Substitute(text, MatchAt(_, _), by) ==
  LET k == FirstWhere(DOMAIN text, LAMBDA j : MatchAt(text, j) # 0)
  IN IF k = 0 THEN text
     ELSE SubSeq(text, 1, k - 1) \o by
            \o Substitute(SubSeq(text, MatchAt(text, k) + 1, Len(text)), MatchAt, by)

CollapseKeywords(text) == Substitute(text, ExpandedAt, <<"$", Keyword, "$">>)
ExpandKeywords(text) ==
  Substitute(text, KeywordAt, <<"$", Keyword, ":", Value, "$">>)
----------------------------------------------------------------------------

\* canonicalize_eol: a "CR" and a "LF" after it are one end of line.
CanonicalizeEOL(text, eol) ==
  FlattenSeq([k \in DOMAIN text |->
    IF text[k] = "CR" /\ k < Len(text) /\ text[k + 1] = "LF" THEN << >>
    ELSE IF text[k] \in {"LF", "CR"} THEN eol
    ELSE <<text[k]>>])

\* What ends a line, by the value of _eol_fix
EndOfLine == [LF |-> <<"LF">>, CR |-> <<"CR">>, CRLF |-> <<"CR", "LF">>]

FixEOL(text, eol) ==
  IF eol = Unset THEN text ELSE CanonicalizeEOL(text, EndOfLine[eol])

HandleKeywords(text, handling) ==
  CASE handling = "untouched" -> text
    [] handling = "collapsed" -> CollapseKeywords(text)
    [] handling = "expanded" -> ExpandKeywords(text)

\* InternalRevisionReader.get_content
InternalContent(text, handling, eol) ==
  FixEOL(HandleKeywords(text, handling), eol)

\* AbstractRCSRevisionReader._text_options: the -k option that co or
\* cvs is run with, and what is left to do.  Only -kb leaves the line ends alone.
TextOptions == [
  eol_fix |-> [collapsed |-> <<"kk", "untouched">>, expanded |-> <<"kkv", "untouched">>,
               untouched |-> <<"ko", "untouched">>],
  no_fix |-> [collapsed |-> <<"kb", "collapsed">>, expanded |-> <<"kb", "expanded">>,
              untouched |-> <<"kb", "untouched">>]]

\* What co and cvs do, as their options are described.
CheckOut(text, option) ==
  CASE option = "kk" -> CollapseKeywords(text)
    [] option = "kkv" -> ExpandKeywords(text)
    [] option \in {"ko", "kb"} -> text

\* AbstractRCSRevisionReader.get_content
AbstractRCSContent(text, handling, eol) ==
  LET how == TextOptions[IF eol = Unset THEN "no_fix" ELSE "eol_fix"][handling]
  IN FixEOL(HandleKeywords(CheckOut(text, how[1]), how[2]), eol)

-----------------------------------------------------------------------------
(***************************************************************************)
(* The property setters and the dump.                                      *)
(***************************************************************************)

CONSTANTS
  Keywords,         \* config.SVN_KEYWORDS_VALUE
  Texts             \* the texts of revisions

VARIABLES
  file,             \* the mode of the CVSFile, its MIME type as its name tells,
                    \* what auto-props say of it, and if it is executable
  options,          \* the options that choose the setters
  properties,       \* the properties of the file
  todo,             \* the property setters that are left
  history,          \* the revisions of the file on a line of development that
                    \* are left, each an operation and its own properties
  before,           \* the properties of the revision before this one
  node,             \* the properties and the text in the Subversion repository
  original,         \* the text of the latest revision in the RCS file
  pc

vars == <<file, options, properties, todo, history, before, node, original, pc>>
fileVars == <<file, options>>

Named(name) == name \in DOMAIN properties
PropertyOr(name, default) == IF Named(name) THEN properties[name] ELSE default
Truthy(value) == value # Unset /\ value # ""
----------------------------------------------------------------------------
(* The setters.                                                            *)

\* Mutant: the line ends are chosen before the style is.
Setters_EOLFixFirst ==
  <<"SVNEOLFix", "AutoProps", "MimeMapper", "CVSBinaryFileEOLStyle",
    "CVSBinaryFileDefaultMimeType", "EOLStyleFromMimeType", "DefaultEOLStyle",
    "SVNBinaryFileKeywords", "Keywords", "Executable", "SVNKeywordHandling">>

\* process_property_setter_options, in the order of the list
Setters ==
  <<"AutoProps", "MimeMapper", "CVSBinaryFileEOLStyle",
    "CVSBinaryFileDefaultMimeType">>
    \o (IF options.eol_from_mime_type THEN <<"EOLStyleFromMimeType">> ELSE << >>)
    \o <<"DefaultEOLStyle", "SVNBinaryFileKeywords">>
    \o (IF options.keywords_off THEN << >> ELSE <<"Keywords">>)
    \o <<"Executable">>
    \o (IF options.output = "svn" THEN <<"SVNEOLFix", "SVNKeywordHandling">>
        ELSE <<"KeywordHandling">>)

\* The next setter is this one, and sets what is not set yet.
Sets(setter, values) ==
  /\ pc = "file"
  /\ todo # << >>
  /\ Head(todo) = setter
  /\ todo' = Tail(todo)
  /\ properties' = properties @@ values
  /\ UNCHANGED <<fileVars, history, before, node, original, pc>>

Nothing == [name \in {} |-> Unset]
SetsIf(setter, condition, name, value) ==
  Sets(setter, IF condition THEN name :> value ELSE Nothing)

\* get_propdict: of two patterns that match the file the first one counts.
RECURSIVE PropDict(_)
PropDict(patterns) ==
  IF patterns = << >> THEN Nothing
  ELSE Head(patterns) @@ PropDict(Tail(patterns))
AutoProps == Sets("AutoProps", PropDict(file.auto_props))

MimeMapper ==
  SetsIf("MimeMapper", file.mime_type # Unset, "svn:mime-type", file.mime_type)
CVSBinaryFileEOLStyle ==
  SetsIf("CVSBinaryFileEOLStyle", file.mode = "b", "svn:eol-style", Unset)
CVSBinaryFileDefaultMimeType ==
  SetsIf("CVSBinaryFileDefaultMimeType", file.mode = "b", "svn:mime-type", "app/")
EOLStyleFromMimeType ==
  LET mime_type == PropertyOr("svn:mime-type", Unset)
  IN SetsIf("EOLStyleFromMimeType", Truthy(mime_type), "svn:eol-style",
            IF mime_type = "text/" THEN "native" ELSE Unset)
DefaultEOLStyle ==
  SetsIf("DefaultEOLStyle", TRUE, "svn:eol-style", options.default_eol)
SVNBinaryFileKeywords ==
  SetsIf("SVNBinaryFileKeywords", ~ Truthy(PropertyOr("svn:eol-style", Unset)),
         "svn:keywords", Unset)
KeywordsByMode ==
  SetsIf("Keywords", file.mode \in {Unset, "kv", "kvl"}, "svn:keywords", Keywords)
Executable == SetsIf("Executable", file.executable, "svn:executable", "*")

\* EOL_REPLACEMENTS
EOLReplacements == [LF |-> "LF", CR |-> "CR", CRLF |-> "CRLF", native |-> "LF"]

SVNEOLFix ==
  LET style == PropertyOr("svn:eol-style", Unset)
  IN /\ Truthy(style) => style \in DOMAIN EOLReplacements
     /\ Sets("SVNEOLFix",
             "_eol_fix" :> IF Truthy(style) THEN EOLReplacements[style] ELSE Unset)

\* A style that Subversion does not have, which can come from auto-props.
SVNEOLFixKeyError ==
  /\ pc = "file"
  /\ todo # << >>
  /\ Head(todo) = "SVNEOLFix"
  /\ Truthy(PropertyOr("svn:eol-style", Unset))
  /\ properties["svn:eol-style"] \notin DOMAIN EOLReplacements
  /\ pc' = "KeyError"
  /\ UNCHANGED <<fileVars, properties, todo, history, before, node, original>>

SVNKeywordHandling ==
  SetsIf("SVNKeywordHandling", TRUE, "_keyword_handling",
         IF file.mode \in {"b", "o"} THEN "untouched"
         ELSE IF file.mode = "k" \/ Truthy(PropertyOr("svn:keywords", Unset))
         THEN "collapsed"
         ELSE "expanded")

\* The setter of a conversion to git, hg or bzr without an options file
KeywordHandling ==
  SetsIf("KeywordHandling", TRUE, "_keyword_handling", "collapsed")

FileDone ==
  /\ pc = "file"
  /\ todo = << >>
  /\ pc' = "revisions"
  /\ UNCHANGED <<fileVars, properties, todo, history, before, node, original>>
----------------------------------------------------------------------------
(* The revisions.                                                          *)

\* get_properties() and get_property() of a revision
Effective(revision) == revision.properties @@ properties
PropertiesOf(revision) ==
  LET all == Effective(revision)
      set == {name \in DOMAIN all : all[name] # Unset}
  IN [name \in set |-> all[name]]

\* determine_revision_properties
PropertiesChanged(revision) ==
  \/ revision.op = "add"
  \/ (revision.op = "change" /\ PropertiesOf(revision) # before)

\* _string_for_props leaves out what is for internal use.
Internal == {"_keyword_handling", "_eol_fix"}
Dumped(revision) ==
  LET all == PropertiesOf(revision)
  IN [name \in DOMAIN all \ Internal |-> all[name]]

Content(revision, text) ==
  LET all == Effective(revision)
  IN InternalContent(text, all["_keyword_handling"],
       IF "_eol_fix" \in DOMAIN all THEN all["_eol_fix"] ELSE Unset)

\* _add_or_change_path: properties that are not dumped stay as they are.
AddOrChange(text) ==
  /\ pc = "revisions"
  /\ history # << >>
  /\ Head(history).op \in {"add", "change"}
  /\ LET revision == Head(history)
     IN /\ node' = [text |-> Content(revision, text),
                    properties |-> IF PropertiesChanged(revision)
                                   THEN Dumped(revision) ELSE node.properties]
        /\ before' = PropertiesOf(revision)
  /\ original' = text
  /\ history' = Tail(history)
  /\ UNCHANGED <<fileVars, properties, todo, pc>>

NoNode == [text |-> << >>, properties |-> Nothing]

Delete ==
  /\ pc = "revisions"
  /\ history # << >>
  /\ Head(history).op = "delete"
  /\ node' = NoNode
  /\ before' = PropertiesOf(Head(history))
  /\ original' = << >>
  /\ history' = Tail(history)
  /\ UNCHANGED <<fileVars, properties, todo, pc>>
----------------------------------------------------------------------------
Start(revisions) ==
  /\ properties = Nothing
  /\ todo = Setters
  /\ history = revisions
  /\ before = Nothing
  /\ node = NoNode
  /\ original = << >>
  /\ pc = "file"

Next ==
  \/ AutoProps \/ MimeMapper \/ CVSBinaryFileEOLStyle
  \/ CVSBinaryFileDefaultMimeType \/ EOLStyleFromMimeType \/ DefaultEOLStyle
  \/ SVNBinaryFileKeywords \/ KeywordsByMode \/ Executable
  \/ SVNEOLFix \/ SVNEOLFixKeyError \/ SVNKeywordHandling \/ KeywordHandling
  \/ FileDone \/ Delete
  \/ \E text \in Texts : AddOrChange(text)
-----------------------------------------------------------------------------
Style == IF "svn:eol-style" \in DOMAIN node.properties
         THEN node.properties["svn:eol-style"] ELSE ""
HasKeywords == "svn:keywords" \in DOMAIN node.properties
               /\ node.properties["svn:keywords"] # ""

\* The lines of a text, whatever ends them
RECURSIVE Lines(_)
Lines(text) ==
  LET k == FirstWhere(DOMAIN text, LAMBDA j : text[j] \in {"LF", "CR"})
      pair == text[k] = "CR" /\ k < Len(text) /\ text[k + 1] = "LF"
  IN IF k = 0 THEN <<text>>
     ELSE <<SubSeq(text, 1, k - 1)>>
            \o Lines(SubSeq(text, IF pair THEN k + 2 ELSE k + 1, Len(text)))

RECURSIVE Joined(_, _)
Joined(lines, eol) ==
  IF Len(lines) = 1 THEN lines[1] ELSE lines[1] \o eol \o Joined(Tail(lines), eol)

IsDumped == pc = "revisions" /\ before # Nothing /\ node # NoNode
Read == HandleKeywords(original, properties["_keyword_handling"])

\* What Subversion is told about the ends of the lines is how they are.
LineEndsAsTold ==
  IF Style = "" \/ options.output # "svn" THEN node.text = Read
  ELSE node.text = Joined(Lines(Read), EndOfLine[EOLReplacements[Style]])

\* On no line is a keyword expanded that Subversion is to expand, unless CVS
\* leaves the keywords of the file alone.
KeywordsAsTold ==
  (HasKeywords /\ file.mode \notin {"b", "o"}) =>
     \A line \in ToSet(Lines(node.text)) :
       \A k \in DOMAIN line : ExpandedAt(line, k) = 0

\* A binary file is committed to Subversion as it is, unless auto-props ask for
\* something else.
BinaryUntouched ==
  (file.mode = "b" /\ file.auto_props = << >> /\ options.output = "svn") =>
     /\ node.text = original
     /\ Style = "" /\ ~ HasKeywords
     /\ node.properties["svn:mime-type"] =
          IF file.mime_type = Unset THEN "app/" ELSE file.mime_type

\* The node has just the properties of the latest revision, whichever of them
\* were in the dump.
PropertiesAsDetermined ==
  node.properties =
    [name \in {n \in DOMAIN before : n \notin Internal} |-> before[name]]

\* The readers that run co or cvs give the same text.
ReadersAgree ==
  node.text = AbstractRCSContent(original, properties["_keyword_handling"],
                                 PropertyOr("_eol_fix", Unset))

\* The text that is committed fits the properties that are committed with it,
\* by whichever order of setters and of revisions they came about.
TextFitsProperties ==
  IsDumped => /\ LineEndsAsTold /\ KeywordsAsTold /\ BinaryUntouched
              /\ PropertiesAsDetermined /\ ReadersAgree
=============================================================================

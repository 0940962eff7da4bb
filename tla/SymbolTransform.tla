-------------------------- MODULE SymbolTransform --------------------------
(***************************************************************************)
(* The name of a symbol in a file is transformed by the rules of the       *)
(* project, one after the other, until one ignores the symbol              *)
(* (symbol_transform.py).                                                  *)
(*                                                                         *)
(* A name, and the path of an RCS file, is a sequence of characters.  A    *)
(* pattern is a sequence of alternatives, each a sequence of characters of *)
(* which "." stands for any, grouped by parentheses or not: (a|b) or a|b.  *)
(***************************************************************************)
EXTENDS Integers, Sequences, SequencesExt

CONSTANTS
  None              \* the name of a symbol that is ignored

VARIABLES
  call,             \* the path of the RCS file, the revision number, the name
                    \* of the symbol and all transforms
  rules,            \* the transforms that are left
  name,             \* what the name is so far
  pc

vars == <<call, rules, name, pc>>

Rule == Head(rules)
IsNext(kind) == pc = "transform" /\ rules # << >> /\ Rule.kind = kind

\* The name that a rule gives; one that gives None is the last.
Gives(newName) ==
  /\ name' = newName
  /\ rules' = IF newName = None THEN << >> ELSE Tail(rules)
  /\ UNCHANGED <<call, pc>>
Inner(applies) ==
  /\ rules' = (IF applies THEN <<Rule.inner>> ELSE << >>) \o Tail(rules)
  /\ UNCHANGED <<call, name, pc>>
----------------------------------------------------------------------------
(* Regular expressions, of '^' + pattern + '$'.                            *)

\* Mutant: nothing ties a match to the end of the name.
MatchesAt_NoEnd(pattern, i, text, k) ==
  LET alternative == pattern.alternatives[i]
  IN /\ k + Len(alternative) - 1 <= Len(text)
     /\ \A j \in DOMAIN alternative : alternative[j] \in {".", text[k + j - 1]}
     /\ pattern.grouped \/ i = 1 => k = 1

\* "^" ties all alternatives of a group to the beginning of the name and "$"
\* to its end, but only the first and the last of alternatives in the open.
MatchesAt(pattern, i, text, k) ==
  LET alternative == pattern.alternatives[i]
      end == k + Len(alternative) - 1
  IN /\ end <= Len(text)
     /\ \A j \in DOMAIN alternative : alternative[j] \in {".", text[k + j - 1]}
     /\ pattern.grouped \/ i = 1 => k = 1
     /\ pattern.grouped \/ i = Len(pattern.alternatives) => end = Len(text)

Hits(pattern, text, k) ==
  {i \in DOMAIN pattern.alternatives : MatchesAt(pattern, i, text, k)}
FirstOf(S) == CHOOSE i \in S : \A j \in S : i <= j

\* sub(): every match, from left to right
RECURSIVE SubstituteFrom(_, _, _, _)
SubstituteFrom(pattern, replacement, text, k) ==
  IF k > Len(text) THEN << >>
  ELSE IF Hits(pattern, text, k) = {}
  THEN <<text[k]>> \o SubstituteFrom(pattern, replacement, text, k + 1)
  ELSE replacement
         \o SubstituteFrom(pattern, replacement, text,
                           k + Len(pattern.alternatives[FirstOf(Hits(pattern, text, k))]))
----------------------------------------------------------------------------
(* The transforms.                                                         *)

\* str.replace()
RECURSIVE Replaced(_, _, _)
Replaced(text, old, new) ==
  IF Len(text) < Len(old) THEN text
  ELSE IF IsPrefix(old, text)
  THEN new \o Replaced(SubSeq(text, Len(old) + 1, Len(text)), old, new)
  ELSE <<Head(text)>> \o Replaced(Tail(text), old, new)
ReplaceSubstrings == IsNext("replace") /\ Gives(Replaced(name, Rule.old, Rule.new))

\* normalize_svn_path: no "/" is first, last or after another one.
NormalPath(text) ==
  LET kept == {k \in DOMAIN text :
                 text[k] = "/" => /\ \E j \in 1..(k - 1) : text[j] # "/"
                                  /\ k < Len(text) /\ text[k + 1] # "/"}
  IN FlattenSeq([k \in DOMAIN text |-> IF k \in kept THEN <<text[k]>> ELSE << >>])
NormalizePaths ==
  /\ IsNext("normalize")
  /\ NormalPath(name) # << >>
  /\ Gives(NormalPath(name))
IllegalSVNPath ==
  /\ IsNext("normalize")
  /\ NormalPath(name) = << >>
  /\ pc' = "FatalError"
  /\ UNCHANGED <<call, rules, name>>

Regexp ==
  IsNext("regexp") /\ Gives(SubstituteFrom(Rule.pattern, Rule.new, name, 1))
Ignore ==
  IsNext("ignore") /\ Gives(IF Hits(Rule.pattern, name, 1) # {} THEN None ELSE name)

\* SymbolMapper; of two items for the same key the last one counts.
LastItem(items, Is(_)) ==
  LET found == {k \in DOMAIN items : Is(items[k])}
  IN CHOOSE k \in found : \A j \in found : j <= k
Mapper ==
  LET IsKey(item) ==
        item[1] = call.path /\ item[2] = name /\ item[3] = call.revision
  IN /\ IsNext("mapper")
     /\ Gives(IF \E k \in DOMAIN Rule.items : IsKey(Rule.items[k])
              THEN Rule.items[LastItem(Rule.items, IsKey)][4] ELSE name)

\* os.path.dirname() until nothing changes; the root is a directory too.
DirName(path) ==
  LET seps == {k \in DOMAIN path : path[k] = "/"}
      last == CHOOSE k \in seps : \A j \in seps : j <= k
  IN IF seps = {} THEN << >> ELSE IF last = 1 THEN <<"/">> ELSE SubSeq(path, 1, last - 1)
RECURSIVE Lookup(_, _)
Lookup(items, path) ==
  LET IsKey(item) == item[1] = path /\ item[2] = name
  IN IF \E k \in DOMAIN items : IsKey(items[k]) THEN items[LastItem(items, IsKey)][3]
     ELSE IF DirName(path) = path THEN name
     ELSE Lookup(items, DirName(path))
SubtreeMapper == IsNext("subtree_mapper") /\ Gives(Lookup(Rule.items, call.path))

\* Mutant: a path that begins with the name of the directory is in it.
DoesRuleApplyTo_Prefix(subtree, path) == IsPrefix(subtree, path)

DoesRuleApplyTo(subtree, path) ==
  /\ IsPrefix(subtree, path)
  /\ Len(path) = Len(subtree) \/ path[Len(subtree) + 1] = "/"
Subtree == IsNext("subtree") /\ Inner(DoesRuleApplyTo(Rule.subtree, call.path))

\* is_branch_revision_number: the number of a branch has an odd length.
IsBranchRevisionNumber(revision) == Len(revision) % 2 = 1
TagOnly == IsNext("tags") /\ Inner(~ IsBranchRevisionNumber(call.revision))
BranchOnly == IsNext("branches") /\ Inner(IsBranchRevisionNumber(call.revision))
----------------------------------------------------------------------------
Transform(path, revision, symbol_name, transforms) ==
  /\ call = [path |-> path, revision |-> revision, symbol_name |-> symbol_name,
             transforms |-> transforms]
  /\ name = symbol_name
  /\ rules = transforms
  /\ pc = "transform"

Next ==
  \/ ReplaceSubstrings \/ NormalizePaths \/ IllegalSVNPath \/ Regexp \/ Ignore
  \/ Mapper \/ SubtreeMapper \/ Subtree \/ TagOnly \/ BranchOnly
-----------------------------------------------------------------------------
(* What the docstrings say of each transform.                              *)

\* "PATTERN is a regular expression that should match the whole symbol name."
MatchesWhole(pattern, text) ==
  \E alternative \in ToSet(pattern.alternatives) :
    /\ Len(alternative) = Len(text)
    /\ \A k \in DOMAIN text : alternative[k] \in {".", text[k]}

\* The directories that a path is in, and itself
Ancestors(path) ==
  {path} \union {SubSeq(path, 1, k - 1) : k \in {j \in 2..Len(path) : path[j] = "/"}}
         \union {<<"/">>}

Components(text) ==
  LET cuts == {0, Len(text) + 1} \union {k \in DOMAIN text : text[k] = "/"}
      spans == {<<i, j>> \in cuts \X cuts :
                  i + 1 < j /\ ~ \E k \in cuts : i < k /\ k < j}
  IN {<<span[1], SubSeq(text, span[1] + 1, span[2] - 1)>> : span \in spans}

RECURSIVE Effect(_, _)
Effect(rule, text) ==
  CASE rule.kind = "subtree" ->
         IF rule.subtree \in Ancestors(call.path) THEN Effect(rule.inner, text) ELSE text
    [] rule.kind = "tags" ->
         IF Len(call.revision) = 2 THEN Effect(rule.inner, text) ELSE text
    [] rule.kind = "branches" ->
         IF Len(call.revision) = 3 THEN Effect(rule.inner, text) ELSE text
    [] rule.kind = "subtree_mapper" ->
         LET fitting == {k \in DOMAIN rule.items :
                           rule.items[k][1] \in Ancestors(call.path) /\ rule.items[k][2] = text}
             depth(k) == Len(rule.items[k][1])
         IN IF fitting = {} THEN text
            ELSE rule.items[CHOOSE k \in fitting : \A j \in fitting :
                              depth(j) < depth(k) \/ (depth(j) = depth(k) /\ j <= k)][3]
    [] rule.kind = "mapper" ->
         LET Is(item) == SubSeq(item, 1, 3) = <<call.path, text, call.revision>>
             same == SelectSeq(rule.items, Is)
         IN IF same = << >> THEN text ELSE Last(same)[4]
    [] rule.kind = "normalize" ->
         LET parts == SetToSortSeq(Components(text), LAMBDA p, q : p[1] < q[1])
         IN FlattenSeq([k \in DOMAIN parts |->
              IF k = 1 THEN parts[k][2] ELSE <<"/">> \o parts[k][2]])
    [] rule.kind = "replace" -> \* where no occurrence overlaps another
         LET Found(k) == k > 0 /\ IsPrefix(rule.old, SubSeq(text, k, Len(text)))
         IN FlattenSeq([k \in DOMAIN text |->
              IF Found(k) THEN rule.new
              ELSE IF \E d \in 1..(Len(rule.old) - 1) : Found(k - d) THEN << >>
              ELSE <<text[k]>>])
    [] rule.kind = "regexp" -> IF MatchesWhole(rule.pattern, text) THEN rule.new ELSE text
    [] rule.kind = "ignore" -> IF MatchesWhole(rule.pattern, text) THEN None ELSE text

IsDone == pc = "transform" /\ rules = << >>
AfterFirst == Effect(call.transforms[1], call.symbol_name)
AfterBoth == IF AfterFirst = None THEN None ELSE Effect(call.transforms[2], AfterFirst)

\* A name is transformed by all rules in turn, each within the subtree and for
\* the kind of symbol it is limited to, the most specific of several rules for
\* one name, and by a pattern only if it matches the whole name; once it is
\* ignored nothing else happens to it; and a name of which nothing is left is
\* an error.  With patterns that have alternatives in the open it is not so:
\* see WholeNamesOnly.
TransformsExact ==
  /\ IsDone => name = AfterBoth
  /\ pc = "FatalError" => << >> \in {AfterFirst, AfterBoth}

\* "P must match the whole symbol name" (run_options.py:383): a name that no
\* pattern matches from its beginning to its end stays as it is.
WholeNamesOnly ==
  /\ IsDone
  /\ \A rule \in ToSet(call.transforms) :
       rule.kind \in {"regexp", "ignore"} /\ ~ MatchesWhole(rule.pattern, call.symbol_name)
  => name = call.symbol_name
=============================================================================

------------------------------ MODULE MCTexts ------------------------------
(***************************************************************************)
(* The texts of revisions, from the RCS file to the output, and the files  *)
(* the passes keep what they read in; which part a behaviour is about is   *)
(* chosen at its start.                                                    *)
(*                                                                         *)
(* "tokens": a reader of a _TokenStream, which takes one token after       *)
(* another and may put one back: every text of up to six characters, in    *)
(* chunks of every size.                                                   *)
(*                                                                         *)
(* "parser": RCS files of one admin phrase, up to two revisions and two    *)
(* deltatexts, whole and cut at every character, in chunks of several      *)
(* sizes.  Each is a list of phrases with the calls they stand for.        *)
(*                                                                         *)
(* "deltas": an RCSStream that is taken from one text to the next by a     *)
(* delta, all deltas between texts of up to three lines being tried.       *)
(*                                                                         *)
(* "checkout": InternalRevisionCollector and InternalRevisionReader on two *)
(* files: one with three revisions on trunk, two on a branch from the      *)
(* first of them and one on a branch from the second; and one whose only   *)
(* revision is in the file twice.                                          *)
(*                                                                         *)
(* "indexed": IndexedDatabase over RecordTable: two indexes and a cache of *)
(* two entries, a short and a long object, and a main file with room for   *)
(* three objects besides the serializer.                                   *)
(***************************************************************************)
EXTENDS IndexedDatabase, SequencesExt, TLC

CONSTANTS
  None, Line, Bare,
  la, lb, lz,  \* two lines, and one without a newline
  short, long  \* two objects

VARIABLES
  part,                 \* which part it is
  token_stream, tokens, \* the reader's stream, and the tokens it has taken
  rcs_file, reader, parser_pc, \* RCSParser; rcs_file is what the text is made from
  lines,     \* RCSStream._lines
  before,    \* the text before the last delta
  wanted,    \* the text that delta leads to
  diff,      \* the delta
  canonical, \* whether it deletes before it adds, as RCS does
  inverse,   \* what invert_diff() returned for it
  text, needed, checked_in, deltatexts, revisions_seen, stream, db, rcs_trees,
  loaded_files, content  \* CheckoutInternal; checked_in is its file

Parser == INSTANCE RCSParser WITH
  Blank <- {" "}, At <- "@", Punctuation <- {";", ":"}, Number <- {"1.1", "1.2"},
  YearOf <- (<<"99">> :> 1999 @@ <<"2001">> :> 2001 @@ <<"69">> :> 1969),
  file <- rcs_file, pc <- parser_pc

-----------------------------------------------------------------------------
(* "checkout"                                                              *)

MCRev == 1 .. 7
MCTrunkRevs == {1, 2, 3, 7}
MCbase_revision == <<None, 1, 2, 1, 4, 2, None>>
MCCVSFiles == << <<3, 2, 1, 4, 6, 5>>, <<7, 7>> >>
MCRevisionTexts == {<<la>>, <<lb, la>>}

Command(cmd, start, count) == [cmd |-> cmd, start |-> start, count |-> count]

\* The delta that keeps the common end of two texts.
Replace(old, new, k) ==
  (IF Len(old) = k THEN <<>> ELSE <<Command("d", 1, Len(old) - k)>>)
  \o (IF Len(new) = k THEN <<>>
      ELSE <<Command("a", Len(old) - k, Len(new) - k)>> \o SubSeq(new, 1, Len(new) - k))
MCRCSDelta(old, new) == Replace(old, new, Len(LongestCommonPrefix({Reverse(old), Reverse(new)})))

Checkout == INSTANCE CheckoutInternal WITH
  Rev <- MCRev, TrunkRevs <- MCTrunkRevs, base_revision <- MCbase_revision,
  CVSFiles <- MCCVSFiles, Texts <- MCRevisionTexts, RCSDelta <- MCRCSDelta,
  file <- checked_in

-----------------------------------------------------------------------------
(* "indexed"                                                               *)

MCIndex == 0..1
MCAsked == -1..1
MCItem == {short, long}
MCSizeOf == [item \in MCItem |-> IF item = short THEN 1 ELSE 2]
MCRecord == 0..(OffsetLimit - 1)

-----------------------------------------------------------------------------
token_vars == <<token_stream, tokens>>
parser_vars == <<rcs_file, reader, parser_pc>>
delta_vars == <<lines, before, wanted, diff, canonical, inverse>>
checkout_vars == <<text, needed, checked_in, deltatexts, revisions_seen, stream, db,
                   rcs_trees, loaded_files, content>>
text_vars == <<token_vars, parser_vars, delta_vars, checkout_vars>>
all_vars == <<part, text_vars, vars, dbVars>>

NoToken == Parser!NoToken

-----------------------------------------------------------------------------
(* "tokens"                                                                *)

MaxLength == 6
Chars == {" ", ";", "@", "a"}
TokenTexts == UNION {[1..n -> Chars] : n \in 1..MaxLength}

TokensInit ==
  /\ \E t \in TokenTexts, chunk \in 1..MaxLength :
       chunk <= Len(t) /\ token_stream = Parser!Stream(t, chunk)
  /\ tokens = << >>

Take ==
  /\ token_stream.error = Parser!NoError \/ token_stream.pushed # Parser!NotPushed
  /\ \E g \in {Parser!Get(token_stream)} :
       token_stream' = g.stream /\ tokens' = Append(tokens, g.token)

PutBack ==
  /\ tokens # << >>
  /\ token_stream.pushed = Parser!NotPushed
  /\ token_stream' = Parser!Unget(token_stream, Last(tokens))
  /\ tokens' = Front(tokens)

\* The reference: the tokens of a text from position p on, with the end of the
\* file after them; where the string ends that begins after position p.
RECURSIVE Closing(_, _)
Closing(t, p) ==
  IF p > Len(t) THEN 0
  ELSE IF t[p] # "@" THEN Closing(t, p + 1)
  ELSE IF p = Len(t) THEN 0
  ELSE IF t[p + 1] = "@" THEN Closing(t, p + 2)
  ELSE p

RECURSIVE Unquoted(_)
Unquoted(t) ==
  IF t = << >> THEN << >>
  ELSE IF Head(t) = "@" THEN <<"@">> \o Unquoted(SubSeq(t, 3, Len(t)))
  ELSE <<Head(t)>> \o Unquoted(Tail(t))

RECURSIVE TokensFrom(_, _)
TokensFrom(t, p) ==
  LET ends == {q \in p..Len(t) : t[q] \in {" ", ";"}}
      stop == CHOOSE q \in ends : \A r \in ends : q <= r
      q == Closing(t, p + 1)
  IN IF p > Len(t) THEN <<NoToken>>
     ELSE IF t[p] = " " THEN TokensFrom(t, p + 1)
     ELSE IF t[p] = ";" THEN <<<<";">>>> \o TokensFrom(t, p + 1)
     ELSE IF t[p] = "@"
     THEN IF q = 0 THEN <<NoToken>>
          ELSE <<Unquoted(SubSeq(t, p + 1, q - 1))>> \o TokensFrom(t, q + 1)
     ELSE IF ends = {} THEN <<NoToken>>
     ELSE <<SubSeq(t, p, stop - 1)>> \o TokensFrom(t, stop)

-----------------------------------------------------------------------------
(* "parser"                                                                *)

Q(t) == <<" ", "@">> \o t \o <<"@">>
P(t, c) == [text |-> t, calls |-> c]

\* The phrases of an admin section, with empty values and unknown words.
AdminPhrases == {
  P(<<"head", " ", "1.1", ";">>, <<<<"set_head_revision", <<"1.1">>>>>>),
  P(<<"head", ";">>, << >>),
  P(<<"branch", " ", "1.1", " ", ";">>, <<<<"set_principal_branch", <<"1.1">>>>>>),
  P(<<"branch", ";">>, << >>),
  P(<<"access", ";">>, << >>),
  P(<<"access", " ", "a", " ", "b", ";">>,
    <<<<"set_access", <<<<"a">>, <<"b">>>>>>>>),
  P(<<"symbols", " ", "a", ":", "1.1", " ", "b", ":", "1.2", ";">>,
    <<<<"define_tag", <<"a">>, <<"1.1">>>>, <<"define_tag", <<"b">>, <<"1.2">>>>>>),
  P(<<"locks", " ", "a", ":", "1.1", ";", "strict", ";">>,
    <<<<"set_locker", <<"1.1">>, <<"a">>>>, <<"set_locking", <<"strict">>>>>>),
  P(<<"comment">> \o Q(<<"#">>) \o <<";">>, <<<<"set_comment", <<"#">>>>>>),
  P(<<"expand">> \o Q(<<"b">>) \o <<";">>, <<<<"set_expansion", <<"b">>>>>>),
  P(<<"a", " ", "b">> \o Q(<<"@", "@">>) \o <<";">>, << >>)}

RevisionEntry(date, year, branches, next, new) ==
  P(<<" ", "1.1", " ", "date", " ", date, ";", "author", " ", "a", " ", "b", ";",
      "state", " ", "Exp", ";", "branches">> \o branches \o <<";", "next", " ">>
      \o next \o <<";">> \o new,
    <<<<"define_revision", <<"1.1">>, year, <<<<"a">>, <<"b">>>>, <<<<"Exp">>>>,
        IF branches = << >> THEN << >> ELSE <<<<"1.2">>>>,
        IF next = << >> THEN NoToken ELSE next>>>>)

Revisions == {
  << >>,
  <<RevisionEntry("99", 1999, << >>, << >>, << >>)>>,
  <<RevisionEntry("2001", 2001, <<" ", "1.2">>, <<"1.2">>,
          <<"a", " ">> \o Q(<<";">>) \o <<";", "b", ";">>),
    RevisionEntry("99", 1999, << >>, << >>, <<"a", ";">>)>>,
  <<RevisionEntry("69", 1969, << >>, << >>, << >>)>>}

Deltatext(t) ==
  P(<<" ", "1.1", " ", "log">> \o Q(<<"a">>) \o <<"text">>
      \o Q(FlattenSeq([k \in DOMAIN t |->
             IF t[k] = "@" THEN <<"@", "@">> ELSE <<t[k]>>])) \o <<" ">>,
    <<<<"set_revision_info", <<"1.1">>, <<"a">>, t>>>>)

DeltaLists == {<< >>, <<Deltatext(<<"@">>), Deltatext(<<" ", ";">>)>>}

TextOf(parts) == FlattenSeq([k \in DOMAIN parts |-> parts[k].text])
CallsOf(parts) == FlattenSeq([k \in DOMAIN parts |-> parts[k].calls])

RCSFile(admin, tree, deltas) ==
  admin
    \o <<P(<< >>, <<<<"admin_completed">>>>)>>
    \o tree
    \o <<P(<<" ", "desc">> \o Q(<< >>) \o <<" ">>,
           <<<<"tree_completed">>, <<"set_description", << >>>>>>)>>
    \o deltas
    \o <<P(<< >>, <<<<"parse_completed">>>>)>>

AllFiles ==
  {RCSFile(admin, tree, deltas) :
     admin \in {<< >>} \cup {<<phrase>> : phrase \in AdminPhrases},
     tree \in Revisions, deltas \in DeltaLists}

\* Whole texts, and each of them cut at every place.
ParserInit ==
  /\ \E parts \in AllFiles :
     \E length \in 0..Len(TextOf(parts)) : rcs_file = [parts |-> parts, length |-> length]
  /\ \E chunk \in {1, 2, 5, 100} : Parser!Parse(SubSeq(TextOf(rcs_file.parts), 1, rcs_file.length), chunk)

-----------------------------------------------------------------------------
(* "deltas"                                                                *)

ShortTexts == {t \in BoundedSeq(Line \cup Bare, 3) : Checkout!IsText(t)}

\* The lines a delta keeps: pairs of equal lines, in the order of both texts.
Kept(old, new) ==
  {kept \in SUBSET {p \in (DOMAIN old) \X (DOMAIN new) : old[p[1]] = new[p[2]]} :
     \A p, q \in kept : p # q => \/ p[1] < q[1] /\ p[2] < q[2]
                                 \/ p[1] > q[1] /\ p[2] > q[2]}

\* RCS's delta from old to new that keeps those lines: for every run of other
\* lines, what is deleted and then what is added; or the other way round.
Delta(old, new, kept, deletes_first) ==
  LET marks == kept \cup {<<0, 0>>, <<Len(old) + 1, Len(new) + 1>>}
      order == SetToSortSeq(marks, LAMBDA p, q : p[1] < q[1])
      Run(k) ==
        LET p == order[k]  q == order[k + 1]
            count == q[1] - p[1] - 1
            added == SubSeq(new, p[2] + 1, q[2] - 1)
            d == IF count = 0 THEN <<>> ELSE <<Command("d", p[1] + 1, count)>>
            a == IF added = <<>> THEN <<>>
                 ELSE <<Command("a", IF deletes_first THEN q[1] - 1 ELSE p[1], Len(added))>>
                      \o added
        IN  IF deletes_first THEN d \o a ELSE a \o d
  IN  FlattenSeq([k \in 1 .. Len(order) - 1 |-> Run(k)])

DeltasInit ==
  /\ lines \in ShortTexts
  /\ before = lines /\ wanted = lines
  /\ diff = <<>> /\ canonical = TRUE /\ inverse = <<>>

Follow(delta) ==
  /\ lines' = Checkout!ApplyDiff(lines, delta).lines
  /\ inverse' = Checkout!InvertDiff(lines, delta).inverse

ApplyDelta ==
  /\ wanted = before
  /\ \E new \in ShortTexts, deletes_first \in BOOLEAN : \E kept \in Kept(lines, new) :
       /\ diff' = Delta(lines, new, kept, deletes_first)
       /\ Checkout!MSplit(diff') = diff'
       /\ before' = lines /\ wanted' = new /\ canonical' = deletes_first
       /\ Follow(diff')

-----------------------------------------------------------------------------
NoTokens == token_stream = << >> /\ tokens = << >>
NoParser == rcs_file = << >> /\ reader = << >> /\ parser_pc = "done"
NoDeltas ==
  /\ lines = << >> /\ before = << >> /\ wanted = << >> /\ diff = << >>
  /\ canonical = TRUE /\ inverse = << >>
NoCheckout ==
  /\ text = << >> /\ needed = {} /\ checked_in = 0 /\ deltatexts = << >>
  /\ revisions_seen = {} /\ stream = None /\ db = None /\ rcs_trees = << >>
  /\ loaded_files = {} /\ content = << >>

NoTexts == NoTokens /\ NoParser /\ NoDeltas /\ NoCheckout

MCInit ==
  /\ DatabaseInit
  /\ \/ part = "tokens" /\ TokensInit /\ NoParser /\ NoDeltas /\ NoCheckout
     \/ part = "parser" /\ ParserInit /\ NoTokens /\ NoDeltas /\ NoCheckout
     \/ part = "deltas" /\ DeltasInit /\ NoTokens /\ NoParser /\ NoCheckout
     \/ part = "checkout" /\ Checkout!Init /\ NoTokens /\ NoParser /\ NoDeltas
     \/ part = "indexed" /\ NoTexts

Reading ==
  \/ part = "tokens" /\ (Take \/ PutBack) /\ UNCHANGED <<parser_vars, delta_vars, checkout_vars>>
  \/ part = "parser" /\ Parser!Next /\ UNCHANGED <<token_vars, delta_vars, checkout_vars>>
  \/ part = "deltas" /\ ApplyDelta /\ UNCHANGED <<token_vars, parser_vars, checkout_vars>>
  \/ part = "checkout" /\ Checkout!Next /\ UNCHANGED <<token_vars, parser_vars, delta_vars>>

MCNext ==
  \/ Reading /\ UNCHANGED <<part, vars, dbVars>>
  \/ part = "indexed" /\ DatabaseNext /\ UNCHANGED <<part, text_vars>>

MCSpec == MCInit /\ [][MCNext]_all_vars

-----------------------------------------------------------------------------
\* The reader gets the tokens of the text, each once and whole, wherever the
\* chunks are cut and whatever it puts back; and the end of the file when, and
\* only when, they are all read.
TokensExact == part = "tokens" =>
  LET expected == TokensFrom(token_stream.text, 1)
      ahead == IF token_stream.pushed = Parser!NotPushed THEN tokens
               ELSE tokens \o token_stream.pushed
  IN /\ IsPrefix(ahead, expected)
     /\ token_stream.error # Parser!NoError => ahead = expected

\* The calls that the phrases of the file stand for.
Expected == CallsOf(rcs_file.parts)
Dated(calls) ==
  \A k \in DOMAIN calls : calls[k][1] = "define_revision" => calls[k][3] >= 1970

\* A value of a call may be missing where the text ends, and nothing else.
CutAt(k) ==
  /\ k = Len(reader.calls)
  /\ k <= Len(Expected)
  /\ \E j \in 2..Len(Expected[k]) :
       reader.calls[k] = [Expected[k] EXCEPT ![j] = NoToken]
  /\ parser_pc # "done"

\* Only the list of deltatexts can be short without it being noticed.
Completed ==
  LET told == Front(reader.calls)
  IN /\ IsPrefix(told, Expected)
     /\ <<"tree_completed">> \in ToSet(told)

\* The sink is told what the file says, in its order, each value from between
\* its own delimiters, wherever the chunks end; a whole file is told to its end
\* and one that was cut is never told as if it were whole, save for deltatexts.
SinkExact == part = "parser" =>
  /\ \A k \in DOMAIN reader.calls :
       \/ k <= Len(Expected) /\ reader.calls[k] = Expected[k]
       \/ CutAt(k)
       \/ parser_pc = "done" /\ k = Len(reader.calls)
  /\ parser_pc = "done" => Completed
  /\ (rcs_file.length = Len(TextOf(rcs_file.parts)) /\ Dated(Expected)) =>
       /\ parser_pc # "raised"
       /\ parser_pc = "done" => reader.calls = Expected

\* "Inverting twice gives back the original delta" (the docstring of
\* generate_edits_from_blocks()), if that has the order RCS gives it.
TwiceIsOriginal ==
  canonical => Checkout!InvertDiff(lines, inverse).inverse = diff

\* A delta leads to the text it was made for, and the delta that
\* invert_diff() returns leads back from there, whatever lines the two texts
\* share and whether or not they end with a newline.  A trunk is read that
\* way: every text of it but the newest is known only by such inverses.
ThereAndBack == part = "deltas" =>
  /\ TwiceIsOriginal
  /\ lines = wanted
  /\ Checkout!InvertDiff(before, diff).lines = wanted
  /\ Checkout!ApplyDiff(lines, inverse) = [lines |-> before, malformed |-> FALSE]

\* What is read from the internal store is what was checked in, and nothing is
\* left there in the end.
CheckoutExact == part = "checkout" => Checkout!ChecksOutText
=============================================================================

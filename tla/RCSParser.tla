----------------------------- MODULE RCSParser ------------------------------
(***************************************************************************)
(* Reading an RCS file.  _TokenStream of cvs2svn_rcsparse/default.py cuts a *)
(* file that is read in chunks into tokens: words, strings between @ signs *)
(* and the doubled @ signs in them may all be cut by the end of a chunk.   *)
(* _Parser of cvs2svn_rcsparse/common.py reads them one by one and reports *)
(* to a sink, in the order admin section, tree, description and deltatexts. *)
(* What is not known is skipped; a file that is cut short or malformed ends *)
(* the parse with an exception.                                            *)
(*                                                                         *)
(* A text is a sequence of characters; a token is a sequence too, the text *)
(* of a word or of a string, or NoToken for the None of the end of file.   *)
(***************************************************************************)
EXTENDS Integers, Sequences, SequencesExt

CONSTANTS
  Blank,            \* string.whitespace
  At,               \* the @ sign
  Punctuation       \* the characters that are tokens of their own

NoToken == <<"None">>

\* token_term: the characters that end a word.
TokenTerm == Blank \union Punctuation

\* What an open stream holds: the file and how much of it has been read, the
\* buffer and the index in it, the token that was put back (if any), and the
\* error that get() ends in from now on (if any).
NotPushed == << >>
NoError == "none"

Chunk(s) ==
  SubSeq(s.text, s.read + 1,
    IF s.read + s.chunk < Len(s.text) THEN s.read + s.chunk ELSE Len(s.text))

\* rcsfile.read(CHUNK_SIZE) into the buffer
ReadChunk(s) ==
  [s EXCEPT !.buf = Chunk(s), !.read = @ + Len(Chunk(s)), !.idx = 0]

\* __init__, which fails if the file is empty
Stream(text, chunk) ==
  LET s == ReadChunk([text |-> text, chunk |-> chunk, read |-> 0, buf |-> << >>,
                      idx |-> 0, pushed |-> NotPushed, error |-> NoError])
  IN IF s.buf = << >> THEN [s EXCEPT !.error = "RuntimeError"] ELSE s

Failed(s, error) == [token |-> NoToken, stream |-> [s EXCEPT !.error = error]]

\* The end of the file is told once; the next get() fails for want of a buffer.
EndOfFile(s) == Failed(s, "AttributeError")

\* The least index from k on of a character of S in the buffer, or its length.
FirstOf(s, k, S) ==
  LET hits == {j \in k..(Len(s.buf) - 1) : s.buf[j + 1] \in S}
  IN IF hits = {} THEN Len(s.buf) ELSE CHOOSE j \in hits : \A h \in hits : j <= h

Slice(s, from, to) == SubSeq(s.buf, from + 1, to)
----------------------------------------------------------------------------
(* The loops of get(). *)

\* A word that goes on, possibly in the next chunk.  One that is cut by the end
\* of the file is lost.
RECURSIVE GetWord(_, _, _)
GetWord(s, end, token) ==
  LET stop == FirstOf(s, end, TokenTerm)
      longer == token \o Slice(s, s.idx, stop)
      more == ReadChunk(s)
  IN IF stop < Len(s.buf)
     THEN [token |-> longer, stream |-> [s EXCEPT !.idx = stop]]
     ELSE IF more.buf = << >> THEN EndOfFile(s)
     ELSE GetWord(more, 0, longer)

\* Mutant: an @ sign at the end of a chunk ends the string.
AtTheEnd_EndsString(s, chunks, i) ==
  [token |-> chunks \o Slice(s, s.idx, i), stream |-> [s EXCEPT !.idx = i + 1]]

RECURSIVE GetString(_, _)

\* An @ sign that ends a chunk is looked at together with the next chunk.
AtTheEnd(s, chunks, i) ==
  LET more == ReadChunk(s)
  IN IF more.buf = << >> THEN Failed(s, "RuntimeError")
     ELSE GetString([more EXCEPT !.buf = <<At>> \o @],
                    chunks \o Slice(s, s.idx, i))

\* A string, up to the first @ sign that is not doubled.
GetString(s, chunks) ==
  LET i == FirstOf(s, s.idx, {At})
      more == ReadChunk(s)
  IN IF s.idx = Len(s.buf)
     THEN IF more.buf = << >> THEN Failed(s, "RuntimeError")
          ELSE GetString(more, chunks)
     ELSE IF i = Len(s.buf)
     THEN GetString([s EXCEPT !.idx = i], chunks \o Slice(s, s.idx, i))
     ELSE IF i = Len(s.buf) - 1 THEN AtTheEnd(s, chunks, i)
     ELSE IF s.buf[i + 2] = At
     THEN GetString([s EXCEPT !.idx = i + 2], chunks \o Slice(s, s.idx, i + 1))
     ELSE [token |-> chunks \o Slice(s, s.idx, i),
           stream |-> [s EXCEPT !.idx = i + 1]]

RECURSIVE GetNext(_)
GetNext(s) ==
  LET i == FirstOf(s, s.idx, {c \in {s.buf[k] : k \in DOMAIN s.buf} : c \notin Blank})
      at == [s EXCEPT !.idx = i]
      more == ReadChunk(s)
  IN IF i = Len(s.buf)
     THEN IF more.buf = << >> THEN EndOfFile(s) ELSE GetNext(more)
     ELSE IF s.buf[i + 1] \in Punctuation
     THEN [token |-> <<s.buf[i + 1]>>, stream |-> [s EXCEPT !.idx = i + 1]]
     ELSE IF s.buf[i + 1] = At THEN GetString([s EXCEPT !.idx = i + 1], << >>)
     ELSE GetWord(at, i + 1, << >>)

\* get(), which after unget() returns the token that was put back.
Get(s) ==
  IF s.pushed # NotPushed
  THEN [token |-> s.pushed[1], stream |-> [s EXCEPT !.pushed = NotPushed]]
  ELSE IF s.error # NoError THEN Failed(s, s.error)
  ELSE GetNext(s)

Unget(s, token) == [s EXCEPT !.pushed = <<token>>]

-----------------------------------------------------------------------------
(***************************************************************************)
(* The parser.  A keyword, a number or a name is one character of the text, *)
(* so that a chunk of the file may end anywhere.                           *)
(***************************************************************************)

CONSTANTS
  Number,           \* the words that begin with a digit
  YearOf            \* the year of each date

VARIABLES
  file,             \* the file that is read, which nobody else writes
  reader,           \* the parse so far: its stream, the last token, the calls
                    \* of the sink and the exception, if any
  pc                \* which part of the file is being read

vars == <<file, reader, pc>>

NotRaised == "None"
Semicolon == <<";">>
Colon == <<":">>
Word(w) == <<w>>
----------------------------------------------------------------------------
(* Reading.  Nothing more is read or told once an exception is raised.     *)
(* What is read is bound as the member of a set, to be computed once.      *)

Only(S) == CHOOSE x \in S : TRUE

Raise(r, e) == IF r.raised # NotRaised THEN r ELSE [r EXCEPT !.raised = e]
Tell(r, call) ==
  IF r.raised # NotRaised THEN r ELSE [r EXCEPT !.calls = Append(@, call)]

\* ts.get()
ReadNext(r) ==
  Only({[r EXCEPT !.stream = got.stream, !.token = got.token,
           !.raised = IF got.stream.error = "RuntimeError" THEN "RuntimeError"
                      ELSE NotRaised] : got \in {Get(r.stream)}})

Read(reading) ==
  Only({IF r.raised # NotRaised THEN r
        ELSE IF r.stream.pushed = NotPushed /\ r.stream.error # NoError
        THEN Raise(r, r.stream.error)
        ELSE ReadNext(r) : r \in {reading}})

\* ts.unget() of the last token
PutBack(r) ==
  IF r.raised # NotRaised THEN r ELSE [r EXCEPT !.stream = Unget(@, r.token)]

\* ts.match()
Match(r, word) ==
  Only({IF next.token = word THEN next ELSE Raise(next, "RCSExpected") :
          next \in {Read(r)}})

\* _read_until_semicolon, and the words before the semicolon
RECURSIVE ReadUntilSemicolon(_, _)
ReadUntilSemicolon(r, tokens) ==
  Only({IF next.raised # NotRaised \/ next.token = Semicolon
        THEN [reader |-> next, tokens |-> tokens]
        ELSE ReadUntilSemicolon(next, Append(tokens, next.token)) :
          next \in {Read(r)}})

Skipped(r) == ReadUntilSemicolon(r, << >>).reader

\* token[0] of what may be the None of the end of the file, or empty
IsNumber(token) == token # << >> /\ token[1] \in Number
LooksAt(r) ==
  IF r.token = NoToken THEN Raise(r, "TypeError")
  ELSE IF r.token = << >> THEN Raise(r, "IndexError")
  ELSE r

\* The step ends at reader r, in this part of the file.
Reads(r, part) ==
  /\ reader' = r
  /\ pc' = IF r.raised = NotRaised THEN part ELSE "raised"
  /\ UNCHANGED file

At1 == Read(reader)
----------------------------------------------------------------------------
(* The admin section: parse_rcs_admin and the functions it dispatches to.  *)

Phrase(w) == pc = "admin" /\ At1.raised = NotRaised /\ At1.token = Word(w)

\* A value that may be missing, head and branch
OptionalValue(w, method) ==
  /\ Phrase(w)
  /\ \E value \in {Read(At1)} :
       Reads(IF value.token = Semicolon THEN value
             ELSE Match(Tell(value, <<method, value.token>>), Semicolon),
             "admin")

ParseHead == OptionalValue("head", "set_head_revision")
ParseBranch == OptionalValue("branch", "set_principal_branch")

ParseAccess ==
  /\ Phrase("access")
  /\ \E access \in {ReadUntilSemicolon(At1, << >>)} :
       Reads(IF access.tokens = << >> THEN access.reader
             ELSE Tell(access.reader, <<"set_access", access.tokens>>), "admin")

\* Pairs of words up to a semicolon, symbols and locks: one turn reads a pair.
StartPairs(w) == Phrase(w) /\ Reads(At1, w)

Pair(w, method(_, _)) ==
  /\ pc = w
  /\ \E left \in {At1}, right \in {Read(Match(At1, Colon))} :
       IF left.token = Semicolon THEN Reads(left, "admin")
       ELSE Reads(Tell(right, method(left.token, right.token)), w)

ParseSymbols == StartPairs("symbols")
ParseSymbol ==
  LET Call(name, rev) == <<"define_tag", name, rev>>
  IN Pair("symbols", Call)
ParseLocks == StartPairs("locks")
ParseLock ==
  LET Call(locker, rev) == <<"set_locker", rev, locker>>
  IN Pair("locks", Call)

ParseStrict ==
  /\ Phrase("strict")
  /\ Reads(Match(Tell(At1, <<"set_locking", <<"strict">>>>), Semicolon), "admin")

\* A value that must be there, comment and expand
Value(w, method) ==
  /\ Phrase(w)
  /\ \E value \in {Read(At1)} :
       Reads(Match(Tell(value, <<method, value.token>>), Semicolon), "admin")

ParseComment == Value("comment", "set_comment")
ParseExpand == Value("expand", "set_expansion")

AdminKeywords ==
  {Word(w) : w \in {"head", "branch", "access", "symbols", "locks", "strict",
                    "comment", "expand", "desc"}}

\* The section ends at the first revision or, if there is none, at "desc".
AdminEnds == IsNumber(At1.token) \/ At1.token = Word("desc")

SkipPhrase ==
  /\ pc = "admin"
  /\ At1.raised # NotRaised \/ ~ (At1.token \in AdminKeywords \/ IsNumber(At1.token))
  /\ Reads(Skipped(LooksAt(At1)), "admin")

AdminCompleted ==
  /\ pc = "admin"
  /\ At1.raised = NotRaised
  /\ AdminEnds
  /\ Reads(Tell(PutBack(At1), <<"admin_completed">>), "tree")
----------------------------------------------------------------------------
(* The tree: parse_rcs_tree, one entry at a time.                          *)

\* Mutant: an entry ends where its next revision is told.
SkipNewPhrases_None(r) == r

\* "newphrases" after an entry, up to the next one or the description
RECURSIVE SkipNewPhrases(_)
SkipNewPhrases(r) ==
  Only({IF next.raised # NotRaised THEN next
        ELSE IF next.token = Word("desc") \/ IsNumber(next.token)
        THEN PutBack(next)
        ELSE SkipNewPhrases(Skipped(LooksAt(next))) : next \in {Read(r)}})

\* Years of two digits are of the last century; none is before 1970.
Timestamp(date) == YearOf[date]
CheckDate(r, date) ==
  IF date \notin DOMAIN YearOf \/ Timestamp(date) < 1970
  THEN Raise(r, "ValueError") ELSE r

\* The words of a field, up to its semicolon
Field(r, w) == ReadUntilSemicolon(Match(r, Word(w)), << >>)

ParseEntry ==
  /\ pc = "tree"
  /\ At1.raised # NotRaised \/ At1.token # Word("desc")
  /\ \E date \in {Read(Match(At1, Word("date")))} :
     \E author \in {Field(CheckDate(Match(date, Semicolon), date.token), "author")} :
     \E state \in {Field(author.reader, "state")} :
     \E branches \in {Field(state.reader, "branches")} :
     \E next \in {Read(Match(branches.reader, Word("next")))} :
     \E end \in {SkipNewPhrases(IF next.token = Semicolon THEN next
                                ELSE Match(next, Semicolon))} :
       Reads(IF end.raised # NotRaised THEN end
             ELSE Tell(end, <<"define_revision", At1.token, Timestamp(date.token),
                              author.tokens, state.tokens, branches.tokens,
                              IF next.token = Semicolon THEN NoToken
                              ELSE next.token>>),
             "tree")

TreeCompleted ==
  /\ pc = "tree"
  /\ At1.raised = NotRaised
  /\ At1.token = Word("desc")
  /\ Reads(Tell(PutBack(At1), <<"tree_completed">>), "desc")
----------------------------------------------------------------------------
(* The description and the deltatexts.                                     *)

ParseDescription ==
  /\ pc = "desc"
  /\ \E text \in {Read(Match(reader, Word("desc")))} :
       Reads(Tell(text, <<"set_description", text.token>>), "texts")

\* ts.mget(4), whose tokens are looked at when all are read
ParseDeltatext ==
  /\ pc = "texts"
  /\ At1.raised # NotRaised \/ At1.token # NoToken
  /\ \E sym1 \in {Read(At1)} :
     \E log \in {Read(sym1)} :
     \E sym2 \in {Read(log)} :
     \E text \in {Read(sym2)} :
       Reads(Tell(IF sym1.token # Word("log") \/ sym2.token # Word("text")
                  THEN Raise(text, "RCSExpected") ELSE text,
                  <<"set_revision_info", At1.token, log.token, text.token>>),
             "texts")

ParseCompleted ==
  /\ pc = "texts"
  /\ At1.raised = NotRaised
  /\ At1.token = NoToken
  /\ Reads(Tell(At1, <<"parse_completed">>), "done")
----------------------------------------------------------------------------
\* parse() of a file with this text, read in chunks of this size
Parse(text, chunk) ==
  LET s == Stream(text, chunk)
  IN /\ reader = [stream |-> s, token |-> NoToken, calls |-> << >>,
                  raised |-> IF s.error = NoError THEN NotRaised ELSE s.error]
     /\ pc = IF reader.raised = NotRaised THEN "admin" ELSE "raised"

Next ==
  \/ ParseHead \/ ParseBranch \/ ParseAccess \/ ParseSymbols \/ ParseSymbol
  \/ ParseLocks \/ ParseLock \/ ParseStrict \/ ParseComment \/ ParseExpand
  \/ SkipPhrase \/ AdminCompleted
  \/ ParseEntry \/ TreeCompleted
  \/ ParseDescription \/ ParseDeltatext \/ ParseCompleted
=============================================================================

------------------------- MODULE AppleSingleFilter -------------------------
(***************************************************************************)
(* A stream in AppleSingle format holds several forks of a file, of which  *)
(* apple_single_filter.py passes on the data fork; another stream it       *)
(* passes on as it is.  A read of the stream may give less than is asked   *)
(* for, and only one that gives nothing says that the stream has ended.    *)
(*                                                                         *)
(* Each field of the header and of an entry is one character here.         *)
(***************************************************************************)
EXTENDS Integers, SequencesExt, FiniteSetsExt

CONSTANTS
  MaxSize           \* bound: the size that a caller asks for at most

Magic == <<5, 16>>
RestOfHeaderLength == 3      \* version, filler, number of entries
EntryLength == 3             \* ID, offset, length
Filler == 0
DataForkId == 1

VARIABLES
  file,             \* what the stream has in all
  position,         \* how much of it has been read
  endings,          \* how often a read of it gave nothing
  buffer,           \* what _read_exactly has so far
  skip,             \* how much is to be skipped before the data fork
  length_remaining,
  data_read,        \* what a CompoundStream gives before the stream itself
  output,           \* what the caller has been given
  pc

vars == <<file, position, endings, buffer, skip, length_remaining, data_read,
          output, pc>>

Left == Len(file) - position
Take(size) == SubSeq(file, position + 1, position + size)
Fail(error) ==
  /\ pc' = error
  /\ UNCHANGED <<file, position, endings, buffer, skip, length_remaining,
                 data_read, output>>

Errors == {"FormatError", "EOFError"}
----------------------------------------------------------------------------
(* _read_exactly                                                           *)

\* How much is read before each step of the constructor, or for read(-1)
Wanted ==
  CASE pc = "magic" -> Len(Magic)
    [] pc = "header" -> RestOfHeaderLength
    [] pc = "entries" -> skip * EntryLength
    [] pc = "fork" -> length_remaining
    [] OTHER -> 0

IsRead == endings > 0 \/ Len(buffer) = Wanted
IsComplete == IsRead /\ Len(buffer) = Wanted
IsShort == IsRead /\ Len(buffer) < Wanted

ReadExactly ==
  /\ ~ IsRead
  /\ \/ /\ Left = 0
        /\ endings' = endings + 1
        /\ UNCHANGED <<buffer, position>>
     \/ \E size \in 1..Left :
          /\ size <= Wanted - Len(buffer)
          /\ buffer' = buffer \o Take(size)
          /\ position' = position + size
          /\ UNCHANGED endings
  /\ UNCHANGED <<file, skip, length_remaining, data_read, output, pc>>

\* Go on with what has been read.
Goto(next, toSkip) ==
  /\ pc' = next
  /\ skip' = toSkip
  /\ buffer' = << >>
  /\ UNCHANGED <<file, position, endings, length_remaining, data_read, output>>
----------------------------------------------------------------------------
(* AppleSingleFilter()                                                     *)

MagicFound ==
  pc = "magic" /\ IsComplete /\ buffer = Magic /\ Goto("header", 0)

\* AppleSingleIncorrectMagicError and its handler: if the end has been seen the
\* stream is not read again.
IncorrectMagic ==
  /\ pc = "magic" /\ IsRead /\ buffer # Magic
  /\ data_read' = buffer
  /\ buffer' = << >>
  /\ pc' = IF IsShort THEN "data_read" ELSE "literal"
  /\ UNCHANGED <<file, position, endings, skip, length_remaining, output>>

HeaderIncomplete == pc = "header" /\ IsShort /\ Fail("EOFError")

IsKnown(version, filler) == version = 1 \/ (version = 2 /\ filler = Filler)
HeaderRead ==
  /\ pc = "header" /\ IsComplete
  /\ IsKnown(buffer[1], buffer[2])
  /\ Goto("entries", buffer[3])
HeaderUnknown ==
  /\ pc = "header" /\ IsComplete
  /\ ~ IsKnown(buffer[1], buffer[2])
  /\ Fail("FormatError")

\* _prepare_apple_single_file; the number of entries is in skip.
EntriesIncomplete == pc = "entries" /\ IsShort /\ Fail("EOFError")

EntriesOf(characters, count) ==
  [i \in 1..count |-> SubSeq(characters, EntryLength * (i - 1) + 1, EntryLength * i)]
DataForks(entries) == {i \in DOMAIN entries : entries[i][1] = DataForkId}
FirstDataFork(entries) ==
  entries[CHOOSE i \in DataForks(entries) : \A j \in DataForks(entries) : i <= j]
NoDataFork ==
  /\ pc = "entries" /\ IsComplete
  /\ DataForks(EntriesOf(buffer, skip)) = {}
  /\ Fail("FormatError")

\* Mutant: the list of entries is taken for part of the data that follows.
BeforeFork_NoEntries(entry, count) ==
  entry[2] - Len(Magic) - RestOfHeaderLength

\* How much is between the list of entries and the data fork
BeforeFork(entry, count) ==
  entry[2] - Len(Magic) - RestOfHeaderLength - count * EntryLength

DataForkFound ==
  /\ pc = "entries" /\ IsComplete
  /\ LET entries == EntriesOf(buffer, skip)
     IN /\ DataForks(entries) # {}
        /\ LET fork == FirstDataFork(entries)
           IN /\ BeforeFork(fork, skip) >= 0
              /\ skip' = BeforeFork(fork, skip)
              /\ length_remaining' = fork[3]
  /\ buffer' = << >>
  /\ pc' = "skip"
  /\ UNCHANGED <<file, position, endings, data_read, output>>
InvalidOffset ==
  /\ pc = "entries" /\ IsComplete
  /\ LET entries == EntriesOf(buffer, skip)
     IN DataForks(entries) # {} /\ BeforeFork(FirstDataFork(entries), skip) < 0
  /\ Fail("FormatError")

SkipSome ==
  /\ pc = "skip" /\ skip > 0
  /\ \E size \in 1..Left :
       /\ size <= skip
       /\ position' = position + size
       /\ skip' = skip - size
  /\ UNCHANGED <<file, endings, buffer, length_remaining, data_read, output, pc>>
OffsetPastEnd ==
  /\ pc = "skip" /\ skip > 0 /\ Left = 0
  /\ endings' = endings + 1
  /\ pc' = "EOFError"
  /\ UNCHANGED <<file, position, buffer, skip, length_remaining, data_read, output>>
Prepared == pc = "skip" /\ skip = 0 /\ Goto("ready", 0)
----------------------------------------------------------------------------
(* AppleSingleFilter.read()                                                *)

ReadAll ==
  pc = "ready" /\ length_remaining > 0 /\ Goto("fork", 0)
ForkRead ==
  /\ pc = "fork" /\ IsComplete
  /\ output' = output \o buffer
  /\ length_remaining' = 0
  /\ buffer' = << >>
  /\ pc' = "ready"
  /\ UNCHANGED <<file, position, endings, skip, data_read>>
ForkTruncated == pc = "fork" /\ IsShort /\ Fail("EOFError")

ReadSome ==
  /\ pc = "ready" /\ length_remaining > 0
  /\ \E size \in 1..MaxSize, got \in 1..MaxSize :
       /\ got <= size /\ got <= length_remaining /\ got <= Left
       /\ output' = output \o Take(got)
       /\ position' = position + got
       /\ length_remaining' = length_remaining - got
  /\ UNCHANGED <<file, endings, buffer, skip, data_read, pc>>
ReadSomeTruncated ==
  /\ pc = "ready" /\ length_remaining > 0 /\ Left = 0
  /\ endings' = endings + 1
  /\ pc' = "EOFError"
  /\ UNCHANGED <<file, position, buffer, skip, length_remaining, data_read, output>>

\* A read of either kind that gives nothing
ForkEnds ==
  /\ pc = "ready" /\ length_remaining = 0
  /\ pc' = "end"
  /\ UNCHANGED <<file, position, endings, buffer, skip, length_remaining,
                 data_read, output>>
----------------------------------------------------------------------------
(* CompoundStream.read(), of what was read for the magic number, and of    *)
(* the stream if it has not ended.                                         *)

IsCompound == pc \in {"data_read", "literal"}

ReadFirstStream ==
  /\ IsCompound
  /\ \E size \in 1..MaxSize :
       /\ size <= Len(data_read)
       /\ output' = output \o SubSeq(data_read, 1, size)
       /\ data_read' = SubSeq(data_read, size + 1, Len(data_read))
  /\ UNCHANGED <<file, position, endings, buffer, skip, length_remaining, pc>>
ReadSecondStream ==
  /\ pc = "literal" /\ data_read = << >>
  /\ \E size \in 1..MaxSize :
       /\ size <= Left
       /\ output' = output \o Take(size)
       /\ position' = position + size
  /\ UNCHANGED <<file, endings, buffer, skip, length_remaining, data_read, pc>>
StreamsEnd ==
  /\ IsCompound /\ data_read = << >>
  /\ pc = "literal" => Left = 0
  /\ endings' = IF pc = "literal" THEN endings + 1 ELSE endings
  /\ pc' = "end"
  /\ UNCHANGED <<file, position, buffer, skip, length_remaining, data_read, output>>

\* read(-1): all that is left of each
ReadStreams ==
  /\ IsCompound
  /\ output' = output \o data_read \o (IF pc = "literal" THEN Take(Left) ELSE << >>)
  /\ position' = IF pc = "literal" THEN Len(file) ELSE position
  /\ endings' = IF pc = "literal" /\ Left = 0 THEN endings + 1 ELSE endings
  /\ data_read' = << >>
  /\ pc' = "end"
  /\ UNCHANGED <<file, buffer, skip, length_remaining>>
----------------------------------------------------------------------------
Open(stream) ==
  /\ file = stream
  /\ position = 0
  /\ endings = 0
  /\ buffer = << >>
  /\ skip = 0
  /\ length_remaining = 0
  /\ data_read = << >>
  /\ output = << >>
  /\ pc = "magic"

Next ==
  \/ ReadExactly
  \/ MagicFound \/ IncorrectMagic
  \/ HeaderIncomplete \/ HeaderRead \/ HeaderUnknown
  \/ EntriesIncomplete \/ NoDataFork \/ DataForkFound \/ InvalidOffset
  \/ SkipSome \/ OffsetPastEnd \/ Prepared
  \/ ReadAll \/ ForkRead \/ ForkTruncated
  \/ ReadSome \/ ReadSomeTruncated \/ ForkEnds
  \/ ReadFirstStream \/ ReadSecondStream \/ StreamsEnd \/ ReadStreams
-----------------------------------------------------------------------------
(* What is to be read, of the whole stream at once.                        *)

HasMagic == Len(file) >= 2 /\ SubSeq(file, 1, 2) = <<5, 16>>
Count == file[5]
EntryAt(i) == SubSeq(file, 3 * i + 3, 3 * i + 5)
Forks == {i \in 1..Count : EntryAt(i)[1] = 1}
TheFork == EntryAt(CHOOSE i \in Forks : \A j \in Forks : i <= j)

\* What is wrong with the stream before its data fork, if anything
HeaderError ==
  IF Len(file) < 5 THEN "EOFError"
  ELSE IF file[3] \notin 1..2 \/ (file[3] = 2 /\ file[4] # 0) THEN "FormatError"
  ELSE IF Len(file) < 5 + 3 * Count THEN "EOFError"
  ELSE IF Forks = {} \/ TheFork[2] < 5 + 3 * Count THEN "FormatError"
  ELSE IF TheFork[2] > Len(file) THEN "EOFError"
  ELSE "none"

Content ==
  IF ~ HasMagic THEN file
  ELSE IF HeaderError # "none" THEN << >>
  ELSE SubSeq(file, TheFork[2] + 1, Min({TheFork[2] + TheFork[3], Len(file)}))

Error ==
  IF ~ HasMagic THEN "none"
  ELSE IF HeaderError # "none" THEN HeaderError
  ELSE IF Len(file) < TheFork[2] + TheFork[3] THEN "EOFError"
  ELSE "none"

\* Whatever sizes the caller asks for and the stream gives, the caller is given
\* the data fork or else the whole stream; it is told the end only where that
\* is, and told an error just if there is one; and the stream is not read again
\* once it has ended, of which the docstring of get_maybe_apple_single_stream
\* says to be careful.
AppleExact ==
  /\ endings <= 1
  /\ IsPrefix(output, Content)
  /\ pc = "end" => Error = "none" /\ output = Content
  /\ pc \in Errors => pc = Error
=============================================================================

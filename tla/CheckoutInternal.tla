-------------------------- MODULE CheckoutInternal --------------------------
(***************************************************************************)
(* The internal store of file contents (checkout_internal.py).  While      *)
(* FilterSymbolsPass parses the RCS files, InternalRevisionCollector turns *)
(* the deltas of the trunk round, so that every text is a delta to the     *)
(* revision before it, and counts how often each text will be read.        *)
(* During OutputPass, InternalRevisionReader rebuilds the texts that are   *)
(* asked for, in any order, and drops each one after its last reading.     *)
(*                                                                         *)
(* A text is a sequence of lines, of which only the last may be            *)
(* unterminated.  A delta is itself a text, of command lines and of the    *)
(* lines they add; rcs_stream.py applies one to a text and finds the one   *)
(* that leads back.                                                        *)
(***************************************************************************)
EXTENDS Integers, SequencesExt, Functions, FiniteSets

CONSTANTS
  Line,  \* the lines that end with a newline
  Bare   \* the lines that do not: the end of a file without a last newline

\* What stands in a text after an unterminated line becomes part of it, and
\* is neither a command nor a line of any revision.
Mangled == [cmd |-> "mangled", start |-> 0, count |-> 0]
Command(cmd, start, count) == [cmd |-> cmd, start |-> start, count |-> count]

MSplit(text) ==
  LET Join(read, line) ==
        IF read # <<>> /\ Last(read) \in Bare
        THEN Append(Front(read), Mangled) ELSE Append(read, line)
  IN  FoldLeft(Join, <<>>, text)

IsText(text) ==
  /\ \A i \in DOMAIN text : text[i] \in Line \cup Bare
  /\ \A i \in DOMAIN text : text[i] \in Bare => i = Len(text)

-----------------------------------------------------------------------------
\* generate_edits(): the commands of a delta, from its i-th line on.  An edit
\* "malformed" stands for MalformedDeltaException.
Edit(cmd, start, count, lines) ==
  [cmd |-> cmd, start |-> start, count |-> count, lines |-> lines]
Malformed == Edit("malformed", 0, 0, <<>>)

EditsFrom(diff) ==
  LET edits[i \in 1 .. Len(diff) + 1] ==
        IF i > Len(diff) THEN <<>>
        ELSE IF diff[i] \in Line \cup Bare \cup {Mangled} THEN <<Malformed>>
        ELSE IF diff[i].cmd = "d"
        THEN <<Edit("d", diff[i].start - 1, diff[i].count, <<>>)>> \o edits[i + 1]
        ELSE IF i + diff[i].count > Len(diff) THEN <<Malformed>>
        ELSE <<Edit("a", diff[i].start, diff[i].count,
                    SubSeq(diff, i + 1, i + diff[i].count))>>
               \o edits[i + diff[i].count + 1]
  IN  edits

GenerateEdits(diff) == EditsFrom(MSplit(diff))[1]

\* Mutant: positions are written as they are kept, from zero.
WriteEdits_FromZero(edits) ==
  LET Write(text, e) ==
        IF e.cmd = "d" THEN Append(text, Command("d", e.start, e.count))
        ELSE Append(text, Command("a", e.start, Len(e.lines))) \o e.lines
  IN  FoldLeft(Write, <<>>, edits)

\* write_edits(): the delta as the text it is stored as.
WriteEdits(edits) ==
  LET Write(text, e) ==
        IF e.cmd = "d" THEN Append(text, Command("d", e.start + 1, e.count))
        ELSE Append(text, Command("a", e.start, Len(e.lines))) \o e.lines
  IN  FoldLeft(Write, <<>>, edits)

-----------------------------------------------------------------------------
\* Blocks: "c"opy the old lines, or "r"eplace them by the new ones.
Block(command, old_lines, new_lines) ==
  [command |-> command, old_lines |-> old_lines, new_lines |-> new_lines]

\* merge_blocks(), invert_blocks()
MergeBlocks(blocks) ==
  LET Merge(merged, b) ==
        IF merged # <<>> /\ Last(merged).command = b.command
        THEN Append(Front(merged), Block(b.command, Last(merged).old_lines \o b.old_lines,
                                         Last(merged).new_lines \o b.new_lines))
        ELSE Append(merged, b)
  IN  FoldLeft(Merge, <<>>, blocks)

InvertBlocks(blocks) ==
  [i \in DOMAIN blocks |-> Block(blocks[i].command, blocks[i].new_lines, blocks[i].old_lines)]

\* generate_edits_from_blocks(): in every replaced block, the deletion first.
GenerateEditsFromBlocks(blocks) ==
  LET Emit(s, b) ==
        IF b.command = "c" THEN [s EXCEPT !.pos = @ + Len(b.old_lines)]
        ELSE [pos |-> s.pos + Len(b.old_lines),
              edits |->
                s.edits
                \o (IF b.old_lines = <<>> THEN <<>>
                    ELSE <<Edit("d", s.pos, Len(b.old_lines), <<>>)>>)
                \o (IF b.new_lines = <<>> THEN <<>>
                    ELSE <<Edit("a", s.pos + Len(b.old_lines), Len(b.new_lines),
                                b.new_lines)>>)]
  IN  FoldLeft(Emit, [pos |-> 0, edits |-> <<>>], MergeBlocks(blocks)).edits

\* RCSStream.generate_blocks(): .malformed after an edit out of range or order.
GenerateBlocks(lines, edits) ==
  LET Step(s, e) ==
        LET copied == IF s.pos < e.start
                      THEN LET c == SubSeq(lines, s.pos + 1, e.start)
                           IN  <<Block("c", c, c)>>
                      ELSE <<>>
        IN  IF \/ s.malformed \/ e.cmd = "malformed" \/ e.start < s.pos
               \/ e.start + (IF e.cmd = "d" THEN e.count ELSE 0) > Len(lines)
            THEN [s EXCEPT !.malformed = TRUE]
            ELSE IF e.cmd = "d"
            THEN [pos |-> e.start + e.count, malformed |-> FALSE,
                  blocks |-> s.blocks \o copied
                    \o <<Block("r", SubSeq(lines, e.start + 1, e.start + e.count), <<>>)>>]
            ELSE [pos |-> e.start, malformed |-> FALSE,
                  blocks |-> s.blocks \o copied \o <<Block("r", <<>>, e.lines)>>]
      Rest(s) == LET c == SubSeq(lines, s.pos + 1, Len(lines))
                 IN  IF c = <<>> THEN s
                     ELSE [s EXCEPT !.blocks = Append(@, Block("c", c, c))]
  IN  Rest(FoldLeft(Step, [pos |-> 0, blocks |-> <<>>, malformed |-> FALSE], edits))

NewLines(blocks) == FoldLeft(LAMBDA lines, b : lines \o b.new_lines, <<>>, blocks)

-----------------------------------------------------------------------------
\* RCSStream.apply_diff(): the text it leaves; a malformed delta changes nothing.
ApplyBlocks(lines, generated) ==
  [lines |-> IF generated.malformed THEN lines ELSE NewLines(generated.blocks),
   malformed |-> generated.malformed]
ApplyDiff(lines, diff) == ApplyBlocks(lines, GenerateBlocks(lines, GenerateEdits(diff)))

\* RCSStream.invert_diff() with apply_and_invert_edits(): the text it leaves,
\* and the delta that leads back from there.
InvertMerged(lines, generated, blocks) ==
  [lines |-> IF generated.malformed THEN lines ELSE NewLines(blocks),
   malformed |-> generated.malformed,
   inverse |-> WriteEdits(GenerateEditsFromBlocks(InvertBlocks(blocks)))]
InvertGenerated(lines, generated) ==
  InvertMerged(lines, generated, MergeBlocks(generated.blocks))
InvertDiff(lines, diff) ==
  InvertGenerated(lines, GenerateBlocks(lines, GenerateEdits(diff)))
-----------------------------------------------------------------------------
(***************************************************************************)
(* The internal store of file contents.                                    *)
(***************************************************************************)

CONSTANTS
  None,            \* Python's None
  Rev,             \* the CVS revisions, by id
  TrunkRevs,       \* those on trunk
  base_revision,   \* for each revision, the one it was made from; None for 1.1
  CVSFiles,        \* the files: a sequence of the deltatexts of each, the
                   \* revisions as the RCS file has them, some repeated
  Texts,           \* the possible texts
  RCSDelta(_, _)   \* the delta RCS stores between two texts

FileOf(r) == CHOOSE f \in DOMAIN CVSFiles : r \in Range(CVSFiles[f])
IsHead(r) == r \in TrunkRevs /\ \A s \in TrunkRevs : base_revision[s] # r
RevsOf(f) == Range(CVSFiles[f])

VARIABLES
  text,        \* the text of each revision, as CVS would check it out
  needed,      \* the CVSRevisionModifications that the conversion keeps
  file,        \* the CVSFile that process_file() is about
  deltatexts,  \* its deltatexts that the parser has not delivered yet
  revisions_seen,  \* _Sink.revisions_seen
  stream,      \* _Sink._rcs_stream and its revision
  db,          \* the TextRecordDatabase and the databases that it uses
  rcs_trees,   \* RCS_TREES: the text records of every file
  loaded_files,\* InternalRevisionReader._loaded_files
  content      \* the texts that get_content() returned

input_vars == <<text, needed>>
sink_vars == <<file, deltatexts, revisions_seen, stream>>
vars == <<input_vars, sink_vars, db, rcs_trees, loaded_files, content>>

-----------------------------------------------------------------------------
(* TextRecordDatabase.  Its state is a record of the text_records, the     *)
(* delta_db, the checkout_db and the exception that was raised, if any.    *)

TextRecord(class, pred_id) == [class |-> class, refcount |-> 0, pred_id |-> pred_id]
Without(f, id) == Restrict(f, DOMAIN f \ {id})
With(f, id, value) == [x \in DOMAIN f \cup {id} |-> IF x = id THEN value ELSE f[x]]
Raise(d, exception) == [d EXCEPT !.error = exception]

\* delta_db.__delitem__, which does nothing during OutputPass.
DeleteDelta(d, id) ==
  IF d.read_only THEN d ELSE [d EXCEPT !.delta_db = Without(@, id)]

\* TextRecord.decrement_refcount() while deletes are deferred: a record whose
\* count falls to zero is added to the list.
Decrement(s, id) ==
  IF id \notin DOMAIN s.d.text_records THEN [s EXCEPT !.d = Raise(@, "KeyError")]
  ELSE [d |-> [s.d EXCEPT !.text_records[id].refcount = @ - 1],
        deferred |-> IF s.d.text_records[id].refcount = 1
                     THEN Append(s.deferred, id) ELSE s.deferred]

\* The free() methods of the classes of records.
Free(s, id) ==
  CASE s.d.text_records[id].class = "full" -> [s EXCEPT !.d = DeleteDelta(@, id)]
    [] s.d.text_records[id].class = "delta" ->
         Decrement([s EXCEPT !.d = DeleteDelta(@, id)], s.d.text_records[id].pred_id)
    [] s.d.text_records[id].class = "checked out" ->
         [s EXCEPT !.d.checkout_db = Without(@, id)]

\* discard(): free the last of the list, until it is empty.
DiscardLast(s) ==
  LET id == Last(s.deferred)
      popped == [s EXCEPT !.deferred = Front(@)]
  IN  IF id \notin DOMAIN s.d.text_records THEN [popped EXCEPT !.d = Raise(@, "KeyError")]
      ELSE IF s.d.text_records[id].refcount # 0
      THEN [popped EXCEPT !.d = Raise(@, "InternalError")]
      ELSE LET freed == Free(popped, id)
           IN  [freed EXCEPT !.d.text_records = Without(@, id)]

\* Mutant: the records a freed delta was made from are not discarded.
Discard_Shallow(d, ids) ==
  LET Step(s, id) == IF s.d.error # None THEN s
                     ELSE DiscardLast([s EXCEPT !.deferred = <<id>>])
  IN  FoldLeft(Step, [d |-> d, deferred |-> <<>>], ids).d

Discard(d, ids) ==
  LET Step(s, i) ==
        IF s.deferred = <<>> \/ s.d.error # None THEN s ELSE DiscardLast(s)
  IN  FoldLeft(Step, [d |-> d, deferred |-> ids], [i \in 1 .. Cardinality(Rev) |-> i]).d

\* Mutant: a text that another one is made from is not counted.
RecomputeRefcounts_Requested(d) ==
  [d EXCEPT !.text_records =
     [id \in DOMAIN @ |-> [@[id] EXCEPT !.refcount = IF id \in needed THEN 1 ELSE 0]]]

\* recompute_refcounts() and free_unused()
RecomputeRefcounts(d) ==
  LET Count(id) ==
        Cardinality({r \in DOMAIN d.text_records : d.text_records[r].pred_id = id})
        + (IF id \in needed THEN 1 ELSE 0)
  IN  IF \E r \in needed \cap RevsOf(file) : r \notin DOMAIN d.text_records
      THEN Raise(d, "KeyError")
      ELSE [d EXCEPT !.text_records =
              [id \in DOMAIN @ |-> [@[id] EXCEPT !.refcount = Count(id)]]]

FreeUnused(d) ==
  Discard(d, SetToSeq({id \in DOMAIN d.text_records : d.text_records[id].refcount = 0}))

-----------------------------------------------------------------------------
(* InternalRevisionCollector and its _Sink.                                *)

Child(r) == CHOOSE s \in TrunkRevs : base_revision[s] = r
RCSText(r) ==
  IF IsHead(r) THEN text[r]
  ELSE RCSDelta(text[IF r \in TrunkRevs THEN Child(r) ELSE base_revision[r]], text[r])

\* _writeout()
Writeout(d, id, record, stored) ==
  IF id \in DOMAIN d.text_records THEN Raise(d, "AssertionError")
  ELSE [d EXCEPT !.text_records = With(@, id, record), !.delta_db = With(@, id, stored)]

\* Revision 1.1 is written with its full text, and the stream is dropped.
WriteoutFirst(d, r, lines) ==
  IF base_revision[r] = None THEN Writeout(d, r, TextRecord("full", None), lines) ELSE d
StreamAt(r, lines) ==
  IF base_revision[r] = None THEN None ELSE [revision |-> r, lines |-> lines]

WriteoutInverse(r, inverted) ==
  IF inverted.malformed THEN Raise(db, "RuntimeError")
  ELSE WriteoutFirst(Writeout(db, stream.revision, TextRecord("delta", r), inverted.inverse),
                     r, inverted.lines)

Parsing == file <= Len(CVSFiles) /\ deltatexts # <<>> /\ db.error = None
Deliver ==
  /\ deltatexts' = Tail(deltatexts)
  /\ revisions_seen' = revisions_seen \cup {Head(deltatexts)}
  /\ UNCHANGED <<input_vars, file, rcs_trees, loaded_files, content>>

\* set_revision_info(): of a text that came before; of the head; of another
\* revision on trunk; of one on a branch.
RepeatedText ==
  /\ Parsing /\ Head(deltatexts) \in revisions_seen
  /\ UNCHANGED <<stream, db>>
  /\ Deliver

HeadText ==
  /\ Parsing /\ Head(deltatexts) \notin revisions_seen /\ IsHead(Head(deltatexts))
  /\ LET r == Head(deltatexts)
     IN  /\ stream' = StreamAt(r, MSplit(RCSText(r)))
         /\ db' = WriteoutFirst(db, r, MSplit(RCSText(r)))
  /\ Deliver

TrunkText ==
  /\ Parsing /\ Head(deltatexts) \notin revisions_seen
  /\ Head(deltatexts) \in TrunkRevs /\ ~IsHead(Head(deltatexts))
  /\ LET r == Head(deltatexts)
         inverted == InvertDiff(stream.lines, RCSText(r))
     IN  /\ stream' = StreamAt(r, inverted.lines)
         /\ db' = WriteoutInverse(r, inverted)
  /\ Deliver

BranchText ==
  /\ Parsing /\ Head(deltatexts) \notin revisions_seen
  /\ Head(deltatexts) \notin TrunkRevs
  /\ LET r == Head(deltatexts)
     IN  db' = Writeout(db, r, TextRecord("delta", base_revision[r]), RCSText(r))
  /\ UNCHANGED stream
  /\ Deliver

\* The end of process_file(), and the start of the next one.
FinishFile ==
  /\ file <= Len(CVSFiles) /\ deltatexts = <<>> /\ db.error = None
  /\ LET kept == FreeUnused(RecomputeRefcounts(db))
     IN  /\ rcs_trees' = Append(rcs_trees, kept.text_records)
         /\ db' = [kept EXCEPT !.text_records = <<>>]
  /\ file' = file + 1
  /\ deltatexts' = IF file = Len(CVSFiles) THEN <<>> ELSE CVSFiles[file + 1]
  /\ revisions_seen' = {} /\ stream' = None
  /\ UNCHANGED <<input_vars, loaded_files, content>>

-----------------------------------------------------------------------------
(* InternalRevisionReader.                                                 *)

\* The records that a checkout of id goes through, the first one with a full
\* text first.
Chain(records, id) ==
  LET chain[r \in Rev] ==
        IF r \notin DOMAIN records \/ records[r].class # "delta" THEN <<r>>
        ELSE Append(chain[records[r].pred_id], r)
  IN  chain[id]

\* The checkout() methods of the classes of records: the text, and the
\* databases that are left.
CheckoutFull(d, id) ==
  IF id \notin DOMAIN d.text_records THEN [d |-> Raise(d, "KeyError"), text |-> <<>>]
  ELSE LET stored == IF d.text_records[id].class = "full" THEN d.delta_db ELSE d.checkout_db
           s == Decrement([d |-> d, deferred |-> <<>>], id)
       IN  IF id \notin DOMAIN stored THEN [d |-> Raise(d, "KeyError"), text |-> <<>>]
           ELSE [d |-> Discard(s.d, s.deferred), text |-> stored[id]]

KeepText(d, id, count, applied) ==
  IF count = 0 THEN [d EXCEPT !.text_records = Without(@, id)]
  ELSE [d EXCEPT !.text_records[id] =
                   [TextRecord("checked out", None) EXCEPT !.refcount = count],
                 !.checkout_db = With(@, id, applied)]

CheckoutDelta(s, id) ==
  IF s.d.error # None THEN s
  ELSE IF id \notin DOMAIN s.d.delta_db THEN [s EXCEPT !.d = Raise(@, "KeyError")]
  ELSE LET applied == ApplyDiff(s.text, s.d.delta_db[id])
       IN  IF applied.malformed THEN [s EXCEPT !.d = Raise(@, "FatalError")]
           ELSE [d |-> KeepText(s.d, id, s.d.text_records[id].refcount - 1, applied.lines),
                 text |-> applied.lines]

CheckoutChain(d, chain) == FoldLeft(CheckoutDelta, CheckoutFull(d, Head(chain)), Tail(chain))
Checkout(d, id) == CheckoutChain(d, Chain(d.text_records, id))

\* start()
StartReader ==
  /\ file = Len(CVSFiles) + 1 /\ db.error = None
  /\ file' = file + 1
  /\ db' = [db EXCEPT !.read_only = TRUE, !.checkout_db = <<>>]
  /\ UNCHANGED <<input_vars, deltatexts, revisions_seen, stream, rcs_trees, loaded_files,
                 content>>

\* _get_text_record(): the records of a file are loaded when the first of its
\* revisions is asked for.
Loaded(r) ==
  IF FileOf(r) \in loaded_files THEN db
  ELSE [db EXCEPT !.text_records = @ @@ rcs_trees[FileOf(r)]]

\* get_content(), up to the handling of keywords and line ends.  Revisions
\* are asked for once each, in any order.
GetContent(r) ==
  /\ file = Len(CVSFiles) + 2 /\ db.error = None
  /\ r \in needed \ DOMAIN content
  /\ LET out == Checkout(Loaded(r), r)
     IN  /\ db' = out.d
         /\ content' = With(content, r, out.text)
  /\ loaded_files' = loaded_files \cup {FileOf(r)}
  /\ UNCHANGED <<input_vars, sink_vars, rcs_trees>>

-----------------------------------------------------------------------------
Init ==
  /\ text \in [Rev -> Texts]
  /\ needed \in SUBSET Rev
  /\ file = 1 /\ deltatexts = CVSFiles[1]
  /\ revisions_seen = {} /\ stream = None
  /\ db = [text_records |-> <<>>, delta_db |-> <<>>, checkout_db |-> <<>>,
           read_only |-> FALSE, error |-> None]
  /\ rcs_trees = <<>> /\ loaded_files = {} /\ content = <<>>

Collect == RepeatedText \/ HeadText \/ TrunkText \/ BranchText \/ FinishFile
Next == Collect \/ StartReader \/ \E r \in Rev : GetContent(r)
Spec == Init /\ [][Next]_vars

-----------------------------------------------------------------------------
\* When every needed revision has been read, there is nothing that
\* log_leftovers() would report, and the checkout database is empty.
NothingLeft ==
  DOMAIN content = needed /\ loaded_files # {} =>
    db.text_records = <<>> /\ db.checkout_db = <<>>

\* Whatever revisions are needed and in whatever order they are asked for,
\* the text that comes out is the one that was checked in, and no text that
\* another one is made from has been dropped before; in the end none is left.
ChecksOutText ==
  /\ db.error = None
  /\ \A r \in DOMAIN content : content[r] = text[r]
  /\ NothingLeft
=============================================================================

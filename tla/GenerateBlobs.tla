--------------------------- MODULE GenerateBlobs ---------------------------
(***************************************************************************)
(* Writing the blobs of a git conversion.  During FilterSymbolsPass either *)
(* GitRevisionCollector writes the text of each revision itself, or        *)
(* ExternalBlobGenerator only gives out the marks and sends them, file by  *)
(* file, to a second process, generate_blobs.py, which parses the RCS      *)
(* files at its own pace.  That process has one text in memory and must    *)
(* know, whenever it moves on, whether some other revision is still to be  *)
(* made from it.                                                           *)
(*                                                                         *)
(* The text of a revision is represented by the revision; a delta that is  *)
(* applied to another text than it was made from gives Garbled.            *)
(***************************************************************************)
EXTENDS Integers, FiniteSets, SequencesExt

CONSTANTS
  None,      \* Python's None
  Garbled,   \* a text that is no revision's
  CVSFiles,  \* the files: a sequence of the sets of their revisions, which are
             \* numbers in the order of their deltatexts
  Bases      \* the possible values of base_revision

Rev == UNION {CVSFiles[f] : f \in DOMAIN CVSFiles}

VARIABLES
  external,      \* whether ExternalBlobGenerator is used
  base_revision, \* the revision that each delta applies to; of each file's
                 \* first one, which is stored as it is, None
  kept,          \* the revisions that are converted and are no deletions
  file,          \* the next file for process_file()
  token,         \* revision_reader_token of the revisions
  main,          \* the converting process: "running", "waiting" for the other
                 \* one, "finished" or "failed"
  pipe,          \* the files and marks that are sent and not read; EOF last
  generator,     \* generate_blobs.py: "reading" the pipe, "parsing" a file,
                 \* "exited" or "died"
  deltatexts,    \* the revisions whose deltatexts are yet to come, in order
  revrecs,       \* WriteBlobSink.revrecs
  last,          \* last_revrec and last_rcsstream: <<revision, text>> or None
  assertion,     \* whether an assertion of the sink failed
  blobfile       \* the blobs: mark -> text

input_vars == <<external, base_revision, kept>>
main_vars == <<file, token, main>>
sink_vars == <<deltatexts, revrecs, last, assertion>>
vars == <<input_vars, main_vars, pipe, generator, sink_vars, blobfile>>

\* What is read from a pipe that was closed.
EOF == [file |-> 0, marks |-> <<>>]

-----------------------------------------------------------------------------
(* The collectors.                                                         *)

\* Marks for the kept revisions of a file, on from the last one given out.
MarksFor(f) ==
  LET revs == SetToSortSeq(CVSFiles[f] \cap kept, <)
  IN  [r \in ToSet(revs) |->
         Cardinality(DOMAIN token) + CHOOSE k \in DOMAIN revs : revs[k] = r]

\* GitRevisionCollector.process_file(): the blobs are written at once.
ProcessFile ==
  /\ ~external /\ main = "running" /\ file <= Len(CVSFiles)
  /\ token' = MarksFor(file) @@ token
  /\ blobfile' = [mark \in Range(MarksFor(file)) |->
                    CHOOSE r \in DOMAIN MarksFor(file) : MarksFor(file)[r] = mark] @@ blobfile
  /\ file' = file + 1
  /\ UNCHANGED <<input_vars, main, pipe, generator, sink_vars>>

\* ExternalBlobGenerator.process_file(): a file without marks is not sent.
\* Writing to a process that is gone raises IOError.
SendMarks ==
  /\ external /\ main = "running" /\ file <= Len(CVSFiles)
  /\ token' = MarksFor(file) @@ token
  /\ LET sent == DOMAIN MarksFor(file) # {}
     IN  /\ main' = IF sent /\ generator = "died" THEN "failed" ELSE main
         /\ pipe' = IF sent /\ generator # "died"
                    THEN Append(pipe, [file |-> file, marks |-> MarksFor(file)]) ELSE pipe
  /\ file' = file + 1
  /\ UNCHANGED <<input_vars, generator, sink_vars, blobfile>>

\* Mutant: the pipe is not closed.
Finish_PipeOpen ==
  /\ main = "running" /\ file > Len(CVSFiles)
  /\ main' = IF external THEN "waiting" ELSE "finished"
  /\ UNCHANGED <<input_vars, file, token, pipe, generator, sink_vars, blobfile>>

\* finish(): the pipe is closed.
Finish ==
  /\ main = "running" /\ file > Len(CVSFiles)
  /\ main' = IF external THEN "waiting" ELSE "finished"
  /\ pipe' = IF external THEN Append(pipe, EOF) ELSE pipe
  /\ UNCHANGED <<input_vars, file, token, generator, sink_vars, blobfile>>

\* The return code of generate_blobs.py tells whether it was successful.
WaitForGenerator ==
  /\ main = "waiting" /\ generator \in {"exited", "died"}
  /\ main' = IF generator = "exited" THEN "finished" ELSE "failed"
  /\ UNCHANGED <<input_vars, file, token, pipe, generator, sink_vars, blobfile>>

-----------------------------------------------------------------------------
(* generate_blobs.py.                                                      *)

\* A RevRecord once the tree is known: the mark, if it is still to be written,
\* the revisions that are still to be made from the text, and the text, if
\* it can be read from a file.
RevRecord(mark, refs) == [mark |-> mark, refs |-> refs, fulltext |-> None]
IsNeeded(revrec) == revrec.mark # None \/ revrec.refs # {}
IsWritten(revrec) == revrec.fulltext # None

\* define_revision() of all revisions, and tree_completed(): the records of
\* the revisions that are needed, directly or for others.
RevRecords(f, marks) ==
  LET Derived(r) == {s \in CVSFiles[f] : base_revision[s] = r}
      needed[r \in CVSFiles[f]] == r \in DOMAIN marks \/ \E s \in Derived(r) : needed[s]
  IN  [r \in {r \in CVSFiles[f] : needed[r]} |->
         RevRecord(IF r \in DOMAIN marks THEN marks[r] ELSE None,
                   {s \in Derived(r) : needed[s]})]

\* A file is read from the pipe and its tree is parsed.
StartFile ==
  /\ generator = "reading" /\ pipe # <<>> /\ Head(pipe) # EOF
  /\ pipe' = Tail(pipe)
  /\ generator' = "parsing"
  /\ deltatexts' = SetToSortSeq(CVSFiles[Head(pipe).file], <)
  /\ revrecs' = RevRecords(Head(pipe).file, Head(pipe).marks)
  /\ last' = None
  /\ UNCHANGED <<input_vars, main_vars, assertion, blobfile>>

Exit ==
  /\ generator = "reading" /\ pipe # <<>> /\ Head(pipe) = EOF
  /\ generator' = "exited" /\ pipe' = Tail(pipe)
  /\ UNCHANGED <<input_vars, main_vars, sink_vars, blobfile>>

\* parse_completed()
FinishFile ==
  /\ generator = "parsing" /\ deltatexts = <<>>
  /\ generator' = "reading"
  /\ UNCHANGED <<input_vars, main_vars, pipe, sink_vars, blobfile>>

\* RCSStream.apply_diff() of the deltatext of r.
ApplyDiff(text, r) == IF text = base_revision[r] THEN r ELSE Garbled

\* write_blob() of r, if it has a mark, in the records recs.
WriteBlob(recs, r, text) ==
  /\ revrecs' = IF recs[r].mark = None THEN recs
                ELSE [recs EXCEPT ![r] = [@ EXCEPT !.fulltext = text, !.mark = None]]
  /\ blobfile' = IF recs[r].mark = None THEN blobfile
                 ELSE [m \in {recs[r].mark} |-> text] @@ blobfile

\* The text stays in memory if it is still needed once its blob is written.
KeepLast(recs, r, text) == last' = IF recs[r].refs # {} THEN <<r, text>> ELSE None

Deltatext ==
  /\ generator = "parsing" /\ deltatexts # <<>> /\ ~assertion
  /\ deltatexts' = Tail(deltatexts)
  /\ UNCHANGED <<input_vars, main_vars, pipe>>
Unasserted == UNCHANGED <<generator, assertion>>
AssertionFails ==
  /\ assertion' = TRUE /\ generator' = "died"
  /\ UNCHANGED <<revrecs, last, blobfile>>

\* set_revision_info(): of a revision that is not needed; of one whose text
\* is in the file; of one whose base is in memory; of one whose base is not.
UnneededText ==
  /\ Deltatext /\ Head(deltatexts) \notin DOMAIN revrecs
  /\ Unasserted /\ UNCHANGED <<revrecs, last, blobfile>>

FullText ==
  LET r == Head(deltatexts)
  IN  /\ Deltatext /\ r \in DOMAIN revrecs /\ base_revision[r] = None
      /\ IF last # None THEN AssertionFails
         ELSE WriteBlob(revrecs, r, r) /\ KeepLast(revrecs, r, r) /\ Unasserted

TextFromLast ==
  LET r == Head(deltatexts)
      removed == [revrecs EXCEPT ![last[1]].refs = @ \ {r}]
      stored == IF IsNeeded(removed[last[1]]) /\ ~IsWritten(removed[last[1]])
                THEN [removed EXCEPT ![last[1]].fulltext = last[2]] ELSE removed
      text == ApplyDiff(last[2], r)
  IN  /\ Deltatext /\ r \in DOMAIN revrecs /\ base_revision[r] # None
      /\ last # None /\ last[1] = base_revision[r]
      /\ WriteBlob(stored, r, text) /\ KeepLast(stored, r, text) /\ Unasserted

\* Mutant: the text in memory is forgotten.
StoreLast_Forget(recs) == recs
StoreLast(recs) ==
  IF last # None /\ ~IsWritten(recs[last[1]])
  THEN [recs EXCEPT ![last[1]].fulltext = last[2]] ELSE recs

TextFromFile ==
  LET r == Head(deltatexts)
      base == base_revision[r]
      stored == StoreLast(revrecs)
      text == ApplyDiff(stored[base].fulltext, r)
      removed == [stored EXCEPT ![base].refs = @ \ {r}]
  IN  /\ Deltatext /\ r \in DOMAIN revrecs /\ base # None
      /\ ~(last # None /\ last[1] = base)
      /\ IF ~IsWritten(stored[base]) THEN AssertionFails
         ELSE WriteBlob(removed, r, text) /\ KeepLast(removed, r, text) /\ Unasserted

\* The process is killed or meets an RCS file that it cannot parse.
Die ==
  /\ external /\ generator \in {"reading", "parsing"}
  /\ generator' = "died"
  /\ UNCHANGED <<input_vars, main_vars, pipe, sink_vars, blobfile>>

-----------------------------------------------------------------------------
Init ==
  /\ external \in BOOLEAN
  /\ base_revision \in Bases
  /\ kept \in SUBSET Rev
  /\ file = 1 /\ token = <<>> /\ main = "running"
  /\ pipe = <<>> /\ generator = "reading"
  /\ deltatexts = <<>> /\ revrecs = <<>> /\ last = None /\ assertion = FALSE
  /\ blobfile = <<>>

Collect == ProcessFile \/ SendMarks \/ Finish \/ WaitForGenerator
Generate ==
  \/ StartFile \/ FinishFile \/ Exit
  \/ UnneededText \/ FullText \/ TextFromLast \/ TextFromFile
Next == Collect \/ Generate \/ Die

\* Both processes run on; nothing makes the second one die.
Spec == Init /\ [][Next]_vars /\ WF_vars(Collect) /\ WF_vars(Generate)

-----------------------------------------------------------------------------
(***************************************************************************)
(* Every blob that is written has the text of the revision with its mark,  *)
(* however the revisions depend on each other and whichever are wanted; no *)
(* text is gone when it is needed; and a conversion that does not fail has *)
(* a blob for every mark that it will use, though another process wrote    *)
(* them and may have died at any moment.                                   *)
(***************************************************************************)
BlobsExact ==
  /\ ~assertion
  /\ \A r \in DOMAIN token : token[r] \in DOMAIN blobfile => blobfile[token[r]] = r
  /\ main = "finished" => kept = DOMAIN token /\ DOMAIN blobfile = Range(token)

\* The conversion gets past the pass, or fails: neither process waits for
\* the other for ever.
CollectionEnds == <>(main \in {"finished", "failed"})
=============================================================================

------------------------------ MODULE SortFile ------------------------------
(***************************************************************************)
(* The external sort of sort.py and the line files it is used on: one line *)
(* per item with a key in front, cut into sorted chunks, which are merged  *)
(* in generations of at most max_merge files until one merge writes the    *)
(* output.  Equal keys keep the order of the input.                        *)
(*                                                                         *)
(* A file is the sequence of its lines, a line its key and its encoded     *)
(* text; only the encoding of cvs_item_database.py looks into a text.      *)
(***************************************************************************)
EXTENDS Integers, Sequences, SequencesExt

CONSTANTS
  Inputs,           \* the lists of items to be sorted, with their key and text
  BufferSizes,      \* values of buffer_size, which are positive
  MaxMerges         \* values of max_merge, which are at least 2

VARIABLES
  items,            \* the items that were stored
  bufferSize,       \* buffer_size
  maxMerge,         \* max_merge
  input,            \* the lines of the input that are still to be read
  pc,               \* where sort_file is
  files,            \* the temporary files on disk: name -> lines
  created,          \* how many temporary files tempfiles has made
  names,            \* filenames of merge_files: the files to be merged
  todo,             \* filenames of _merge_file_generation
  made,             \* the outputs of the current generation
  heap,             \* values of merge: a line, its key and its file's index
  rest,             \* what the iterator of each merged file has left
  merged,           \* the lines that merge has yielded
  output            \* the lines of the output file

vars == <<items, bufferSize, maxMerge, input, pc, files, created, names, todo,
          made, heap, rest, merged, output>>
----------------------------------------------------------------------------
(* The text of a line. *)

Replaced(text, char, by) ==
  FlattenSeq([k \in 1..Len(text) |-> IF text[k] = char THEN by ELSE <<text[k]>>])

\* Mutant: the backslashes are escaped last.
Encoded_BackslashLast(text) ==
  Replaced(Replaced(Replaced(Replaced(
    text, "LF", <<"\\", "n">>), "CR", <<"\\", "r">>), "SUB", <<"\\", "z">>),
    "\\", <<"\\", "\\">>)

\* _encode_newlines
Encoded(text) ==
  Replaced(Replaced(Replaced(Replaced(
    text, "\\", <<"\\", "\\">>), "LF", <<"\\", "n">>), "CR", <<"\\", "r">>),
    "SUB", <<"\\", "z">>)

\* What the escapes stand for.
Unescaped == [c \in {"n", "r", "z", "\\"} |->
  CASE c = "n" -> "LF" [] c = "r" -> "CR" [] c = "z" -> "SUB" [] OTHER -> c]

DecodeChar(state, c) ==
  IF ~ state.escaped
  THEN IF c = "\\" THEN [state EXCEPT !.escaped = TRUE]
       ELSE [state EXCEPT !.text = Append(@, c)]
  ELSE [text |-> IF c \in DOMAIN Unescaped THEN Append(state.text, Unescaped[c])
                 ELSE state.text \o <<"\\", c>>,
        escaped |-> FALSE]

\* _decode_newlines, which takes the escapes from the left to the right
Decoded(text) ==
  FoldLeft(DecodeChar, [text |-> << >>, escaped |-> FALSE], text).text

\* add of the sortable databases, and the iteration over them, which reads up
\* to a line feed.
Line(item) == [key |-> item.key, text |-> Encoded(item.text)]
ItemOf(line) ==
  [key |-> line.key,
   text |-> IF "LF" \in {line.text[k] : k \in DOMAIN line.text} THEN <<"cut">>
            ELSE Decoded(line.text)]
----------------------------------------------------------------------------
(* The merge. *)

\* Indexes 1..n of lines, in the order of a stable sort by the keys.
StableOrder(lines) ==
  SetToSortSeq(DOMAIN lines,
    LAMBDA i, j : \/ lines[i].key < lines[j].key
                  \/ lines[i].key = lines[j].key /\ i < j)

Sorted(lines) ==
  LET order == StableOrder(lines)
  IN [k \in DOMAIN order |-> lines[order[k]]]

\* The heap's order: by key, then by the index of the file.
Precedes(a, b) == a.key < b.key \/ (a.key = b.key /\ a.index < b.index)

Entry(index, lines) ==
  [key |-> Head(lines).key, index |-> index, line |-> Head(lines)]

Without(S) == [f \in DOMAIN files \ S |-> files[f]]
With(name, lines) ==
  [f \in DOMAIN files \union {name} |-> IF f = name THEN lines ELSE files[f]]

\* The files of the current merge: a group of a generation, or the last few.
Group == IF pc = "last" THEN names
         ELSE SubSeq(todo, 1, IF Len(todo) < maxMerge THEN Len(todo)
                              ELSE maxMerge)

\* merge takes the first line of every file.
StartMerge(group) ==
  /\ heap' = {Entry(k, files[group[k]]) :
                k \in {j \in DOMAIN group : files[group[j]] # << >>}}
  /\ rest' = [k \in DOMAIN group |->
                IF files[group[k]] = << >> THEN << >> ELSE Tail(files[group[k]])]
  /\ merged' = << >>

\* One turn of the loop: the least line is yielded, and the next one of the
\* same file takes its place.
MergeLine ==
  /\ pc \in {"group", "last"}
  /\ heap # {}
  /\ LET least == CHOOSE e \in heap : \A o \in heap \ {e} : Precedes(e, o)
         next == rest[least.index]
     IN /\ merged' = Append(merged, least.line)
        /\ heap' = (heap \ {least})
             \union (IF next = << >> THEN {} ELSE {Entry(least.index, next)})
        /\ rest' = [rest EXCEPT ![least.index] =
                      IF next = << >> THEN next ELSE Tail(next)]
  /\ UNCHANGED <<items, bufferSize, maxMerge, input, pc, files, created, names,
                 todo, made, output>>
----------------------------------------------------------------------------
(* sort_file *)

\* Sort the next buffer_size lines of the input into a file of their own.
SortChunk ==
  /\ pc = "chunk"
  /\ input # << >>
  /\ LET n == IF Len(input) < bufferSize THEN Len(input) ELSE bufferSize IN
     /\ files' = With(created + 1, Sorted(SubSeq(input, 1, n)))
     /\ input' = SubSeq(input, n + 1, Len(input))
  /\ created' = created + 1
  /\ names' = Append(names, created + 1)
  /\ UNCHANGED <<items, bufferSize, maxMerge, pc, todo, made, heap, rest,
                 merged, output>>

\* merge_files of no files makes an empty output.
NothingToSort ==
  /\ pc = "chunk"
  /\ input = << >>
  /\ names = << >>
  /\ output' = << >>
  /\ pc' = "done"
  /\ UNCHANGED <<items, bufferSize, maxMerge, input, files, created, names,
                 todo, made, heap, rest, merged>>

\* While there are too many files for one merge, start a generation.
StartGeneration ==
  /\ pc \in {"chunk", "files"}
  /\ input = << >>
  /\ Len(names) > maxMerge
  /\ todo' = names
  /\ made' = << >>
  /\ pc' = "generation"
  /\ UNCHANGED <<items, bufferSize, maxMerge, input, files, created, names,
                 heap, rest, merged, output>>

\* Two or more files of a generation are merged ...
StartGroup ==
  /\ pc = "generation"
  /\ Len(Group) > 1
  /\ StartMerge(Group)
  /\ pc' = "group"
  /\ UNCHANGED <<items, bufferSize, maxMerge, input, files, created, names,
                 todo, made, output>>

\* ... into a file of the next one, and deleted;
GroupEnd ==
  /\ pc = "group"
  /\ heap = {}
  /\ files' = [f \in (DOMAIN files \ ToSet(Group)) \union {created + 1} |->
                 IF f = created + 1 THEN merged ELSE files[f]]
  /\ created' = created + 1
  /\ made' = Append(made, created + 1)
  /\ todo' = SubSeq(todo, Len(Group) + 1, Len(todo))
  /\ pc' = "generation"
  /\ UNCHANGED <<items, bufferSize, maxMerge, input, names, heap, rest, merged,
                 output>>

\* a single one that is left over is moved there.
MoveSingle ==
  /\ pc = "generation"
  /\ Len(Group) = 1
  /\ files' = [f \in (DOMAIN files \ ToSet(Group)) \union {created + 1} |->
                 IF f = created + 1 THEN files[Group[1]] ELSE files[f]]
  /\ created' = created + 1
  /\ made' = Append(made, created + 1)
  /\ todo' = << >>
  /\ UNCHANGED <<items, bufferSize, maxMerge, input, pc, names, heap, rest,
                 merged, output>>

GenerationEnd ==
  /\ pc = "generation"
  /\ todo = << >>
  /\ names' = made
  /\ pc' = "files"
  /\ UNCHANGED <<items, bufferSize, maxMerge, input, files, created, todo, made,
                 heap, rest, merged, output>>

\* The last merge writes the output; a single file is moved.
StartLast ==
  /\ pc \in {"chunk", "files"}
  /\ input = << >>
  /\ Len(names) \in 2..maxMerge
  /\ StartMerge(names)
  /\ pc' = "last"
  /\ UNCHANGED <<items, bufferSize, maxMerge, input, files, created, names,
                 todo, made, output>>

MoveLast ==
  /\ pc \in {"chunk", "files"}
  /\ input = << >>
  /\ Len(names) = 1
  /\ output' = files[names[1]]
  /\ files' = Without(ToSet(names))
  /\ pc' = "done"
  /\ UNCHANGED <<items, bufferSize, maxMerge, input, created, names, todo, made,
                 heap, rest, merged>>

LastEnd ==
  /\ pc = "last"
  /\ heap = {}
  /\ output' = merged
  /\ files' = Without(ToSet(names))
  /\ pc' = "done"
  /\ UNCHANGED <<items, bufferSize, maxMerge, input, created, names, todo, made,
                 heap, rest, merged>>
----------------------------------------------------------------------------
Init ==
  /\ items \in Inputs
  /\ bufferSize \in BufferSizes
  /\ maxMerge \in MaxMerges
  /\ input = [k \in DOMAIN items |-> Line(items[k])]
  /\ pc = "chunk"
  /\ files = << >>
  /\ created = 0
  /\ names = << >>
  /\ todo = << >>
  /\ made = << >>
  /\ heap = {}
  /\ rest = << >>
  /\ merged = << >>
  /\ output = << >>

Next ==
  \/ SortChunk
  \/ NothingToSort
  \/ StartGeneration
  \/ StartGroup
  \/ MergeLine
  \/ GroupEnd
  \/ MoveSingle
  \/ GenerationEnd
  \/ StartLast
  \/ MoveLast
  \/ LastEnd

\* The sort runs to its end by itself.
Spec == Init /\ [][Next]_vars /\ WF_vars(Next)
----------------------------------------------------------------------------
\* Whatever the sizes of chunks and merges, the sort comes to an end, when the
\* items read back from the output are those that were stored, in the order of
\* their keys and, where these are equal, in the order they were stored; and no
\* temporary file is left.
ReadBack == [k \in DOMAIN output |-> ItemOf(output[k])]
SortsAll ==
  <>[](/\ pc = "done"
       /\ ReadBack = Sorted(items)
       /\ DOMAIN files = {})
=============================================================================

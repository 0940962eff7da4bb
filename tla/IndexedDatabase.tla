-------------------------- MODULE IndexedDatabase --------------------------
(***************************************************************************)
(* The databases on disk.                                                  *)
(*                                                                         *)
(* RecordTable of record_table.py: records of one fixed length in a file,  *)
(* read and written through a cache that is flushed when it is full.  A    *)
(* flush writes the dirty records in the order of their indexes and fills  *)
(* the gaps between them, so it is several writes to the file; a call that *)
(* filled the cache returns after its flush.                               *)
(*                                                                         *)
(* Deleting a record and going through several of them are made of single  *)
(* gets and sets, with a flush after any of them.                          *)
(*                                                                         *)
(* IndexedDatabase of indexed_database.py, in the second half: objects are *)
(* appended to a main file and a RecordTable keeps the offset of each      *)
(* index in it; what is overwritten or deleted stays in the main file.     *)
(* Reading and appending share one file position, which the database       *)
(* tracks only as far as it knows it.  The records of its table are        *)
(* offsets; the main file is a sequence of cells, each one unit of the     *)
(* length of an object.                                                    *)
(***************************************************************************)
EXTENDS Integers, Sequences, FiniteSets, FiniteSetsExt

CONSTANTS
  Index,            \* the indexes that callers store
  Asked,            \* the indexes that callers ask for, -1 for instance
  Record,           \* the packed records
  Empty,            \* packer.empty_value
  Hole,             \* how a stretch of the file that was never written reads
  MaxMemoryCache    \* _max_memory_cache

ASSUME TableAssumption ==
  /\ Index \subseteq Nat
  /\ \A i \in Index : 0..i \subseteq Index
  /\ Asked \subseteq Int
  /\ Index \subseteq Asked
  /\ {Empty, Hole} \subseteq Record
  /\ MaxMemoryCache \in Nat

VARIABLES
  mode,             \* how the table is open, or "CLOSED"
  file,             \* the records in the file; index i is at position i + 1
  cache,            \* _cache: index -> whether it is dirty, and the record
  limit,            \* _limit
  limitWritten,     \* _limit_written
  pc,               \* "ready", or in a "flush", or in the flush of a "close"
  pairs,            \* the dirty indexes that the flush has not written yet
  deleting,         \* the indexes that __delitem__ has looked up, not yet reset
  asked,            \* the indexes that the current pass through the table is for
  todo,             \* the ones it has still to look up
  found,            \* the pairs it has found
  answer            \* what the last call returned or raised

fileVars == <<file, limitWritten>>
scanVars == <<asked, todo, found>>
vars == <<mode, file, cache, limit, limitWritten, pc, pairs, deleting, asked,
          todo, found, answer>>

Ok == <<"ok">>
KeyError(i) == <<"KeyError", i>>
AccessError == <<"RecordTableAccessError">>
Value(i, r) == <<"value", i, r>>
Items(S, ps) == <<"items", S, ps>>

Entry == [dirty : BOOLEAN, s : Record]
NoEntries == [i \in {} |-> [dirty |-> FALSE, s |-> Empty]]
Dirty(c) == {i \in DOMAIN c : c[i].dirty}
----------------------------------------------------------------------------
(* The file. *)

\* The records of the file after a write at index i.
WriteAt(i, s) ==
  [k \in 1..(IF i < Len(file) THEN Len(file) ELSE i + 1) |->
    IF k = i + 1 THEN s ELSE IF k <= Len(file) THEN file[k] ELSE Hole]

\* Open a file: a new one is empty, the size of an old one is its limit.
Open(m) ==
  /\ mode = "CLOSED"
  /\ mode' = m
  /\ file' = IF m = "NEW" THEN << >> ELSE file
  /\ limit' = Len(file')
  /\ limitWritten' = Len(file')
  /\ answer' = Ok
  /\ UNCHANGED <<cache, pc, pairs, deleting, scanVars>>
----------------------------------------------------------------------------
(* The cache. *)

Cached(i, dirty, s) ==
  [j \in DOMAIN cache \union {i} |->
    IF j = i THEN [dirty |-> dirty, s |-> s] ELSE cache[j]]

\* Put an entry into the cache; start a flush if that fills it.
PutInCache(i, dirty, s) ==
  LET c == Cached(i, dirty, s)
      isFull == Cardinality(DOMAIN c) >= MaxMemoryCache
  IN /\ cache' = c
     /\ pc' = IF isFull THEN "flush" ELSE "ready"
     /\ pairs' = IF isFull THEN Dirty(c) ELSE {}

\* _set_packed_record of a table that may be written to.
SetPackedRecord(i, s) ==
  /\ PutInCache(i, TRUE, s)
  /\ limit' = IF limit > i THEN limit ELSE i + 1

\* _get_packed_record: the record of i, Empty when the index is beyond the
\* file (which the callers cannot tell from a record that is empty).
Packed(i) ==
  IF i \in DOMAIN cache THEN cache[i].s
  ELSE IF i \in 0..(limitWritten - 1) THEN file[i + 1]
  ELSE Empty

\* ... which keeps in the cache what it reads from the file.
GetPackedRecord(i) ==
  IF i \notin DOMAIN cache /\ i \in 0..(limitWritten - 1)
  THEN PutInCache(i, FALSE, file[i + 1])
  ELSE UNCHANGED <<cache, pc, pairs>>

IsOpen == mode # "CLOSED" /\ pc = "ready"
----------------------------------------------------------------------------
(* The calls. *)

\* No other call while a record is being deleted; nothing is stored or
\* deleted by a caller that goes through the table.
IsFree == IsOpen /\ deleting = {}
MayStore == IsFree /\ asked = {}

\* __getitem__
Get(i) ==
  /\ IsFree
  /\ GetPackedRecord(i)
  /\ answer' = IF Packed(i) = Empty THEN KeyError(i) ELSE Value(i, Packed(i))
  /\ UNCHANGED <<mode, fileVars, limit, deleting, scanVars>>

\* __setitem__
Set(i, s) ==
  /\ MayStore
  /\ mode # "READ"
  /\ i >= 0
  /\ SetPackedRecord(i, s)
  /\ answer' = Ok
  /\ UNCHANGED <<mode, fileVars, deleting, scanVars>>

\* __setitem__ and __delitem__ of a table that is only read, or of an index
\* that is negative.
SetRefused(i) ==
  /\ MayStore
  /\ mode = "READ" \/ i < 0
  /\ answer' = IF mode = "READ" THEN AccessError ELSE KeyError(i)
  /\ UNCHANGED <<mode, file, cache, limit, limitWritten, pc, pairs, deleting,
                 scanVars>>

\* __delitem__ first looks the record up, ...
Delete(i) ==
  /\ MayStore
  /\ mode # "READ"
  /\ GetPackedRecord(i)
  /\ IF Packed(i) = Empty
     THEN answer' = KeyError(i) /\ deleting' = {}
     ELSE answer' = answer /\ deleting' = {i}
  /\ UNCHANGED <<mode, fileVars, limit, scanVars>>

\* ... then stores the empty value.
DeleteFound(i) ==
  /\ IsOpen
  /\ i \in deleting
  /\ SetPackedRecord(i, Empty)
  /\ deleting' = {}
  /\ answer' = Ok
  /\ UNCHANGED <<mode, fileVars, scanVars>>

\* iterkeys and itervalues go through 0.._limit - 1, get_many through the
\* indexes it is given.
ScanAll ==
  /\ MayStore
  /\ Index # {}
  /\ asked' = Index
  /\ todo' = {i \in Index : i < limit}
  /\ found' = {}
  /\ UNCHANGED <<mode, file, cache, limit, limitWritten, pc, pairs, deleting,
                 answer>>

ScanSome(S) ==
  /\ MayStore
  /\ S # {}
  /\ asked' = S
  /\ todo' = S
  /\ found' = {}
  /\ UNCHANGED <<mode, file, cache, limit, limitWritten, pc, pairs, deleting,
                 answer>>

ScanStep(i) ==
  /\ IsFree
  /\ i \in todo
  /\ \A j \in todo : i <= j
  /\ GetPackedRecord(i)
  /\ found' = IF Packed(i) = Empty THEN found
              ELSE found \union {<<i, Packed(i)>>}
  /\ todo' = todo \ {i}
  /\ UNCHANGED <<mode, fileVars, limit, deleting, asked, answer>>

ScanEnd ==
  /\ IsFree
  /\ asked # {}
  /\ todo = {}
  /\ answer' = Items(asked, found)
  /\ asked' = {}
  /\ found' = {}
  /\ UNCHANGED <<mode, file, cache, limit, limitWritten, pc, pairs, deleting,
                 todo>>

Close ==
  /\ MayStore
  /\ pc' = "close"
  /\ pairs' = Dirty(cache)
  /\ UNCHANGED <<mode, file, cache, limit, limitWritten, deleting, scanVars,
                 answer>>
----------------------------------------------------------------------------
(* flush *)

\* The indexes that the flush has still to write are taken in order.
IsNextPair(i) == i \in pairs /\ \A j \in pairs : i <= j

\* One turn of the loop that fills the gap before the next record.
FlushGap(i) ==
  /\ pc \in {"flush", "close"}
  /\ IsNextPair(i)
  /\ i > limitWritten
  /\ file' = WriteAt(limitWritten, Empty)
  /\ limitWritten' = limitWritten + 1
  /\ UNCHANGED <<mode, cache, limit, pc, pairs, deleting, scanVars, answer>>

\* Mutant: the limit is where the last record was written.
FlushRecord_LimitIsLast(i) ==
  /\ pc \in {"flush", "close"}
  /\ IsNextPair(i)
  /\ i <= limitWritten
  /\ file' = WriteAt(i, cache[i].s)
  /\ limitWritten' = i + 1
  /\ pairs' = pairs \ {i}
  /\ UNCHANGED <<mode, cache, limit, pc, deleting, scanVars, answer>>

FlushRecord(i) ==
  /\ pc \in {"flush", "close"}
  /\ IsNextPair(i)
  /\ i <= limitWritten
  /\ file' = WriteAt(i, cache[i].s)
  /\ limitWritten' = IF limitWritten > i THEN limitWritten ELSE i + 1
  /\ pairs' = pairs \ {i}
  /\ UNCHANGED <<mode, cache, limit, pc, deleting, scanVars, answer>>

\* When all are written the cache is emptied.
FlushEnd ==
  /\ pc = "flush"
  /\ pairs = {}
  /\ cache' = NoEntries
  /\ pc' = "ready"
  /\ UNCHANGED <<mode, fileVars, limit, pairs, deleting, scanVars, answer>>

CloseEnd ==
  /\ pc = "close"
  /\ pairs = {}
  /\ cache' = NoEntries
  /\ pc' = "ready"
  /\ mode' = "CLOSED"
  /\ answer' = Ok
  /\ UNCHANGED <<fileVars, limit, pairs, deleting, scanVars>>
----------------------------------------------------------------------------
Init ==
  /\ mode = "NEW"
  /\ file = << >>
  /\ cache = NoEntries
  /\ limit = 0
  /\ limitWritten = 0
  /\ pc = "ready"
  /\ pairs = {}
  /\ deleting = {}
  /\ asked = {}
  /\ todo = {}
  /\ found = {}
  /\ answer = Ok

Next ==
  \/ \E m \in {"NEW", "WRITE", "READ"} : Open(m)
  \/ \E i \in Asked : Get(i)
  \/ \E i \in Index, s \in Record : Set(i, s)
  \/ \E i \in Asked : SetRefused(i)
  \/ \E i \in Asked : Delete(i)
  \/ \E i \in Index : DeleteFound(i)
  \/ ScanAll
  \/ \E S \in SUBSET Index : ScanSome(S)
  \/ \E i \in Index : ScanStep(i)
  \/ ScanEnd
  \/ Close
  \/ \E i \in Index : FlushGap(i)
  \/ \E i \in Index : FlushRecord(i)
  \/ FlushEnd
  \/ CloseEnd

Spec == Init /\ [][Next]_vars
----------------------------------------------------------------------------
(* Properties. *)

TypeOK ==
  /\ mode \in {"NEW", "WRITE", "READ", "CLOSED"}
  /\ file \in Seq(Record)
  /\ DOMAIN cache \subseteq Index
  /\ \A i \in DOMAIN cache : cache[i] \in Entry
  /\ limit \in Nat
  /\ limitWritten \in Nat
  /\ pc \in {"ready", "flush", "close"}
  /\ pairs \subseteq Dirty(cache)
  /\ deleting \subseteq Index
  /\ asked \subseteq Index
  /\ todo \subseteq asked

\* _limit_written is the size of the file, and _limit is beyond it and beyond
\* all that is waiting in the cache.
LimitsExact ==
  /\ limitWritten = Len(file)
  /\ limitWritten <= limit
  /\ \A i \in DOMAIN cache : i < limit
  /\ 0..(limit - 1) \subseteq Index

\* An entry that is not waiting to be written is what the file holds.
CacheMatches ==
  \A i \in DOMAIN cache :
    \/ i \in (IF pc = "ready" THEN Dirty(cache) ELSE pairs)
    \/ i < limitWritten /\ file[i + 1] = cache[i].s

\* Where the calls stand: nothing is dirty in a table that is only read, a
\* closed one has no entries, and only a delete has something to delete.
CallsOrdered ==
  /\ pc = "ready" => pairs = {}
  /\ mode \in {"READ", "CLOSED"} => Dirty(cache) = {} /\ deleting = {}
  /\ mode = "CLOSED" => cache = NoEntries /\ pc = "ready" /\ asked = {}
  /\ deleting # {} => asked = {} /\ \A i, j \in deleting : i = j
  /\ pc = "close" => deleting = {} /\ asked = {}
  /\ asked = {} => found = {}

\* A pass through the table has found what is set among the indexes that it
\* has left behind.
ScanExact ==
  found = {<<i, Packed(i)>> : i \in {j \in asked \ todo : Packed(j) # Empty}}

IInv == TypeOK /\ LimitsExact /\ CacheMatches /\ CallsOrdered /\ ScanExact

\* The table is a map: whatever is cached, flushed, read back or reopened, the
\* callers see the records that were stored, iteration leaves none out, and a
\* failed call changes nothing.
Content == [i \in Index |-> Packed(i)]
Table == INSTANCE TableMap WITH content <- Content
ImplementsMap == Table!Spec

-----------------------------------------------------------------------------
(***************************************************************************)
(* IndexedDatabase.                                                        *)
(***************************************************************************)
CONSTANTS
  Item,             \* the objects
  NoItem,           \* not an object: what no object is stored under
  Garbled,          \* not an object: what is read where none begins
  SizeOf,           \* the length of an object when it is serialized
  OffsetLimit,      \* FileOffsetPacker keeps offsets modulo this number
  MaxSize           \* bound: the main file is at most this long

ASSUME DatabaseAssumption ==
  /\ NoItem \notin Item
  /\ Garbled \notin Item
  /\ SizeOf \in [Item -> Nat \ {0}]
  /\ OffsetLimit \in Nat \ {0}
  /\ Record = 0..(OffsetLimit - 1)
  /\ Empty = 0
  /\ MaxSize \in 0..OffsetLimit

VARIABLES
  data,             \* the main file
  pos,              \* where the main file is positioned
  fp,               \* where the database believes it is, or Unknown
  eofp,             \* eofp: the end of the main file
  collecting,       \* does the current pass read objects as it goes?
  collected,        \* the objects that pass has read
  got               \* what the last call returned or raised

dataVars == <<data, pos, fp, eofp>>
dbVars == <<data, pos, fp, eofp, collecting, collected, got>>

Unknown == -1

\* The serializer is the first thing in the file, so no object is at offset 0.
Header == <<NoItem, 1>>

\* FileOffsetPacker.pack
Pack(offset) == offset % OffsetLimit

CellsOf(item) == [k \in 1..SizeOf[item] |-> <<item, k>>]

\* The main file after an object is written at position p.
WrittenAt(p, item) ==
  [k \in 1..Max({Len(data), p + SizeOf[item]}) |->
    IF k \in (p + 1)..(p + SizeOf[item]) THEN <<item, k - p>> ELSE data[k]]

\* serializer.loadf at position p
Loaded(p) ==
  IF p >= Len(data) \/ data[p + 1] \notin {<<x, 1>> : x \in Item} THEN Garbled
  ELSE LET item == data[p + 1][1]
       IN IF p + SizeOf[item] <= Len(data)
             /\ SubSeq(data, p + 1, p + SizeOf[item]) = CellsOf(item)
          THEN item ELSE Garbled

\* Mutant: the position is taken for known after a read.
Fetch_KeepsFp(offset) ==
  LET p == IF fp # offset THEN offset ELSE pos IN
  /\ pos' = IF Loaded(p) = Garbled THEN Len(data) ELSE p + SizeOf[Loaded(p)]
  /\ fp' = offset
  /\ UNCHANGED <<data, eofp>>

\* _fetch: where the loader stops is not known.
Fetch(offset) ==
  LET p == IF fp # offset THEN offset ELSE pos IN
  /\ pos' = IF Loaded(p) = Garbled THEN Len(data) ELSE p + SizeOf[Loaded(p)]
  /\ fp' = Unknown
  /\ UNCHANGED <<data, eofp>>

Fetched(offset) == Loaded(IF fp # offset THEN offset ELSE pos)
----------------------------------------------------------------------------
(* The calls. *)

OpenDatabase(m) ==
  /\ Open(m)
  /\ data' = IF m = "NEW" THEN <<Header>> ELSE data
  /\ pos' = Len(data')
  /\ fp' = Len(data')
  /\ eofp' = Len(data')
  /\ got' = Ok
  /\ UNCHANGED <<collecting, collected>>

\* __setitem__, and add of an IndexedStore
SetItem(i, item) ==
  LET p == IF fp # eofp THEN eofp ELSE pos IN
  /\ eofp + SizeOf[item] <= MaxSize
  /\ Set(i, Pack(eofp))
  /\ data' = WrittenAt(p, item)
  /\ pos' = p + SizeOf[item]
  /\ eofp' = eofp + SizeOf[item]
  /\ fp' = eofp'
  /\ got' = Ok
  /\ UNCHANGED <<collecting, collected>>

\* The table refuses to be written before anything is written to the main file,
\* whose position is then the end all the same.
SetItemRefused(i) ==
  /\ SetRefused(i)
  /\ pos' = IF fp # eofp THEN eofp ELSE pos
  /\ got' = answer'
  /\ UNCHANGED <<data, fp, eofp, collecting, collected>>

\* __getitem__
GetItem(i) ==
  /\ Get(i)
  /\ IF Packed(i) # Empty
     THEN Fetch(Packed(i)) /\ got' = Value(i, Fetched(Packed(i)))
     ELSE UNCHANGED dataVars /\ got' = KeyError(i)
  /\ UNCHANGED <<collecting, collected>>

DeleteItem(i) ==
  /\ Delete(i)
  /\ got' = IF Packed(i) = Empty THEN KeyError(i) ELSE got
  /\ UNCHANGED <<dataVars, collecting, collected>>

DeleteItemFound(i) ==
  /\ DeleteFound(i)
  /\ got' = Ok
  /\ UNCHANGED <<dataVars, collecting, collected>>

\* itervalues reads every object when it comes to its offset ...
IterValues ==
  /\ ScanAll
  /\ collecting' = TRUE
  /\ UNCHANGED <<dataVars, collected, got>>

\* ... get_many first looks all the offsets up.
GetMany(S) ==
  /\ ScanSome(S)
  /\ collecting' = FALSE
  /\ UNCHANGED <<dataVars, collected, got>>

NextOffset(i) ==
  /\ ScanStep(i)
  /\ IF collecting /\ Packed(i) # Empty
     THEN /\ Fetch(Packed(i))
          /\ collected' = collected \union {<<i, Fetched(Packed(i))>>}
     ELSE UNCHANGED <<dataVars, collected>>
  /\ UNCHANGED <<collecting, got>>

ValuesEnd ==
  /\ collecting
  /\ ScanEnd
  /\ got' = Items(asked, collected)
  /\ collecting' = FALSE
  /\ collected' = {}
  /\ UNCHANGED dataVars

\* The objects of get_many are read in the order of their offsets.
ManyEnd ==
  /\ ~ collecting
  /\ ScanEnd
  /\ got' = Items(asked, {<<pair[1], Loaded(pair[2])>> : pair \in found})
  /\ IF found = {} THEN UNCHANGED dataVars
     ELSE Fetch(Max({pair[2] : pair \in found}))
  /\ UNCHANGED <<collecting, collected>>

CloseDatabase == Close /\ UNCHANGED dbVars

\* The table's flush does not concern the main file.
Flush ==
  \/ \E i \in Index : FlushGap(i) /\ UNCHANGED dbVars
  \/ \E i \in Index : FlushRecord(i) /\ UNCHANGED dbVars
  \/ FlushEnd /\ UNCHANGED dbVars
  \/ CloseEnd /\ got' = Ok /\ UNCHANGED <<dataVars, collecting, collected>>
----------------------------------------------------------------------------
DatabaseInit ==
  /\ Init
  /\ data = <<Header>>
  /\ pos = 1
  /\ fp = 1
  /\ eofp = 1
  /\ collecting = FALSE
  /\ collected = {}
  /\ got = Ok

DatabaseNext ==
  \/ \E m \in {"NEW", "WRITE", "READ"} : OpenDatabase(m)
  \/ \E i \in Index, item \in Item : SetItem(i, item)
  \/ \E i \in Asked : SetItemRefused(i)
  \/ \E i \in Asked : GetItem(i)
  \/ \E i \in Asked : DeleteItem(i)
  \/ \E i \in Index : DeleteItemFound(i)
  \/ IterValues
  \/ \E S \in SUBSET Index : GetMany(S)
  \/ \E i \in Index : NextOffset(i)
  \/ ValuesEnd
  \/ ManyEnd
  \/ CloseDatabase
  \/ Flush

DatabaseSpec == DatabaseInit /\ [][DatabaseNext]_<<vars, dbVars>>
----------------------------------------------------------------------------
\* The main file begins with the serializer, the database knows where it ends,
\* and if it knows where the file is positioned that is the end.
EndKnown ==
  /\ data \in Seq((Item \union {NoItem}) \X Nat)
  /\ data # << >> /\ data[1] = Header
  /\ eofp = Len(data)
  /\ fp # Unknown => fp = eofp /\ pos = eofp

\* Wherever the table points, a whole object is read.
PointsToObjects ==
  \A i \in Index : Packed(i) # Empty => Loaded(Packed(i)) \in Item

\* A pass that reads objects as it goes has what is stored under the indexes
\* that it has left behind.
CollectedExact ==
  /\ collecting \in BOOLEAN
  /\ collecting => asked # {}
  /\ collected = IF ~ collecting THEN {}
                 ELSE {<<i, Loaded(Packed(i))>> :
                        i \in {j \in asked \ todo : Packed(j) # Empty}}

DatabaseIInv == IInv /\ EndKnown /\ PointsToObjects /\ CollectedExact

\* The database is a map of objects: what is stored under an index is read back,
\* by itself or with others, whatever was appended, read, overwritten, deleted
\* or flushed in between, and after the database was closed and opened again.
Objects == [i \in Index |->
  IF Packed(i) = Empty THEN NoItem ELSE Loaded(Packed(i))]
Store == INSTANCE TableMap
  WITH content <- Objects, answer <- got, Record <- Item \union {NoItem},
       Empty <- NoItem
ImplementsStore == Store!Spec
============================================================================

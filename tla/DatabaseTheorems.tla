-------------------------- MODULE DatabaseTheorems --------------------------
(***************************************************************************)
(* The databases on disk are maps.  RecordTable keeps its invariant and    *)
(* implements TableMap, whatever the indexes, records and size of the      *)
(* cache; and IndexedDatabase, which keeps pickled objects in a main file  *)
(* and their offsets in such a table, implements TableMap as well.         *)
(***************************************************************************)
EXTENDS IndexedDatabase, TLAPS

\* The file after a write at most one record beyond its end is the old one but
\* for that record.
LEMMA WriteAtExact ==
  ASSUME NEW STATE i, NEW STATE s, file \in Seq(Record),
         i \in Nat, i <= Len(file), s \in Record
  PROVE  /\ WriteAt(i, s) \in Seq(Record)
         /\ Len(WriteAt(i, s)) = IF i < Len(file) THEN Len(file) ELSE i + 1
         /\ WriteAt(i, s)[i + 1] = s
         /\ \A k \in 1..Len(file) : k # i + 1 => WriteAt(i, s)[k] = file[k]
<1> DEFINE n == IF i < Len(file) THEN Len(file) ELSE i + 1
<1>1. n \in Nat /\ i + 1 \in 1..n /\ 1..Len(file) \subseteq 1..n
  OBVIOUS
<1>2. \A k \in 1..n : k # i + 1 => k \in 1..Len(file)
  OBVIOUS
<1>3. WriteAt(i, s) = [k \in 1..n |->
        IF k = i + 1 THEN s ELSE IF k <= Len(file) THEN file[k] ELSE Hole]
  BY DEF WriteAt
<1>4. \A k \in 1..n : WriteAt(i, s)[k] = IF k = i + 1 THEN s ELSE file[k]
  BY <1>2, <1>3
<1>5. \A k \in 1..n : WriteAt(i, s)[k] \in Record
  BY <1>2, <1>4
<1>6. DOMAIN WriteAt(i, s) = 1..n /\ WriteAt(i, s) \in [1..n -> Record]
  BY <1>3, <1>5
<1> QED BY <1>1, <1>4, <1>6

\* Packed records are records.
LEMMA PackedType ==
  ASSUME TypeOK, LimitsExact, NEW i
  PROVE  Packed(i) \in Record
BY TableAssumption DEF TypeOK, LimitsExact, Packed, Entry

\* A lookup changes no record and leaves the cache as the invariant wants it.
LEMMA LookupExact ==
  ASSUME IInv, pc = "ready", NEW i \in Int, GetPackedRecord(i),
         UNCHANGED fileVars
  PROVE  /\ \A j \in Int : Packed(j)' = Packed(j)
         /\ DOMAIN cache' \subseteq Index
         /\ \A j \in DOMAIN cache' : cache'[j] \in Entry /\ j < limit
         /\ pc' \in {"ready", "flush"}
         /\ pairs' = IF pc' = "ready" THEN {} ELSE Dirty(cache')
         /\ Dirty(cache') = Dirty(cache)
         /\ \A j \in DOMAIN cache' :
              \/ j \in Dirty(cache')
              \/ j < limitWritten /\ file[j + 1] = cache'[j].s
<1>1. CASE i \in DOMAIN cache \/ i \notin 0..(limitWritten - 1)
  <2>1. UNCHANGED <<cache, pc, pairs>>
    BY <1>1 DEF GetPackedRecord
  <2> QED BY <2>1 DEF IInv, TypeOK, LimitsExact, CacheMatches, CallsOrdered,
                      Packed, fileVars, Dirty
<1>2. CASE i \notin DOMAIN cache /\ i \in 0..(limitWritten - 1)
  <2>1. PutInCache(i, FALSE, file[i + 1])
    BY <1>2 DEF GetPackedRecord
  <2>2. i \in Nat /\ i < limit /\ i \in Index /\ file[i + 1] \in Record
    BY <1>2 DEF IInv, TypeOK, LimitsExact
  <2>3. cache' = Cached(i, FALSE, file[i + 1])
    BY <2>1 DEF PutInCache
  <2>4. /\ DOMAIN cache' = DOMAIN cache \union {i}
        /\ cache'[i] = [dirty |-> FALSE, s |-> file[i + 1]]
        /\ \A j \in DOMAIN cache : j # i => cache'[j] = cache[j]
    BY <2>3 DEF Cached
  <2>5. Dirty(cache') = Dirty(cache)
    BY <1>2, <2>4 DEF Dirty
  <2>6. /\ pc' \in {"ready", "flush"}
        /\ pairs' = IF pc' = "ready" THEN {} ELSE Dirty(cache')
    BY <2>1, <2>3 DEF PutInCache
  <2>7. \A j \in Int : Packed(j)' = Packed(j)
    BY <1>2, <2>4 DEF Packed, fileVars
  <2>8. \A j \in DOMAIN cache' : cache'[j] \in Entry /\ j < limit
    <3>1. \A j \in DOMAIN cache : cache[j] \in Entry /\ j < limit
      BY DEF IInv, TypeOK, LimitsExact
    <3>2. [dirty |-> FALSE, s |-> file[i + 1]] \in Entry
      BY <2>2 DEF Entry
    <3> QED BY <1>2, <2>2, <2>4, <3>1, <3>2
  <2>9. \A j \in DOMAIN cache' :
          \/ j \in Dirty(cache')
          \/ j < limitWritten /\ file[j + 1] = cache'[j].s
    BY <1>2, <2>2, <2>4, <2>5 DEF IInv, TypeOK, CacheMatches
  <2> QED BY <2>2, <2>4, <2>5, <2>6, <2>7, <2>8, <2>9 DEF IInv, TypeOK
<1> QED BY <1>1, <1>2 DEF IInv, TypeOK, LimitsExact

\* What _set_packed_record stores is what the table then holds.
LEMMA StoreExact ==
  ASSUME IInv, pc = "ready", NEW i \in Index, NEW s \in Record,
         SetPackedRecord(i, s), UNCHANGED fileVars
  PROVE  /\ \A j \in Int : Packed(j)' = IF j = i THEN s ELSE Packed(j)
         /\ DOMAIN cache' \subseteq Index
         /\ \A j \in DOMAIN cache' : cache'[j] \in Entry /\ j < limit'
         /\ limit' \in Nat /\ limit <= limit' /\ 0..(limit' - 1) \subseteq Index
         /\ pc' \in {"ready", "flush"}
         /\ pairs' = IF pc' = "ready" THEN {} ELSE Dirty(cache')
         /\ \A j \in DOMAIN cache' :
              \/ j \in Dirty(cache')
              \/ j < limitWritten /\ file[j + 1] = cache'[j].s
<1>1. i \in Nat /\ i \in Int /\ 0..i \subseteq Index
  BY TableAssumption
<1>2. cache' = Cached(i, TRUE, s)
  BY DEF SetPackedRecord, PutInCache
<1>3. /\ DOMAIN cache' = DOMAIN cache \union {i}
      /\ cache'[i] = [dirty |-> TRUE, s |-> s]
      /\ \A j \in DOMAIN cache : j # i => cache'[j] = cache[j]
  BY <1>2 DEF Cached
<1>4. limit' = IF limit > i THEN limit ELSE i + 1
  BY DEF SetPackedRecord
<1>5. limit' \in Nat /\ limit <= limit' /\ i < limit'
  BY <1>1, <1>4 DEF IInv, TypeOK
<1>6. 0..(limit' - 1) \subseteq Index
  BY <1>1, <1>4 DEF IInv, TypeOK, LimitsExact
<1>7. /\ pc' \in {"ready", "flush"}
      /\ pairs' = IF pc' = "ready" THEN {} ELSE Dirty(cache')
  BY <1>2 DEF SetPackedRecord, PutInCache
<1>8. \A j \in Int : Packed(j)' = IF j = i THEN s ELSE Packed(j)
  BY <1>3 DEF Packed, fileVars
<1>9. \A j \in DOMAIN cache' : cache'[j] \in Entry /\ j < limit'
  <2>1. \A j \in DOMAIN cache : cache[j] \in Entry /\ j \in Nat /\ j < limit
    BY TableAssumption DEF IInv, TypeOK, LimitsExact
  <2>2. [dirty |-> TRUE, s |-> s] \in Entry
    BY DEF Entry
  <2>3. limit \in Nat
    BY DEF IInv, TypeOK
  <2>4. \A j \in DOMAIN cache : j < limit'
    BY <1>5, <2>1, <2>3
  <2> QED BY <1>3, <1>5, <2>1, <2>2, <2>4
<1>10. \A j \in DOMAIN cache' :
         \/ j \in Dirty(cache')
         \/ j < limitWritten /\ file[j + 1] = cache'[j].s
  <2> SUFFICES ASSUME NEW j \in DOMAIN cache', j \notin Dirty(cache')
               PROVE  j < limitWritten /\ file[j + 1] = cache'[j].s
    OBVIOUS
  <2>1. j # i /\ j \in DOMAIN cache /\ cache'[j] = cache[j]
    BY <1>3 DEF Dirty
  <2>2. j \notin Dirty(cache)
    BY <1>3, <2>1 DEF Dirty
  <2> QED BY <2>1, <2>2 DEF IInv, CacheMatches
<1> QED BY <1>3, <1>5, <1>6, <1>7, <1>8, <1>9, <1>10 DEF IInv, TypeOK

\* A write of the flush leaves the records of the table as they are.
LEMMA FlushExact ==
  ASSUME IInv, NEW i \in Index, FlushGap(i) \/ FlushRecord(i)
  PROVE  /\ \A j \in Int : Packed(j)' = Packed(j)
         /\ file' \in Seq(Record)
         /\ limitWritten' = Len(file') /\ limitWritten' \in Nat
         /\ limitWritten' <= limit
         /\ \A j \in DOMAIN cache :
              \/ j \in pairs'
              \/ j < limitWritten' /\ file'[j + 1] = cache[j].s
<1>1. /\ i \in Nat /\ i \in DOMAIN cache /\ i < limit /\ i \in pairs
      /\ cache[i].s \in Record /\ file \in Seq(Record)
      /\ limitWritten = Len(file) /\ limitWritten \in Nat /\ limit \in Nat
      /\ limitWritten <= limit
      /\ DOMAIN cache \subseteq Nat
  BY TableAssumption
     DEF IInv, TypeOK, LimitsExact, FlushGap, FlushRecord, IsNextPair, Dirty, Entry
<1>2. \A j \in DOMAIN cache :
        j \in pairs \/ (j < limitWritten /\ file[j + 1] = cache[j].s)
  <2>1. pc # "ready"
    BY DEF FlushGap, FlushRecord
  <2>2. \A j \in DOMAIN cache :
          \/ j \in (IF pc = "ready" THEN Dirty(cache) ELSE pairs)
          \/ j < limitWritten /\ file[j + 1] = cache[j].s
    BY DEF IInv, CacheMatches
  <2> QED BY <2>1, <2>2
<1>3. CASE FlushGap(i)
  <2>1. /\ file' = WriteAt(limitWritten, Empty)
        /\ limitWritten' = limitWritten + 1
        /\ limitWritten < i
        /\ UNCHANGED <<cache, pairs>>
    BY <1>1, <1>3 DEF FlushGap
  <2>2. /\ file' \in Seq(Record) /\ Len(file') = limitWritten + 1
        /\ file'[limitWritten + 1] = Empty
        /\ \A k \in 1..limitWritten : file'[k] = file[k]
    <3>1. limitWritten <= Len(file) /\ Empty \in Record
      BY <1>1, TableAssumption
    <3> DEFINE w == WriteAt(limitWritten, Empty)
    <3>2. /\ w \in Seq(Record)
          /\ Len(w) = IF limitWritten < Len(file)
                      THEN Len(file) ELSE limitWritten + 1
          /\ w[limitWritten + 1] = Empty
          /\ \A k \in 1..Len(file) : k # limitWritten + 1 => w[k] = file[k]
      BY <1>1, <3>1, WriteAtExact
    <3>3. file' = w
      BY <2>1
    <3> HIDE DEF w
    <3>4. Len(w) = limitWritten + 1
      BY <1>1, <3>2
    <3>5. \A k \in 1..limitWritten : w[k] = file[k]
      BY <1>1, <3>2
    <3> QED BY <3>2, <3>3, <3>4, <3>5
  <2>3. \A j \in Int : Packed(j)' = Packed(j)
    BY <1>1, <2>1, <2>2 DEF Packed
  <2> QED BY <1>1, <1>2, <2>1, <2>2, <2>3
<1>4. CASE FlushRecord(i)
  <2>1. /\ file' = WriteAt(i, cache[i].s)
        /\ limitWritten' = IF limitWritten > i THEN limitWritten ELSE i + 1
        /\ i <= limitWritten
        /\ pairs' = pairs \ {i}
        /\ UNCHANGED cache
    BY <1>4 DEF FlushRecord
  <2> DEFINE r == cache[i].s
  <2>2. /\ WriteAt(i, r) \in Seq(Record)
        /\ Len(WriteAt(i, r)) = IF i < Len(file) THEN Len(file) ELSE i + 1
        /\ WriteAt(i, r)[i + 1] = r
        /\ \A k \in 1..Len(file) : k # i + 1 => WriteAt(i, r)[k] = file[k]
    BY <1>1, <2>1, WriteAtExact
  <2>3. /\ file' \in Seq(Record) /\ Len(file') = limitWritten'
        /\ limitWritten' \in Nat /\ limitWritten' <= limit /\ i < limitWritten'
        /\ file'[i + 1] = cache[i].s
        /\ \A k \in 1..limitWritten : k # i + 1 => file'[k] = file[k]
    <3> DEFINE w == WriteAt(i, r)
    <3>1. file' = w
      BY <2>1
    <3>2. limitWritten' = IF i < limitWritten THEN limitWritten ELSE i + 1
      BY <1>1, <2>1
    <3>3. w \in Seq(Record) /\ w[i + 1] = r
      BY <2>2
    <3>4. Len(w) = limitWritten'
      BY <1>1, <2>2, <3>2
    <3>5. limitWritten' \in Nat /\ limitWritten' <= limit /\ i < limitWritten'
      BY <1>1, <3>2
    <3>6. \A k \in 1..limitWritten : k # i + 1 => w[k] = file[k]
      BY <1>1, <2>2
    <3> HIDE DEF w
    <3> QED BY <3>1, <3>3, <3>4, <3>5, <3>6
  <2>4. \A j \in Int : Packed(j)' = Packed(j)
    BY <1>1, <2>1, <2>3 DEF Packed
  <2>5. \A j \in DOMAIN cache :
          j \in pairs' \/ (j < limitWritten' /\ file'[j + 1] = cache[j].s)
    <3>1. \A j \in DOMAIN cache :
            j # i => j \in pairs' \/ (j < limitWritten' /\ file'[j + 1] = cache[j].s)
      <4>1. limitWritten <= limitWritten'
        BY <1>1, <2>1
      <4>2. \A j \in DOMAIN cache : j # i /\ j \in pairs => j \in pairs'
        BY <2>1
      <4>3. \A j \in DOMAIN cache : j # i /\ j < limitWritten =>
              j + 1 \in 1..limitWritten /\ j + 1 # i + 1 /\ j < limitWritten'
        BY <1>1, <2>3, <4>1
      <4> SUFFICES ASSUME NEW j \in DOMAIN cache, j # i
                   PROVE  \/ j \in pairs'
                          \/ j < limitWritten' /\ file'[j + 1] = cache[j].s
        OBVIOUS
      <4>4. CASE j \in pairs
        BY <4>2, <4>4
      <4>5. CASE j < limitWritten /\ file[j + 1] = cache[j].s
        BY <2>3, <4>3, <4>5
      <4> QED BY <1>2, <4>4, <4>5
    <3> QED BY <2>3, <3>1
  <2> QED BY <2>3, <2>4, <2>5
<1> QED BY <1>3, <1>4

\* Emptying the cache after the flush forgets nothing.
LEMMA EmptyExact ==
  ASSUME IInv, pc \in {"flush", "close"}, pairs = {}, cache' = NoEntries,
         UNCHANGED fileVars
  PROVE  \A j \in Int : Packed(j)' = Packed(j)
<1>1. \A j \in DOMAIN cache : j < limitWritten /\ file[j + 1] = cache[j].s
  BY DEF IInv, CacheMatches
<1>2. DOMAIN cache' = {} /\ DOMAIN cache \subseteq Nat
  BY TableAssumption DEF NoEntries, IInv, TypeOK
<1>3. limitWritten \in Nat
  BY DEF IInv, TypeOK
<1> QED BY <1>1, <1>2, <1>3 DEF Packed, fileVars
----------------------------------------------------------------------------
(* The invariant. *)

\* The parts of the invariant about the calls that look records up.
LEMMA ScanKept ==
  ASSUME ScanExact, \A j \in Int : Packed(j)' = Packed(j), UNCHANGED scanVars,
         asked \subseteq Int
  PROVE  ScanExact'
<1>1. \A j \in asked \ todo : Packed(j)' = Packed(j)
  OBVIOUS
<1>2. asked' = asked /\ todo' = todo /\ found' = found
  BY DEF scanVars
<1> QED BY <1>1, <1>2 DEF ScanExact

\* Indexes are numbers.
LEMMA IntIndex == Index \subseteq Int /\ Asked \subseteq Int
BY TableAssumption

\* A new table holds to its invariant.
LEMMA InitIInv == Init => IInv
<1> SUFFICES ASSUME Init PROVE IInv
  OBVIOUS
<1>1. DOMAIN cache = {} /\ file = << >> /\ Len(file) = 0
  BY DEF Init, NoEntries
<1> QED BY <1>1 DEF Init, IInv, TypeOK, LimitsExact, CacheMatches,
                    CallsOrdered, ScanExact, Dirty

\* A lookup keeps the invariant, whatever the call does with the record.
LEMMA LookupKeeps ==
  ASSUME IInv, NEW i \in Int, IsOpen, GetPackedRecord(i), UNCHANGED fileVars,
         UNCHANGED <<mode, limit>>,
         deleting' \subseteq Index, asked' \subseteq Index, todo' \subseteq asked',
         deleting' # {} => /\ asked' = {} /\ mode # "READ"
                           /\ \A j, k \in deleting' : j = k,
         asked' = {} => found' = {},
         ScanExact'
  PROVE  IInv'
<1>1. pc = "ready" /\ mode # "CLOSED"
  BY DEF IsOpen
<1>2. /\ DOMAIN cache' \subseteq Index
      /\ \A j \in DOMAIN cache' : cache'[j] \in Entry /\ j < limit
      /\ pc' \in {"ready", "flush"}
      /\ pairs' = IF pc' = "ready" THEN {} ELSE Dirty(cache')
      /\ Dirty(cache') = Dirty(cache)
      /\ \A j \in DOMAIN cache' :
           \/ j \in Dirty(cache')
           \/ j < limitWritten /\ file[j + 1] = cache'[j].s
  BY <1>1, LookupExact
<1>3. UNCHANGED <<file, limitWritten, mode, limit>>
  BY DEF fileVars
<1>4. TypeOK'
  BY <1>2, <1>3 DEF IInv, TypeOK, Dirty
<1>5. LimitsExact'
  BY <1>2, <1>3 DEF IInv, LimitsExact
<1>6. CacheMatches'
  BY <1>2, <1>3 DEF CacheMatches, Dirty
<1>7. CallsOrdered'
  BY <1>1, <1>2, <1>3 DEF IInv, CallsOrdered, Dirty
<1> QED BY <1>4, <1>5, <1>6, <1>7 DEF IInv

\* Storing a record keeps the invariant.
LEMMA StoreKeeps ==
  ASSUME IInv, NEW i \in Index, NEW s \in Record, IsOpen, asked = {},
         SetPackedRecord(i, s), UNCHANGED <<mode, fileVars, scanVars>>,
         mode # "READ", deleting' = {}
  PROVE  IInv'
<1>1. pc = "ready" /\ mode # "CLOSED"
  BY DEF IsOpen
<1>2. /\ DOMAIN cache' \subseteq Index
      /\ \A j \in DOMAIN cache' : cache'[j] \in Entry /\ j < limit'
      /\ limit' \in Nat /\ limit <= limit' /\ 0..(limit' - 1) \subseteq Index
      /\ pc' \in {"ready", "flush"}
      /\ pairs' = IF pc' = "ready" THEN {} ELSE Dirty(cache')
      /\ \A j \in DOMAIN cache' :
           \/ j \in Dirty(cache')
           \/ j < limitWritten /\ file[j + 1] = cache'[j].s
  BY <1>1, StoreExact
<1>3. UNCHANGED <<file, limitWritten, mode, asked, todo, found>>
  BY DEF fileVars, scanVars
<1>4. TypeOK'
  BY <1>2, <1>3 DEF IInv, TypeOK, Dirty
<1>5. LimitsExact'
  <2>1. limitWritten = Len(file) /\ limitWritten \in Nat /\ limit \in Nat
        /\ limitWritten <= limit
    BY DEF IInv, TypeOK, LimitsExact
  <2>2. limitWritten <= limit'
    BY <1>2, <2>1
  <2>3. \A j \in DOMAIN cache' : j < limit'
    BY <1>2
  <2> QED BY <1>2, <1>3, <2>1, <2>2, <2>3 DEF LimitsExact
<1>6. CacheMatches'
  BY <1>2, <1>3 DEF CacheMatches, Dirty
<1>7. CallsOrdered'
  BY <1>1, <1>2, <1>3 DEF IInv, CallsOrdered, Dirty
<1>8. ScanExact'
  BY <1>3 DEF IInv, TypeOK, CallsOrdered, ScanExact
<1> QED BY <1>4, <1>5, <1>6, <1>7, <1>8 DEF IInv
\* Every step keeps the invariant: the sizes are those of the file, what is not
\* waiting to be written is in the file, and a pass finds what is there.
LEMMA NextIInv == IInv /\ [Next]_vars => IInv'
<1> SUFFICES ASSUME IInv, [Next]_vars PROVE IInv'
  OBVIOUS
<1> USE IntIndex
<1>0. TypeOK /\ LimitsExact /\ CacheMatches /\ CallsOrdered /\ ScanExact
  BY DEF IInv
<1>1. ASSUME NEW m \in {"NEW", "WRITE", "READ"}, Open(m) PROVE IInv'
  <2>1. cache = NoEntries /\ pc = "ready" /\ asked = {} /\ pairs = {}
        /\ deleting = {} /\ todo = {} /\ found = {}
    BY <1>0, <1>1 DEF Open, CallsOrdered, TypeOK
  <2>2. /\ UNCHANGED <<cache, pc, pairs, deleting, asked, todo, found>>
        /\ file' \in {file, << >>} /\ limit' = Len(file')
        /\ limitWritten' = Len(file') /\ mode' = m
    BY <1>1 DEF Open, scanVars
  <2>3. file' \in Seq(Record) /\ Len(file') \in Nat
        /\ 0..(Len(file') - 1) \subseteq Index
    <3>1. file \in Seq(Record) /\ Len(file) \in Nat /\ Len(file) <= limit
          /\ limit \in Nat
      BY <1>0 DEF TypeOK, LimitsExact
    <3>2. 0..(Len(file) - 1) \subseteq Index
      BY <1>0, <3>1 DEF LimitsExact
    <3>3. << >> \in Seq(Record) /\ Len(<< >>) = 0 /\ 0..(0 - 1) = {}
      OBVIOUS
    <3>4. file' = file \/ file' = << >>
      BY <2>2
    <3> QED BY <3>1, <3>2, <3>3, <3>4
  <2>4. DOMAIN cache = {}
    BY <2>1 DEF NoEntries
  <2> QED BY <2>1, <2>2, <2>3, <2>4 DEF IInv, TypeOK, LimitsExact,
             CacheMatches, CallsOrdered, ScanExact, Dirty
<1>2. ASSUME NEW i \in Asked, Get(i) PROVE IInv'
  <2>1. /\ IsOpen /\ deleting = {} /\ i \in Int /\ GetPackedRecord(i)
        /\ UNCHANGED <<mode, fileVars, limit, deleting, scanVars>>
    BY <1>2 DEF Get, IsFree
  <2>2. ScanExact'
    BY <1>0, <2>1, LookupExact, ScanKept DEF IsOpen, TypeOK
  <2> QED BY <1>0, <2>1, <2>2, LookupKeeps
          DEF scanVars, TypeOK, CallsOrdered, IsOpen
<1>3. ASSUME NEW i \in Index, NEW s \in Record, Set(i, s) PROVE IInv'
  <2>1. /\ IsOpen /\ asked = {} /\ deleting = {} /\ SetPackedRecord(i, s)
        /\ UNCHANGED <<mode, fileVars, deleting, scanVars>> /\ mode # "READ"
    BY <1>3 DEF Set, MayStore, IsFree
  <2> QED BY <2>1, StoreKeeps
<1>4. ASSUME NEW i \in Asked, SetRefused(i) PROVE IInv'
  BY <1>0, <1>4 DEF SetRefused, scanVars, IInv, TypeOK, LimitsExact,
     CacheMatches, CallsOrdered, ScanExact, Packed, Dirty
<1>5. ASSUME NEW i \in Asked, Delete(i) PROVE IInv'
  <2>1. /\ IsOpen /\ deleting = {} /\ asked = {} /\ i \in Int
        /\ GetPackedRecord(i) /\ mode # "READ"
        /\ UNCHANGED <<mode, fileVars, limit, scanVars>>
        /\ IF Packed(i) = Empty THEN deleting' = {} ELSE deleting' = {i}
    BY <1>5 DEF Delete, MayStore, IsFree
  <2>2. ScanExact'
    BY <1>0, <2>1, LookupExact, ScanKept DEF IsOpen, TypeOK
  <2>3. Packed(i) # Empty => i \in Index
    BY <1>0 DEF Packed, TypeOK, LimitsExact
  <2>4. deleting' \subseteq Index /\ \A j, k \in deleting' : j = k
    BY <2>1, <2>3
  <2> QED BY <1>0, <2>1, <2>2, <2>4, LookupKeeps
          DEF scanVars, TypeOK, CallsOrdered, IsOpen
<1>6. ASSUME NEW i \in Index, DeleteFound(i) PROVE IInv'
  <2>1. /\ IsOpen /\ i \in deleting /\ SetPackedRecord(i, Empty)
        /\ deleting' = {} /\ UNCHANGED <<mode, fileVars, scanVars>>
    BY <1>6 DEF DeleteFound
  <2>2. asked = {} /\ mode # "READ" /\ Empty \in Record
    BY <1>0, <2>1, TableAssumption DEF CallsOrdered
  <2> QED BY <2>1, <2>2, StoreKeeps
<1>7. CASE ScanAll
  <2>1. \A i \in Index : i >= limit => Packed(i) = Empty
    <3> TAKE i \in Index
    <3>1. i \in Nat /\ limit \in Nat /\ limitWritten \in Nat /\ limitWritten <= limit
      BY <1>0, TableAssumption DEF TypeOK, LimitsExact
    <3>2. i >= limit => i \notin DOMAIN cache /\ i \notin 0..(limitWritten - 1)
      BY <1>0, <3>1 DEF LimitsExact
    <3> QED BY <3>2 DEF Packed
  <2>2. ScanExact'
    <3>1. /\ asked' = Index /\ todo' = {i \in Index : i < limit} /\ found' = {}
          /\ UNCHANGED <<cache, file, limitWritten>>
      BY <1>7 DEF ScanAll
    <3>2. \A i \in Index : Packed(i)' = Packed(i)
      BY <3>1 DEF Packed
    <3>3. \A i \in asked' \ todo' : Packed(i)' = Empty
      BY <1>0, <2>1, <3>1, <3>2, TableAssumption DEF TypeOK
    <3> QED BY <3>1, <3>3 DEF ScanExact
  <2> QED BY <1>0, <1>7, <2>2 DEF ScanAll, MayStore, IsFree, IsOpen, IInv,
             TypeOK, LimitsExact, CacheMatches, CallsOrdered, Dirty
<1>8. ASSUME NEW S \in SUBSET Index, ScanSome(S) PROVE IInv'
  <2>1. ScanExact'
    BY <1>8 DEF ScanSome, ScanExact, Packed
  <2> QED BY <1>0, <1>8, <2>1 DEF ScanSome, MayStore, IsFree, IsOpen, IInv,
             TypeOK, LimitsExact, CacheMatches, CallsOrdered, Dirty
<1>9. ASSUME NEW i \in Index, ScanStep(i) PROVE IInv'
  <2>1. /\ IsOpen /\ deleting = {} /\ i \in Int /\ GetPackedRecord(i)
        /\ i \in todo /\ todo' = todo \ {i}
        /\ UNCHANGED <<mode, fileVars, limit, deleting, asked>>
        /\ found' = IF Packed(i) = Empty THEN found
                    ELSE found \union {<<i, Packed(i)>>}
    BY <1>9 DEF ScanStep, IsFree
  <2>2. \A j \in Int : Packed(j)' = Packed(j)
    BY <2>1, LookupExact DEF IsOpen
  <2>3. asked \ todo' = (asked \ todo) \union {i} /\ asked \subseteq Int
    BY <1>0, <2>1 DEF TypeOK
  <2>4. found' = {<<j, Packed(j)>> :
                    j \in {k \in asked \ todo' : Packed(k) # Empty}}
    BY <1>0, <2>1, <2>3 DEF ScanExact
  <2>5. ScanExact'
    BY <2>1, <2>2, <2>3, <2>4 DEF ScanExact
  <2> QED BY <1>0, <2>1, <2>5, LookupKeeps DEF TypeOK, CallsOrdered, IsOpen
<1>10. CASE ScanEnd
  <2>1. ScanExact'
    BY <1>10 DEF ScanEnd, ScanExact
  <2> QED BY <1>0, <1>10, <2>1 DEF ScanEnd, IsFree, IsOpen, IInv,
             TypeOK, LimitsExact, CacheMatches, CallsOrdered, Dirty
<1>11. CASE Close
  BY <1>0, <1>11 DEF Close, MayStore, IsFree, IsOpen, scanVars, IInv, TypeOK,
     LimitsExact, CacheMatches, CallsOrdered, ScanExact, Packed, Dirty
<1>12. ASSUME NEW i \in Index, FlushGap(i) \/ FlushRecord(i) PROVE IInv'
  <2>1. /\ \A j \in Int : Packed(j)' = Packed(j)
        /\ file' \in Seq(Record)
        /\ limitWritten' = Len(file') /\ limitWritten' \in Nat
        /\ limitWritten' <= limit
        /\ \A j \in DOMAIN cache :
             \/ j \in pairs'
             \/ j < limitWritten' /\ file'[j + 1] = cache[j].s
    BY <1>12, FlushExact
  <2>2. /\ pc \in {"flush", "close"} /\ pairs' \subseteq pairs
        /\ UNCHANGED <<mode, cache, limit, pc, deleting, scanVars>>
    BY <1>12 DEF FlushGap, FlushRecord
  <2>3. TypeOK' /\ LimitsExact' /\ CacheMatches' /\ CallsOrdered'
    BY <1>0, <2>1, <2>2 DEF TypeOK, LimitsExact, CacheMatches, CallsOrdered,
       Dirty, scanVars
  <2>4. ScanExact'
    BY <1>0, <2>1, <2>2, ScanKept DEF TypeOK
  <2> QED BY <2>3, <2>4 DEF IInv
<1>13. CASE FlushEnd \/ CloseEnd
  <2>1. /\ pc \in {"flush", "close"} /\ pairs = {} /\ cache' = NoEntries
        /\ pc' = "ready" /\ pairs' = {}
        /\ UNCHANGED <<fileVars, limit, deleting, scanVars>>
        /\ \/ mode' = mode
           \/ mode' = "CLOSED" /\ deleting = {} /\ asked = {}
    BY <1>0, <1>13 DEF FlushEnd, CloseEnd, CallsOrdered
  <2>2. \A j \in Int : Packed(j)' = Packed(j)
    BY <2>1, EmptyExact
  <2>3. DOMAIN cache' = {} /\ mode # "CLOSED"
    BY <1>0, <2>1 DEF NoEntries, CallsOrdered
  <2>4. TypeOK' /\ LimitsExact' /\ CacheMatches' /\ CallsOrdered'
    BY <1>0, <2>1, <2>3 DEF TypeOK, LimitsExact, CacheMatches, CallsOrdered,
       Dirty, scanVars, fileVars
  <2>5. ScanExact'
    BY <1>0, <2>1, <2>2, ScanKept DEF TypeOK
  <2> QED BY <2>4, <2>5 DEF IInv
<1>14. CASE UNCHANGED vars
  BY <1>0, <1>14 DEF vars, IInv, TypeOK, LimitsExact, CacheMatches,
     CallsOrdered, ScanExact, Packed, Dirty
<1> QED BY <1>1, <1>2, <1>3, <1>4, <1>5, <1>6, <1>7, <1>8, <1>9, <1>10, <1>11,
           <1>12, <1>13, <1>14 DEF Next

\* The table always holds to its invariant.
THEOREM InvarianceTable == Spec => []IInv
BY InitIInv, NextIInv, PTL DEF Spec
----------------------------------------------------------------------------
(* The refinement. *)

\* A step that changes no record of the table is a stutter of the map, unless
\* it ends a call.
LEMMA ContentKept ==
  ASSUME \A j \in Int : Packed(j)' = Packed(j)
  PROVE  Content' = Content
BY IntIndex DEF Content

\* Every step of the table is a step of the map, or a stutter.
LEMMA StepRefines == IInv /\ IInv' /\ [Next]_vars => [Table!Next]_Table!vars
<1> SUFFICES ASSUME IInv, IInv', [Next]_vars PROVE [Table!Next]_Table!vars
  OBVIOUS
<1> USE IntIndex
<1>0. TypeOK /\ LimitsExact /\ CacheMatches /\ CallsOrdered /\ ScanExact
  BY DEF IInv
<1>1. ASSUME NEW m \in {"NEW", "WRITE", "READ"}, Open(m) PROVE Table!Next
  <2>1. cache = NoEntries /\ cache' = NoEntries /\ DOMAIN cache = {}
    BY <1>0, <1>1 DEF Open, CallsOrdered, NoEntries
  <2>2. mode = "CLOSED" /\ mode' = m /\ answer' = Ok
    BY <1>1 DEF Open
  <2>3. CASE m = "NEW"
    <3>1. limitWritten' = 0
      BY <1>1, <2>3 DEF Open
    <3>2. \A i \in Index : Packed(i)' = Empty
      BY <2>1, <3>1 DEF Packed
    <3>3. Content' = [i \in Index |-> Empty]
      BY <3>2 DEF Content
    <3>4. Table!Open(m)
      BY <2>2, <2>3, <3>3 DEF Table!Open, Ok, Table!Ok
    <3> QED BY <3>4 DEF Table!Next
  <2>4. CASE m # "NEW"
    <3>1. UNCHANGED <<file, limitWritten, cache>>
      BY <1>0, <1>1, <2>1, <2>4 DEF Open, LimitsExact
    <3>2. \A i \in Int : Packed(i)' = Packed(i)
      BY <3>1 DEF Packed
    <3>3. Table!Open(m)
      BY <2>2, <2>4, <3>2, ContentKept DEF Table!Open, Ok, Table!Ok
    <3> QED BY <3>3 DEF Table!Next
  <2> QED BY <2>3, <2>4
<1>2. ASSUME NEW i \in Asked, Get(i) PROVE Table!Next
  <2>1. /\ IsOpen /\ i \in Int /\ GetPackedRecord(i) /\ UNCHANGED fileVars
        /\ mode' = mode /\ mode # "CLOSED"
        /\ answer' = IF Packed(i) = Empty THEN KeyError(i)
                     ELSE Value(i, Packed(i))
    BY <1>2 DEF Get, IsFree, IsOpen
  <2>2. Content' = Content
    BY <2>1, LookupExact, ContentKept DEF IsOpen
  <2>3. CASE Packed(i) = Empty
    <3>1. Table!Miss(i)
      BY <2>1, <2>2, <2>3 DEF Table!Miss, Content, KeyError, Table!KeyError
    <3> QED BY <3>1 DEF Table!Next
  <2>4. CASE Packed(i) # Empty
    <3>1. i \in Index
      BY <1>0, <2>4 DEF Packed, TypeOK, LimitsExact
    <3>2. Table!Get(i)
      BY <2>1, <2>2, <2>4, <3>1 DEF Table!Get, Content, Value, Table!Value
    <3> QED BY <3>1, <3>2 DEF Table!Next
  <2> QED BY <2>3, <2>4
<1>3. ASSUME NEW i \in Index, NEW s \in Record, IsOpen, mode # "READ",
             SetPackedRecord(i, s), UNCHANGED <<mode, fileVars>>, answer' = Ok
      PROVE  Table!Next
  <2>1. \A j \in Index : Packed(j)' = IF j = i THEN s ELSE Packed(j)
    BY <1>3, StoreExact DEF IsOpen
  <2>2. Content' = [Content EXCEPT ![i] = s]
    BY <2>1 DEF Content
  <2>3. mode \in {"NEW", "WRITE"} /\ mode' = mode
    BY <1>0, <1>3 DEF TypeOK, IsOpen
  <2>4. Table!Store(i, s)
    BY <1>3, <2>2, <2>3 DEF Table!Store, Ok, Table!Ok
  <2> QED BY <2>4 DEF Table!Next
<1>4. ASSUME NEW i \in Asked, SetRefused(i) PROVE Table!Next
  <2>1. \A j \in Int : Packed(j)' = Packed(j)
    BY <1>4 DEF SetRefused, Packed
  <2>2. mode # "CLOSED" /\ mode' = mode /\ Content' = Content
    BY <1>4, <2>1, ContentKept DEF SetRefused, MayStore, IsFree, IsOpen
  <2>3. CASE mode = "READ"
    <3>1. Table!Refuse
      BY <1>4, <2>2, <2>3 DEF SetRefused, Table!Refuse, AccessError,
         Table!AccessError
    <3> QED BY <3>1 DEF Table!Next
  <2>4. CASE mode # "READ"
    <3>1. i \notin Index
      BY <1>4, <2>4, TableAssumption DEF SetRefused
    <3>2. Table!Miss(i)
      BY <1>4, <2>2, <2>4, <3>1 DEF SetRefused, Table!Miss, KeyError,
         Table!KeyError
    <3> QED BY <3>2 DEF Table!Next
  <2> QED BY <2>3, <2>4
<1>5. ASSUME NEW i \in Asked, Delete(i) PROVE [Table!Next]_Table!vars
  <2>1. /\ IsOpen /\ i \in Int /\ GetPackedRecord(i) /\ UNCHANGED fileVars
        /\ mode' = mode /\ mode # "CLOSED"
        /\ answer' = IF Packed(i) = Empty THEN KeyError(i) ELSE answer
    BY <1>5 DEF Delete, MayStore, IsFree, IsOpen
  <2>2. Content' = Content
    BY <2>1, LookupExact, ContentKept DEF IsOpen
  <2>3. CASE Packed(i) = Empty
    <3>1. Table!Miss(i)
      BY <2>1, <2>2, <2>3 DEF Table!Miss, Content, KeyError, Table!KeyError
    <3> QED BY <3>1 DEF Table!Next
  <2>4. CASE Packed(i) # Empty
    BY <2>1, <2>2, <2>4 DEF Table!vars
  <2> QED BY <2>3, <2>4
<1>6. ASSUME NEW i \in Index, DeleteFound(i) PROVE Table!Next
  <2>1. /\ IsOpen /\ SetPackedRecord(i, Empty) /\ answer' = Ok
        /\ UNCHANGED <<mode, fileVars>>
    BY <1>6 DEF DeleteFound
  <2>2. mode # "READ" /\ Empty \in Record
    BY <1>0, <1>6, TableAssumption DEF DeleteFound, CallsOrdered
  <2> QED BY <1>3, <2>1, <2>2
<1>7. ASSUME \/ ScanAll
             \/ \E S \in SUBSET Index : ScanSome(S)
             \/ Close
      PROVE  UNCHANGED Table!vars
  <2>1. UNCHANGED <<mode, file, cache, limitWritten, answer>>
    BY <1>7 DEF ScanAll, ScanSome, Close
  <2>2. \A j \in Int : Packed(j)' = Packed(j)
    BY <2>1 DEF Packed
  <2> QED BY <2>1, <2>2, ContentKept DEF Table!vars
<1>8. ASSUME NEW i \in Index, ScanStep(i) PROVE UNCHANGED Table!vars
  <2>1. /\ IsOpen /\ i \in Int /\ GetPackedRecord(i)
        /\ UNCHANGED <<fileVars, mode, answer>>
    BY <1>8 DEF ScanStep, IsFree
  <2> QED BY <2>1, LookupExact, ContentKept DEF IsOpen, Table!vars
<1>9. CASE ScanEnd
  <2>1. /\ mode # "CLOSED" /\ mode' = mode /\ todo = {}
        /\ answer' = Items(asked, found)
        /\ UNCHANGED <<file, cache, limitWritten>>
    BY <1>9 DEF ScanEnd, IsFree, IsOpen
  <2>2. found = {<<j, Packed(j)>> : j \in {k \in asked : Packed(k) # Empty}}
    BY <1>0, <2>1 DEF ScanExact
  <2>3. asked \in SUBSET Index
    BY <1>0 DEF TypeOK
  <2>4. \A j \in asked : Content[j] = Packed(j)
    BY <2>3 DEF Content
  <2>5. found = Table!PairsOf(asked)
    BY <2>2, <2>4 DEF Table!PairsOf
  <2>6. \A j \in Int : Packed(j)' = Packed(j)
    BY <2>1 DEF Packed
  <2>7. Table!GetMany(asked)
    BY <2>1, <2>5, <2>6, ContentKept DEF Table!GetMany, Items, Table!Items
  <2> QED BY <2>3, <2>7 DEF Table!Next
<1>10. ASSUME NEW i \in Index, FlushGap(i) \/ FlushRecord(i)
       PROVE  UNCHANGED Table!vars
  BY <1>10, FlushExact, ContentKept DEF Table!vars, FlushGap, FlushRecord
<1>11. ASSUME FlushEnd \/ CloseEnd PROVE [Table!Next]_Table!vars
  <2>1. /\ pc \in {"flush", "close"} /\ pairs = {} /\ cache' = NoEntries
        /\ UNCHANGED fileVars
    BY <1>11 DEF FlushEnd, CloseEnd
  <2>2. Content' = Content
    BY <2>1, EmptyExact, ContentKept
  <2>3. CASE FlushEnd
    BY <2>2, <2>3 DEF FlushEnd, Table!vars
  <2>4. CASE CloseEnd
    <3>1. mode # "CLOSED"
      BY <1>0, <2>4 DEF CloseEnd, CallsOrdered
    <3>2. Table!Close
      BY <2>2, <2>4, <3>1 DEF CloseEnd, Table!Close, Ok, Table!Ok
    <3> QED BY <3>2 DEF Table!Next
  <2> QED BY <1>11, <2>3, <2>4
<1>12. CASE UNCHANGED vars
  <2>1. \A j \in Int : Packed(j)' = Packed(j)
    BY <1>12 DEF vars, Packed
  <2> QED BY <1>12, <2>1, ContentKept DEF vars, Table!vars
<1>13. ASSUME NEW i \in Index, NEW s \in Record, Set(i, s) PROVE Table!Next
  BY <1>3, <1>13 DEF Set, MayStore, IsFree
<1> QED BY <1>1, <1>2, <1>4, <1>5, <1>6, <1>7, <1>8, <1>9, <1>10, <1>11, <1>12,
           <1>13 DEF Next

\* RecordTable implements TableMap: the cache, the flushes and the gaps of the
\* file are invisible to the callers.
THEOREM RefinesTableMap == Spec => ImplementsMap
<1>1. Init => Table!Init
  <2> SUFFICES ASSUME Init PROVE Table!Init
    OBVIOUS
  <2>1. \A i \in Index : Packed(i) = Empty
    BY DEF Init, Packed, NoEntries
  <2> QED BY <2>1 DEF Init, Table!Init, Content, Ok, Table!Ok
<1> QED BY <1>1, InvarianceTable, StepRefines, PTL
        DEF Spec, ImplementsMap, Table!Spec
----------------------------------------------------------------------------
(* The main file. *)

Cell == (Item \union {NoItem}) \X Nat

\* An object is read at a position when all its cells are there.
ReadsWhole ==
  data \in Seq(Cell) => \A p \in Nat, x \in Item :
    Loaded(p) = x <=> /\ p + SizeOf[x] <= Len(data)
                      /\ \A k \in 1..SizeOf[x] : data[p + k] = <<x, k>>

\* That is what Loaded() says.
LEMMA LoadedWhole == ReadsWhole
<1> SUFFICES ASSUME data \in Seq(Cell), NEW p \in Nat, NEW x \in Item
             PROVE  Loaded(p) = x <=>
                      /\ p + SizeOf[x] <= Len(data)
                      /\ \A k \in 1..SizeOf[x] : data[p + k] = <<x, k>>
  BY DEF ReadsWhole
<1>1. SizeOf[x] \in Nat /\ SizeOf[x] >= 1 /\ Garbled # x
  BY DatabaseAssumption
<1> PICK n \in Nat : n = SizeOf[x] /\ n >= 1
  BY <1>1
<1>2. ASSUME p + n <= Len(data), \A k \in 1..n : data[p + k] = <<x, k>>
      PROVE  Loaded(p) = x
  <2>1. p < Len(data) /\ data[p + 1] = <<x, 1>> /\ data[p + 1][1] = x
    BY <1>2
  <2>2. SubSeq(data, p + 1, p + n) = [k \in 1..n |-> data[p + k]]
    <3>1. 1..(1 + (p + n) - (p + 1)) = 1..n
      OBVIOUS
    <3>2. \A k \in 1..n : (p + 1) + k - 1 = p + k
      OBVIOUS
    <3> QED BY <3>1, <3>2
  <2>3. SubSeq(data, p + 1, p + n) = CellsOf(x)
    BY <1>2, <2>2 DEF CellsOf
  <2> QED BY <1>1, <1>2, <2>1, <2>3 DEF Loaded
<1>3. ASSUME Loaded(p) = x
      PROVE  /\ p + n <= Len(data)
             /\ \A k \in 1..n : data[p + k] = <<x, k>>
  <2>1. /\ p < Len(data) /\ data[p + 1][1] = x
        /\ p + n <= Len(data)
        /\ SubSeq(data, p + 1, p + n) = CellsOf(x)
    BY SMTT(60), <1>1, <1>3 DEF Loaded
  <2>2. \A k \in 1..n : CellsOf(x)[k] = <<x, k>>
    BY DEF CellsOf
  <2>3. \A k \in 1..n : SubSeq(data, p + 1, p + n)[k] = data[p + k]
    BY <2>1
  <2> QED BY <2>1, <2>2, <2>3
<1> QED BY <1>2, <1>3

\* The same of the next state.
LEMMA LoadedWholeNext == ReadsWhole'
BY LoadedWhole, PTL

\* No object begins where the serializer is.
LEMMA NoneAtStart ==
  ASSUME data \in Seq(Cell), data # << >>, data[1] = Header
  PROVE  Loaded(0) \notin Item
BY DatabaseAssumption, LoadedWhole DEF Header, ReadsWhole

\* Writing at the end appends the cells of the object.
LEMMA AppendExact ==
  ASSUME data \in Seq(Cell), NEW item \in Item
  PROVE  LET w == WrittenAt(Len(data), item) IN
         /\ w \in Seq(Cell)
         /\ Len(w) = Len(data) + SizeOf[item]
         /\ \A k \in 1..Len(data) : w[k] = data[k]
         /\ \A k \in 1..SizeOf[item] : w[Len(data) + k] = <<item, k>>
<1>1. SizeOf[item] \in Nat /\ Len(data) \in Nat
  BY DatabaseAssumption
<1> PICK m \in Nat, n \in Nat : m = Len(data) /\ n = SizeOf[item]
  BY <1>1
<1>2. Max({m, m + n}) = m + n
  <2>1. \A y \in {m, m + n} : m + n >= y
    OBVIOUS
  <2>2. \A x \in {m, m + n} : (\A y \in {m, m + n} : x >= y) => x = m + n
    OBVIOUS
  <2>3. Max({m, m + n}) \in {m, m + n} /\ \A y \in {m, m + n} : Max({m, m + n}) >= y
    BY <2>1 DEF Max
  <2> QED BY <2>2, <2>3
<1>3. WrittenAt(Len(data), item) =
        [k \in 1..(m + n) |->
          IF k \in (m + 1)..(m + n) THEN <<item, k - m>> ELSE data[k]]
  BY <1>2 DEF WrittenAt
<1> PICK w : w = WrittenAt(Len(data), item)
  OBVIOUS
<1>4. DOMAIN w = 1..(m + n)
  BY <1>3
<1>5. \A k \in 1..m : w[k] = data[k] /\ data[k] \in Cell
  BY <1>3
<1>6. \A k \in 1..n : w[m + k] = <<item, k>> /\ <<item, k>> \in Cell
  BY <1>3 DEF Cell
<1>7. \A k \in 1..(m + n) : w[k] \in Cell
  <2> TAKE k \in 1..(m + n)
  <2>1. CASE k \in 1..m
    BY <1>5, <2>1
  <2>2. CASE k - m \in 1..n
    <3>1. m + (k - m) = k
      OBVIOUS
    <3> QED BY <1>6, <2>2, <3>1
  <2> QED BY <2>1, <2>2
<1>8. w \in [1..(m + n) -> Cell]
  BY <1>3, <1>7
<1>9. w \in Seq(Cell) /\ Len(w) = m + n
  BY <1>8
<1> QED BY <1>5, <1>6, <1>9

\* What could be read before is read afterwards, and so is the new object.
LEMMA AppendKeeps ==
  ASSUME data \in Seq(Cell), NEW item \in Item,
         data' = WrittenAt(Len(data), item)
  PROVE  /\ data' \in Seq(Cell)
         /\ Len(data') = Len(data) + SizeOf[item]
         /\ data # << >> => data' # << >> /\ data'[1] = data[1]
         /\ \A p \in Nat : Loaded(p) \in Item => Loaded(p)' = Loaded(p)
         /\ \A e \in Nat : e = Len(data) => Loaded(e)' = item
<1>1. Len(data) \in Nat /\ SizeOf[item] \in Nat
  BY DatabaseAssumption
<1>2. /\ data' \in Seq(Cell)
      /\ Len(data') = Len(data) + SizeOf[item]
      /\ \A k \in 1..Len(data) : data'[k] = data[k]
      /\ \A k \in 1..SizeOf[item] : data'[Len(data) + k] = <<item, k>>
  BY AppendExact
<1>3. \A p \in Nat : Loaded(p) \in Item => Loaded(p)' = Loaded(p)
  <2> SUFFICES ASSUME NEW p \in Nat, NEW x \in Item, Loaded(p) = x
               PROVE  Loaded(p)' = x
    OBVIOUS
  <2>1. /\ p + SizeOf[x] <= Len(data) /\ SizeOf[x] \in Nat
        /\ \A k \in 1..SizeOf[x] : data[p + k] = <<x, k>>
    BY DatabaseAssumption, LoadedWhole DEF ReadsWhole
  <2>2. \A k \in 1..SizeOf[x] : data'[p + k] = <<x, k>>
    <3> TAKE k \in 1..SizeOf[x]
    <3>1. p + k \in 1..Len(data)
      BY <1>1, <2>1
    <3>2. data[p + k] = <<x, k>>
      BY <2>1
    <3> QED BY <1>2, <3>1, <3>2
  <2>3. p + SizeOf[x] <= Len(data')
    BY <1>1, <1>2, <2>1
  <2> QED BY <1>2, <2>2, <2>3, LoadedWholeNext DEF ReadsWhole
<1>4. ASSUME NEW e \in Nat, e = Len(data) PROVE Loaded(e)' = item
  <2>1. /\ e + SizeOf[item] <= Len(data')
        /\ \A k \in 1..SizeOf[item] : data'[e + k] = <<item, k>>
    BY <1>1, <1>2, <1>4
  <2> QED BY <1>2, <2>1, LoadedWholeNext DEF ReadsWhole
<1> QED BY <1>1, <1>2, <1>3, <1>4
----------------------------------------------------------------------------
(* The database keeps its invariant. *)

\* A step of the database is a step of its table.
LEMMA TableStep ==
  ASSUME EndKnown, [DatabaseNext]_<<vars, dbVars>>
  PROVE  [Next]_vars
<1>1. Pack(eofp) \in Record
  BY DatabaseAssumption DEF EndKnown, Pack
<1>2. CASE DatabaseNext
  BY <1>1, <1>2 DEF DatabaseNext, Next, OpenDatabase, SetItem, SetItemRefused,
     GetItem, DeleteItem, DeleteItemFound, IterValues, GetMany, NextOffset,
     ValuesEnd, ManyEnd, CloseDatabase, Flush, dbVars
<1>3. CASE UNCHANGED <<vars, dbVars>>
  BY <1>3
<1> QED BY <1>2, <1>3

\* The steps of the table that change none of its records.
LEMMA RecordsKept ==
  ASSUME IInv,
         \/ \E m \in {"WRITE", "READ"} : Open(m)
         \/ \E i \in Asked : Get(i) \/ SetRefused(i) \/ Delete(i)
         \/ ScanAll \/ \E S \in SUBSET Index : ScanSome(S)
         \/ \E i \in Index : ScanStep(i)
         \/ ScanEnd \/ Close
         \/ \E i \in Index : FlushGap(i) \/ FlushRecord(i)
         \/ FlushEnd \/ CloseEnd
         \/ UNCHANGED vars
  PROVE  \A j \in Int : Packed(j)' = Packed(j)
<1>1. ASSUME NEW m \in {"WRITE", "READ"}, Open(m)
      PROVE  UNCHANGED <<file, limitWritten, cache>>
  BY <1>1 DEF Open, IInv, LimitsExact
<1>2. ASSUME NEW i \in Asked, Get(i) \/ Delete(i)
      PROVE  \A j \in Int : Packed(j)' = Packed(j)
  BY <1>2, LookupExact, IntIndex DEF Get, Delete, MayStore, IsFree, IsOpen
<1>3. ASSUME NEW i \in Index, ScanStep(i)
      PROVE  \A j \in Int : Packed(j)' = Packed(j)
  BY <1>3, LookupExact, IntIndex DEF ScanStep, IsFree, IsOpen
<1>4. ASSUME NEW i \in Index, FlushGap(i) \/ FlushRecord(i)
      PROVE  \A j \in Int : Packed(j)' = Packed(j)
  BY <1>4, FlushExact
<1>5. ASSUME FlushEnd \/ CloseEnd
      PROVE  \A j \in Int : Packed(j)' = Packed(j)
  BY <1>5, EmptyExact DEF FlushEnd, CloseEnd
<1>6. ASSUME UNCHANGED <<file, limitWritten, cache>>
      PROVE  \A j \in Int : Packed(j)' = Packed(j)
  BY <1>6 DEF Packed
<1>7. ASSUME \/ \E i \in Asked : SetRefused(i)
             \/ ScanAll \/ \E S \in SUBSET Index : ScanSome(S)
             \/ ScanEnd \/ Close \/ UNCHANGED vars
      PROVE  UNCHANGED <<file, limitWritten, cache>>
  BY <1>7 DEF SetRefused, ScanAll, ScanSome, ScanEnd, Close, vars
<1> QED BY <1>1, <1>2, <1>3, <1>4, <1>5, <1>6, <1>7

\* A new table has no records.
LEMMA NewIsEmpty ==
  ASSUME IInv, Open("NEW")
  PROVE  \A j \in Int : Packed(j)' = Empty
<1>1. DOMAIN cache' = {} /\ limitWritten' = 0
  BY DEF Open, IInv, CallsOrdered, NoEntries
<1> QED BY <1>1 DEF Packed

\* Every record is an offset.
LEMMA PackedIsOffset ==
  ASSUME IInv, NEW i
  PROVE  Packed(i) \in Nat
BY PackedType, DatabaseAssumption DEF IInv

\* Wherever the file is positioned, an object is read at its own offset.
LEMMA FetchedExact ==
  ASSUME EndKnown, NEW offset \in Nat
  PROVE  Fetched(offset) = Loaded(offset)
<1>1. fp = offset => pos = offset
  BY DEF EndKnown, Unknown
<1> QED BY <1>1 DEF Fetched

\* A read leaves the end where it is.
LEMMA EndKept ==
  ASSUME EndKnown, UNCHANGED <<data, eofp>>,
         fp' = Unknown \/ UNCHANGED <<pos, fp>>
  PROVE  EndKnown'
BY DEF EndKnown

\* While neither a record nor the main file changes, neither do the objects.
LEMMA ObjectsKept ==
  ASSUME PointsToObjects, \A j \in Int : Packed(j)' = Packed(j),
         UNCHANGED data
  PROVE  /\ PointsToObjects'
         /\ Objects' = Objects
         /\ \A j \in Index : Loaded(Packed(j))' = Loaded(Packed(j))
<1>1. \A j \in Index : Packed(j)' = Packed(j)
  BY IntIndex
<1>2. \A j \in Index : Loaded(Packed(j))' = Loaded(Packed(j))
  BY <1>1 DEF Loaded
<1> QED BY <1>1, <1>2 DEF PointsToObjects, Objects

\* What a pass has read stays what is stored ...
LEMMA CollectedKept ==
  ASSUME CollectedExact, asked \subseteq Index,
         \A j \in Int : Packed(j)' = Packed(j), UNCHANGED data,
         UNCHANGED <<asked, todo, collecting, collected>>
  PROVE  CollectedExact'
<1>1. \A j \in asked : Packed(j)' = Packed(j)
  BY IntIndex
<1>2. \A j \in asked : Loaded(Packed(j))' = Loaded(Packed(j))
  BY <1>1 DEF Loaded
<1> QED BY <1>1, <1>2 DEF CollectedExact

\* ... and between two passes there is nothing.
LEMMA CollectedNone ==
  ASSUME CollectedExact, asked = {}, UNCHANGED <<asked, collecting, collected>>
  PROVE  CollectedExact'
BY DEF CollectedExact

\* An object is stored where the main file ends.
LEMMA SetItemExact ==
  ASSUME DatabaseIInv, NEW i \in Index, NEW item \in Item, SetItem(i, item)
  PROVE  /\ EndKnown'
         /\ PointsToObjects'
         /\ Objects' = [Objects EXCEPT ![i] = item]
<1>1. /\ IInv /\ EndKnown /\ PointsToObjects
      /\ Len(data) \in Nat /\ eofp = Len(data) /\ data \in Seq(Cell)
      /\ data # << >> /\ data[1] = Header
  BY DEF DatabaseIInv, EndKnown, Cell
<1>2. SizeOf[item] \in Nat /\ SizeOf[item] >= 1
  BY DatabaseAssumption
<1> PICK e \in Nat : e = Len(data)
  BY <1>1
<1>3. e >= 1 /\ Pack(e) = e /\ e # Empty
  <2>1. e + SizeOf[item] <= MaxSize
    BY <1>1 DEF SetItem
  <2>2. e < OffsetLimit /\ e >= 1
    BY <1>1, <1>2, <2>1, DatabaseAssumption
  <2> QED BY <2>2, DatabaseAssumption DEF Pack
<1>4. /\ data' = WrittenAt(Len(data), item)
      /\ pos' = e + SizeOf[item] /\ eofp' = e + SizeOf[item] /\ fp' = eofp'
  BY <1>1 DEF SetItem, EndKnown, Unknown
<1>5. /\ data' \in Seq(Cell)
      /\ Len(data') = e + SizeOf[item]
      /\ data' # << >> /\ data'[1] = Header
      /\ \A p \in Nat : Loaded(p) \in Item => Loaded(p)' = Loaded(p)
      /\ Loaded(e)' = item
  BY <1>1, <1>4, AppendKeeps
<1>6. EndKnown'
  BY <1>4, <1>5 DEF EndKnown, Cell
<1>7. \A j \in Index : Packed(j)' = IF j = i THEN e ELSE Packed(j)
  <2>1. /\ IsOpen /\ SetPackedRecord(i, Pack(eofp)) /\ UNCHANGED fileVars
        /\ Pack(eofp) \in Record
    BY DatabaseAssumption, <1>1 DEF SetItem, Set, MayStore, IsFree, Pack
  <2> QED BY <1>1, <1>3, <2>1, StoreExact, IntIndex DEF IsOpen
<1>8. Loaded(Packed(i))' = item /\ Packed(i)' # Empty
  <2>1. Packed(i)' = e
    BY <1>7
  <2> QED BY <1>3, <1>5, <2>1 DEF Loaded
<1>9. ASSUME NEW j \in Index, j # i
      PROVE  /\ Packed(j)' = Packed(j)
             /\ Packed(j) # Empty =>
                  Loaded(Packed(j))' = Loaded(Packed(j)) /\ Loaded(Packed(j)) \in Item
  <2>1. Packed(j)' = Packed(j)
    BY <1>7, <1>9
  <2> PICK p \in Nat : p = Packed(j)
    BY <1>1, PackedIsOffset
  <2>2. Packed(j) # Empty => Loaded(p)' = Loaded(p) /\ Loaded(p) \in Item
    BY <1>1, <1>5 DEF PointsToObjects
  <2> QED BY SMTT(60), <2>1, <2>2 DEF Loaded
<1>10. PointsToObjects'
  BY <1>8, <1>9 DEF PointsToObjects
<1>11. Objects' = [Objects EXCEPT ![i] = item]
  BY <1>8, <1>9 DEF Objects
<1> QED BY <1>6, <1>10, <1>11
\* A new database holds to its invariant.
LEMMA InitDatabaseIInv == DatabaseInit => DatabaseIInv
<1> SUFFICES ASSUME DatabaseInit PROVE DatabaseIInv
  OBVIOUS
<1>1. IInv
  BY InitIInv DEF DatabaseInit
<1>2. EndKnown
  BY DEF DatabaseInit, EndKnown, Header
<1>3. \A i \in Index : Packed(i) = Empty
  BY DEF DatabaseInit, Init, Packed, NoEntries
<1>4. PointsToObjects
  BY <1>3 DEF PointsToObjects
<1>5. CollectedExact
  BY DEF DatabaseInit, Init, CollectedExact
<1> QED BY <1>1, <1>2, <1>4, <1>5 DEF DatabaseIInv

\* Every step keeps the invariant: the end stays known, no offset comes to
\* point into the middle of an object, and a pass has read what is stored.
LEMMA NextDatabaseIInv ==
  DatabaseIInv /\ [DatabaseNext]_<<vars, dbVars>> => DatabaseIInv'
<1> SUFFICES ASSUME DatabaseIInv, [DatabaseNext]_<<vars, dbVars>>
             PROVE  DatabaseIInv'
  OBVIOUS
<1>0. IInv /\ EndKnown /\ PointsToObjects /\ CollectedExact /\ asked \subseteq Index
  BY DEF DatabaseIInv, IInv, TypeOK
<1>a. IInv'
  BY <1>0, TableStep, NextIInv
<1> DEFINE Rest == EndKnown' /\ PointsToObjects' /\ CollectedExact'
<1> SUFFICES Rest
  BY <1>a DEF DatabaseIInv
\* The steps that change neither a record, nor the main file, nor the pass.
<1>b. ASSUME \A j \in Int : Packed(j)' = Packed(j), UNCHANGED <<data, eofp>>,
             fp' = Unknown \/ UNCHANGED <<pos, fp>>,
             UNCHANGED <<asked, todo, collecting, collected>>
      PROVE  Rest
  BY <1>0, <1>b, EndKept, ObjectsKept, CollectedKept
<1>1. ASSUME NEW m \in {"NEW", "WRITE", "READ"}, OpenDatabase(m) PROVE Rest
  <2>1. /\ Open(m) /\ asked = {} /\ UNCHANGED <<asked, collecting, collected>>
        /\ data' = IF m = "NEW" THEN <<Header>> ELSE data
        /\ pos' = Len(data') /\ fp' = Len(data') /\ eofp' = Len(data')
    BY <1>0, <1>1 DEF OpenDatabase, Open, scanVars, IInv, CallsOrdered
  <2>2. EndKnown'
    <3>1. CASE m = "NEW"
      <4>1. data' = <<Header>> /\ Header \in (Item \union {NoItem}) \X Nat
        BY <2>1, <3>1 DEF Header
      <4>2. Len(data') = 1 /\ data'[1] = Header /\ data' # << >>
            /\ data' \in Seq((Item \union {NoItem}) \X Nat)
        BY <4>1
      <4> QED BY <2>1, <4>2 DEF EndKnown
    <3>2. CASE m # "NEW"
      BY <1>0, <2>1, <3>2 DEF EndKnown
    <3> QED BY <3>1, <3>2
  <2>3. CASE m = "NEW"
    BY <1>0, <2>1, <2>2, <2>3, NewIsEmpty, CollectedNone, IntIndex
       DEF PointsToObjects
  <2>4. CASE m # "NEW"
    <3>1. \A j \in Int : Packed(j)' = Packed(j)
      BY <1>0, <2>1, <2>4, RecordsKept
    <3> QED BY <1>0, <2>1, <2>2, <2>4, <3>1, ObjectsKept, CollectedNone
  <2> QED BY <2>3, <2>4
<1>2. ASSUME NEW i \in Index, NEW item \in Item, SetItem(i, item) PROVE Rest
  <2>1. asked = {} /\ UNCHANGED <<asked, collecting, collected>>
    BY <1>2 DEF SetItem, Set, MayStore, scanVars
  <2> QED BY <1>0, <1>2, <2>1, SetItemExact, CollectedNone
<1>3. ASSUME NEW i \in Asked, SetItemRefused(i) PROVE Rest
  <2>1. \A j \in Int : Packed(j)' = Packed(j)
    BY <1>0, <1>3, RecordsKept DEF SetItemRefused
  <2>2. /\ UNCHANGED <<data, fp, eofp, asked, todo, collecting, collected>>
        /\ pos' = IF fp # eofp THEN eofp ELSE pos
    BY <1>3 DEF SetItemRefused, SetRefused, scanVars
  <2>3. EndKnown'
    BY <1>0, <2>2 DEF EndKnown
  <2> QED BY <1>0, <2>1, <2>2, <2>3, ObjectsKept, CollectedKept
<1>4. ASSUME NEW i \in Asked, GetItem(i) PROVE Rest
  <2>1. \A j \in Int : Packed(j)' = Packed(j)
    BY <1>0, <1>4, RecordsKept DEF GetItem
  <2>2. /\ UNCHANGED <<data, eofp, asked, todo, collecting, collected>>
        /\ fp' = Unknown \/ UNCHANGED <<pos, fp>>
    BY <1>4 DEF GetItem, Get, Fetch, dataVars, scanVars
  <2> QED BY <1>b, <2>1, <2>2
<1>5. ASSUME NEW i \in Asked, DeleteItem(i) PROVE Rest
  <2>1. \A j \in Int : Packed(j)' = Packed(j)
    BY <1>0, <1>5, RecordsKept DEF DeleteItem
  <2>2. UNCHANGED <<data, eofp, pos, fp, asked, todo, collecting, collected>>
    BY <1>5 DEF DeleteItem, Delete, dataVars, scanVars
  <2> QED BY <1>b, <2>1, <2>2
<1>6. ASSUME NEW i \in Index, DeleteItemFound(i) PROVE Rest
  <2>1. /\ asked = {} /\ UNCHANGED <<dataVars, asked, collecting, collected>>
        /\ IsOpen /\ SetPackedRecord(i, Empty) /\ UNCHANGED fileVars
    BY <1>0, <1>6 DEF DeleteItemFound, DeleteFound, scanVars, IInv, CallsOrdered
  <2>2. \A j \in Index : Packed(j)' = IF j = i THEN Empty ELSE Packed(j)
    BY <1>0, <2>1, StoreExact, IntIndex, TableAssumption DEF IsOpen
  <2>3. PointsToObjects'
    BY <1>0, <2>1, <2>2 DEF PointsToObjects, Loaded, dataVars
  <2> QED BY <1>0, <2>1, <2>3, EndKept, CollectedNone DEF dataVars
<1>7. CASE IterValues
  <2>1. /\ ScanAll /\ asked = {} /\ asked' = Index /\ Index # {} /\ found' = {}
        /\ collecting' = TRUE /\ UNCHANGED <<data, pos, fp, eofp, collected>>
    BY <1>7 DEF IterValues, ScanAll, MayStore, dataVars
  <2>2. \A j \in Int : Packed(j)' = Packed(j)
    BY <1>0, <2>1, RecordsKept
  <2>3. collected' = {}
    BY <1>0, <2>1 DEF CollectedExact
  <2>4. {j \in asked' \ todo' : Packed(j)' # Empty} = {}
    BY <1>a, <2>1 DEF IInv, ScanExact
  <2>5. CollectedExact'
    BY <2>1, <2>3, <2>4 DEF CollectedExact
  <2> QED BY <1>0, <2>1, <2>2, <2>5, EndKept, ObjectsKept
<1>8. ASSUME NEW S \in SUBSET Index, GetMany(S) PROVE Rest
  <2>1. /\ ScanSome(S) /\ asked = {} /\ asked' = S /\ S # {}
        /\ collecting' = FALSE /\ UNCHANGED <<data, pos, fp, eofp, collected>>
    BY <1>8 DEF GetMany, ScanSome, MayStore, dataVars
  <2>2. \A j \in Int : Packed(j)' = Packed(j)
    BY <1>0, <2>1, RecordsKept
  <2>3. collected' = {}
    BY <1>0, <2>1 DEF CollectedExact
  <2>4. CollectedExact'
    BY <2>1, <2>3 DEF CollectedExact
  <2> QED BY <1>0, <2>1, <2>2, <2>4, EndKept, ObjectsKept
<1>9. ASSUME NEW i \in Index, NextOffset(i) PROVE Rest
  <2>1. /\ ScanStep(i) /\ i \in todo /\ todo' = todo \ {i}
        /\ UNCHANGED <<asked, collecting, data, eofp>>
        /\ fp' = Unknown \/ UNCHANGED <<pos, fp>>
        /\ collected' = IF collecting /\ Packed(i) # Empty
                        THEN collected \union {<<i, Fetched(Packed(i))>>}
                        ELSE collected
    BY <1>9 DEF NextOffset, ScanStep, Fetch, dataVars
  <2>2. \A j \in Int : Packed(j)' = Packed(j)
    BY <1>0, <2>1, RecordsKept
  <2>3. \A j \in Index : Packed(j)' = Packed(j)
    BY <2>2, IntIndex
  <2>4. \A j \in Index : Loaded(Packed(j))' = Loaded(Packed(j))
    BY <1>0, <2>1, <2>2, ObjectsKept
  <2>5. Fetched(Packed(i)) = Loaded(Packed(i))
    <3> PICK p \in Nat : p = Packed(i)
      BY <1>0, PackedIsOffset
    <3> QED BY <1>0, FetchedExact
  <2>6. CollectedExact'
    <3>1. CASE collecting
      <4>1. collected = {<<j, Loaded(Packed(j))>> :
                           j \in {k \in asked \ todo : Packed(k) # Empty}}
        BY <1>0, <3>1 DEF CollectedExact
      <4>2. asked \ todo' = (asked \ todo) \union {i}
        BY <1>0, <2>1 DEF IInv, TypeOK
      <4>3. collected' = {<<j, Loaded(Packed(j))>> :
                            j \in {k \in asked \ todo' : Packed(k) # Empty}}
        BY <2>1, <2>5, <3>1, <4>1, <4>2
      <4>4. \A j \in asked \ todo' : Packed(j)' = Packed(j)
              /\ Loaded(Packed(j))' = Loaded(Packed(j))
        BY <1>0, <2>3, <2>4
      <4>5. collected' = {<<j, Loaded(Packed(j))'>> :
                            j \in {k \in asked' \ todo' : Packed(k)' # Empty}}
        BY <2>1, <4>3, <4>4
      <4> QED BY <1>0, <2>1, <3>1, <4>5 DEF CollectedExact
    <3>2. CASE ~ collecting
      BY <1>0, <2>1, <3>2 DEF CollectedExact
    <3> QED BY <3>1, <3>2
  <2> QED BY <1>0, <2>1, <2>2, <2>6, EndKept, ObjectsKept
<1>10. CASE ValuesEnd
  <2>1. /\ ScanEnd /\ collecting' = FALSE /\ collected' = {}
        /\ UNCHANGED <<data, pos, fp, eofp>>
    BY <1>10 DEF ValuesEnd, dataVars
  <2>2. \A j \in Int : Packed(j)' = Packed(j)
    BY <1>0, <2>1, RecordsKept
  <2> QED BY <1>0, <2>1, <2>2, EndKept, ObjectsKept DEF CollectedExact
<1>11. CASE ManyEnd
  <2>1. /\ ScanEnd /\ ~ collecting /\ UNCHANGED <<data, eofp, collecting, collected>>
        /\ fp' = Unknown \/ UNCHANGED <<pos, fp>>
    BY <1>11 DEF ManyEnd, Fetch, dataVars
  <2>2. \A j \in Int : Packed(j)' = Packed(j)
    BY <1>0, <2>1, RecordsKept
  <2>3. CollectedExact'
    BY <1>0, <2>1 DEF CollectedExact
  <2> QED BY <1>0, <2>1, <2>2, <2>3, EndKept, ObjectsKept
<1>12. ASSUME CloseDatabase \/ Flush \/ UNCHANGED <<vars, dbVars>> PROVE Rest
  <2>1. \A j \in Int : Packed(j)' = Packed(j)
    BY <1>0, <1>12, RecordsKept DEF CloseDatabase, Flush
  <2>2. /\ UNCHANGED <<data, pos, fp, eofp, collecting, collected>>
        /\ UNCHANGED <<asked, todo>>
    BY <1>12 DEF CloseDatabase, Flush, Close, FlushGap, FlushRecord, FlushEnd,
       CloseEnd, vars, dbVars, dataVars, scanVars
  <2> QED BY <1>b, <2>1, <2>2
<1> HIDE DEF Rest
<1> QED BY <1>1, <1>2, <1>3, <1>4, <1>5, <1>6, <1>7, <1>8, <1>9, <1>10, <1>11,
           <1>12 DEF DatabaseNext

\* The database always holds to its invariant, and so does its table.
THEOREM InvarianceDatabase == DatabaseSpec => []DatabaseIInv
BY InitDatabaseIInv, NextDatabaseIInv, PTL DEF DatabaseSpec
----------------------------------------------------------------------------
(* The refinement of the map of objects. *)

\* Every step of the database is a step of the map of objects, or a stutter.
LEMMA DatabaseStepRefines ==
  DatabaseIInv /\ [DatabaseNext]_<<vars, dbVars>> => [Store!Next]_Store!vars
<1> SUFFICES ASSUME DatabaseIInv, [DatabaseNext]_<<vars, dbVars>>
             PROVE  [Store!Next]_Store!vars
  OBVIOUS
<1>0. /\ IInv /\ EndKnown /\ PointsToObjects /\ CollectedExact
      /\ TypeOK /\ CallsOrdered /\ asked \subseteq Index /\ Index \subseteq Int
      /\ Asked \subseteq Int
  BY IntIndex DEF DatabaseIInv, IInv, TypeOK
<1>a. \A i \in Index : Objects[i] = IF Packed(i) = Empty THEN NoItem
                                    ELSE Loaded(Packed(i))
  BY DEF Objects
<1>b. \A i \in Index : Packed(i) # Empty => Objects[i] \in Item /\ Objects[i] # NoItem
  BY <1>0, <1>a, DatabaseAssumption DEF PointsToObjects
\* The steps that change neither a record nor the main file.
<1>c. ASSUME \A j \in Int : Packed(j)' = Packed(j), UNCHANGED data
      PROVE  Objects' = Objects
  BY <1>0, <1>c, ObjectsKept
<1>1. ASSUME NEW m \in {"NEW", "WRITE", "READ"}, OpenDatabase(m) PROVE Store!Next
  <2>1. /\ Open(m) /\ mode = "CLOSED" /\ mode' = m /\ got' = Ok
        /\ data' = IF m = "NEW" THEN <<Header>> ELSE data
    BY <1>1 DEF OpenDatabase, Open
  <2>2. CASE m = "NEW"
    <3>1. \A i \in Index : Packed(i)' = Empty
      BY <1>0, <2>1, <2>2, NewIsEmpty
    <3>2. Objects' = [i \in Index |-> NoItem]
      BY <3>1 DEF Objects
    <3>3. Store!Open(m)
      BY <2>1, <2>2, <3>2 DEF Store!Open, Ok, Store!Ok
    <3> QED BY <3>3 DEF Store!Next
  <2>3. CASE m # "NEW"
    <3>1. Objects' = Objects
      BY <1>0, <1>c, <2>1, <2>3, RecordsKept
    <3>2. Store!Open(m)
      BY <2>1, <2>3, <3>1 DEF Store!Open, Ok, Store!Ok
    <3> QED BY <3>2 DEF Store!Next
  <2> QED BY <2>2, <2>3
<1>2. ASSUME NEW i \in Index, NEW item \in Item, SetItem(i, item) PROVE Store!Next
  <2>1. Objects' = [Objects EXCEPT ![i] = item]
    BY <1>2, SetItemExact
  <2>2. mode \in {"NEW", "WRITE"} /\ mode' = mode /\ got' = Ok
    BY <1>0, <1>2 DEF SetItem, Set, MayStore, IsFree, IsOpen, TypeOK
  <2>3. Store!Store(i, item)
    BY <2>1, <2>2 DEF Store!Store, Ok, Store!Ok
  <2> QED BY <2>3 DEF Store!Next
<1>3. ASSUME NEW i \in Asked, SetItemRefused(i) PROVE Store!Next
  <2>1. /\ SetRefused(i) /\ UNCHANGED data /\ mode # "CLOSED" /\ mode' = mode
        /\ mode = "READ" \/ i < 0
        /\ got' = IF mode = "READ" THEN AccessError ELSE KeyError(i)
    BY <1>3 DEF SetItemRefused, SetRefused, MayStore, IsFree, IsOpen
  <2>2. Objects' = Objects
    BY <1>0, <1>c, <2>1, RecordsKept
  <2>3. CASE mode = "READ"
    <3>1. Store!Refuse
      BY <2>1, <2>2, <2>3 DEF Store!Refuse, AccessError, Store!AccessError
    <3> QED BY <3>1 DEF Store!Next
  <2>4. CASE mode # "READ"
    <3>1. i \notin Index
      BY <2>1, <2>4, TableAssumption
    <3>2. Store!Miss(i)
      BY <2>1, <2>2, <2>4, <3>1 DEF Store!Miss, KeyError, Store!KeyError
    <3> QED BY <3>2 DEF Store!Next
  <2> QED BY <2>3, <2>4
<1>4. ASSUME NEW i \in Asked, GetItem(i) PROVE Store!Next
  <2>1. /\ Get(i) /\ UNCHANGED data /\ mode # "CLOSED" /\ mode' = mode
        /\ got' = IF Packed(i) # Empty THEN Value(i, Fetched(Packed(i)))
                  ELSE KeyError(i)
    BY <1>4 DEF GetItem, Get, Fetch, dataVars, IsFree, IsOpen
  <2>2. Objects' = Objects
    BY <1>0, <1>c, <2>1, RecordsKept
  <2>3. CASE Packed(i) = Empty
    <3>1. i \in Index => Objects[i] = NoItem
      BY <1>a, <2>3
    <3>2. Store!Miss(i)
      BY <2>1, <2>2, <2>3, <3>1 DEF Store!Miss, KeyError, Store!KeyError
    <3> QED BY <3>2 DEF Store!Next
  <2>4. CASE Packed(i) # Empty
    <3>1. i \in Index
      BY <1>0, <2>4 DEF Packed, IInv, TypeOK, LimitsExact
    <3>2. Fetched(Packed(i)) = Loaded(Packed(i))
      <4> PICK p \in Nat : p = Packed(i)
        BY <1>0, PackedIsOffset
      <4> QED BY <1>0, FetchedExact
    <3>3. Objects[i] = Loaded(Packed(i)) /\ Objects[i] # NoItem
      BY <1>a, <1>b, <2>4, <3>1
    <3>4. Store!Get(i)
      BY <2>1, <2>2, <2>4, <3>2, <3>3 DEF Store!Get, Value, Store!Value
    <3> QED BY <3>1, <3>4 DEF Store!Next
  <2> QED BY <2>3, <2>4
<1>5. ASSUME NEW i \in Asked, DeleteItem(i) PROVE [Store!Next]_Store!vars
  <2>1. /\ Delete(i) /\ UNCHANGED data /\ mode # "CLOSED" /\ mode' = mode
        /\ got' = IF Packed(i) = Empty THEN KeyError(i) ELSE got
    BY <1>5 DEF DeleteItem, Delete, dataVars, MayStore, IsFree, IsOpen
  <2>2. Objects' = Objects
    BY <1>0, <1>c, <2>1, RecordsKept
  <2>3. CASE Packed(i) = Empty
    <3>1. i \in Index => Objects[i] = NoItem
      BY <1>a, <2>3
    <3>2. Store!Miss(i)
      BY <2>1, <2>2, <2>3, <3>1 DEF Store!Miss, KeyError, Store!KeyError
    <3> QED BY <3>2 DEF Store!Next
  <2>4. CASE Packed(i) # Empty
    BY <2>1, <2>2, <2>4 DEF Store!vars
  <2> QED BY <2>3, <2>4
<1>6. ASSUME NEW i \in Index, DeleteItemFound(i) PROVE Store!Next
  <2>1. /\ IsOpen /\ SetPackedRecord(i, Empty) /\ UNCHANGED <<data, fileVars>>
        /\ mode' = mode /\ got' = Ok /\ mode \in {"NEW", "WRITE"}
    BY <1>0, <1>6 DEF DeleteItemFound, DeleteFound, dataVars, CallsOrdered, TypeOK
  <2>2. \A j \in Index : Packed(j)' = IF j = i THEN Empty ELSE Packed(j)
    BY <1>0, <2>1, StoreExact, TableAssumption DEF IsOpen
  <2>3. Objects' = [Objects EXCEPT ![i] = NoItem]
    BY <2>1, <2>2 DEF Objects, Loaded
  <2>4. Store!Store(i, NoItem)
    BY <2>1, <2>3 DEF Store!Store, Ok, Store!Ok
  <2> QED BY <2>4 DEF Store!Next
<1>7. ASSUME \/ IterValues
             \/ \E S \in SUBSET Index : GetMany(S)
             \/ \E i \in Index : NextOffset(i)
             \/ CloseDatabase
             \/ Flush /\ ~ CloseEnd
             \/ UNCHANGED <<vars, dbVars>>
      PROVE  UNCHANGED Store!vars
  <2>1. \A j \in Int : Packed(j)' = Packed(j)
    BY <1>0, <1>7, RecordsKept
       DEF IterValues, GetMany, NextOffset, CloseDatabase, Flush
  <2>2. UNCHANGED <<data, mode, got>>
    BY <1>7 DEF IterValues, GetMany, NextOffset, CloseDatabase, Flush, Fetch,
       ScanAll, ScanSome, ScanStep, Close, FlushGap, FlushRecord, FlushEnd, vars,
       dbVars, dataVars
  <2> QED BY <1>c, <2>1, <2>2 DEF Store!vars
<1>8. CASE ValuesEnd \/ ManyEnd
  <2>1. /\ ScanEnd /\ UNCHANGED <<data, mode>> /\ mode # "CLOSED" /\ todo = {}
        /\ asked \in SUBSET Index
    BY <1>0, <1>8 DEF ValuesEnd, ManyEnd, ScanEnd, Fetch, dataVars, IsFree, IsOpen
  <2>2. Objects' = Objects
    BY <1>0, <1>c, <2>1, RecordsKept
  <2>3. found = {<<j, Packed(j)>> : j \in {k \in asked : Packed(k) # Empty}}
    BY <1>0, <2>1 DEF IInv, ScanExact
  <2>4. \A j \in asked : Packed(j) # Empty <=> Objects[j] # NoItem
    BY <1>0, <1>a, <1>b
  <2>5. {<<j, Loaded(Packed(j))>> : j \in {k \in asked : Packed(k) # Empty}}
          = Store!PairsOf(asked)
    BY <1>0, <1>a, <2>4 DEF Store!PairsOf
  <2>6. got' = Items(asked, Store!PairsOf(asked))
    <3>1. CASE ValuesEnd
      <4>1. collected = {<<j, Loaded(Packed(j))>> :
                           j \in {k \in asked : Packed(k) # Empty}}
        BY <1>0, <2>1, <3>1 DEF ValuesEnd, CollectedExact
      <4> QED BY <2>5, <3>1, <4>1 DEF ValuesEnd
    <3>2. CASE ManyEnd
      <4>1. {<<pair[1], Loaded(pair[2])>> : pair \in found}
              = {<<j, Loaded(Packed(j))>> : j \in {k \in asked : Packed(k) # Empty}}
        <5> DEFINE K == {k \in asked : Packed(k) # Empty}
        <5>1. \A pair \in found : \E j \in K :
                pair = <<j, Packed(j)>> /\ pair[1] = j /\ pair[2] = Packed(j)
          BY <2>3
        <5>2. \A j \in K : \E pair \in found :
                pair = <<j, Packed(j)>> /\ pair[1] = j /\ pair[2] = Packed(j)
          <6> TAKE j \in K
          <6>1. <<j, Packed(j)>> \in found
            BY <2>3
          <6> QED BY <6>1
        <5> HIDE DEF K
        <5>3. {<<pair[1], Loaded(pair[2])>> : pair \in found}
                \subseteq {<<j, Loaded(Packed(j))>> : j \in K}
          BY <5>1
        <5>4. {<<j, Loaded(Packed(j))>> : j \in K}
                \subseteq {<<pair[1], Loaded(pair[2])>> : pair \in found}
          BY <5>2
        <5> QED BY <5>3, <5>4 DEF K
      <4> QED BY <2>5, <3>2, <4>1 DEF ManyEnd
    <3> QED BY <1>8, <3>1, <3>2
  <2>7. Store!GetMany(asked)
    BY <2>1, <2>2, <2>6 DEF Store!GetMany, Items, Store!Items
  <2> QED BY <2>1, <2>7 DEF Store!Next
<1>9. CASE Flush /\ CloseEnd
  <2>1. /\ CloseEnd /\ mode # "CLOSED" /\ mode' = "CLOSED" /\ UNCHANGED data
    BY <1>0, <1>9 DEF Flush, CloseEnd, FlushGap, FlushRecord, FlushEnd,
       CallsOrdered, dbVars, dataVars
  <2>2. Objects' = Objects
    BY <1>0, <1>c, <2>1, RecordsKept
  <2>3. got' = Ok
    BY <1>9 DEF Flush, CloseEnd, FlushGap, FlushRecord, FlushEnd
  <2>4. Store!Close
    BY <2>1, <2>2, <2>3 DEF Store!Close, Ok, Store!Ok
  <2> QED BY <2>4 DEF Store!Next
<1> QED BY <1>1, <1>2, <1>3, <1>4, <1>5, <1>6, <1>7, <1>8, <1>9 DEF DatabaseNext

\* IndexedDatabase implements TableMap with objects for records: whatever is
\* appended, overwritten, deleted, read or flushed, every index has the object
\* that was last stored under it.
THEOREM RefinesStore == DatabaseSpec => ImplementsStore
<1>1. DatabaseInit => Store!Init
  <2> SUFFICES ASSUME DatabaseInit PROVE Store!Init
    OBVIOUS
  <2>1. \A i \in Index : Packed(i) = Empty
    BY DEF DatabaseInit, Init, Packed, NoEntries
  <2> QED BY <2>1 DEF DatabaseInit, Init, Store!Init, Objects, Ok, Store!Ok
<1> QED BY <1>1, InvarianceDatabase, DatabaseStepRefines, PTL
        DEF DatabaseSpec, ImplementsStore, Store!Spec
=============================================================================

------------------------------ MODULE TableMap ------------------------------
(***************************************************************************)
(* What a table on disk promises its callers, whether it is a RecordTable  *)
(* of fixed-length records or an IndexedDatabase of objects: it is a map   *)
(* from small non-negative integers to records, it can be closed and       *)
(* opened again without losing anything, and nothing the caller can see    *)
(* tells when a record is cached, written or read back.                    *)
(***************************************************************************)
CONSTANTS
  Index,        \* the indexes that may be stored, a set of naturals
  Asked,        \* the indexes that may be asked for
  Record,       \* what may be stored
  Empty         \* the record that stands for "not set"

VARIABLES
  content,      \* the record of every index, Empty if it has none
  mode,         \* how the table is open, or "CLOSED"
  answer        \* what the last call returned or raised

vars == <<content, mode, answer>>

Ok == <<"ok">>
KeyError(i) == <<"KeyError", i>>
AccessError == <<"RecordTableAccessError">>
Value(i, r) == <<"value", i, r>>

\* The pairs of the indexes of S that are set.
PairsOf(S) == {<<i, content[i]>> : i \in {j \in S : content[j] # Empty}}
Items(S, pairs) == <<"items", S, pairs>>

Init ==
  /\ content = [i \in Index |-> Empty]
  /\ mode = "NEW"
  /\ answer = Ok

Open(m) ==
  /\ mode = "CLOSED"
  /\ mode' = m
  /\ content' = IF m = "NEW" THEN [i \in Index |-> Empty] ELSE content
  /\ answer' = Ok

Close ==
  /\ mode # "CLOSED"
  /\ mode' = "CLOSED"
  /\ answer' = Ok
  /\ UNCHANGED content

Get(i) ==
  /\ mode # "CLOSED"
  /\ content[i] # Empty
  /\ answer' = Value(i, content[i])
  /\ UNCHANGED <<content, mode>>

\* No call finds what is not there, and none may store at a negative index.
Miss(i) ==
  /\ mode # "CLOSED"
  /\ i \in Index => content[i] = Empty
  /\ answer' = KeyError(i)
  /\ UNCHANGED <<content, mode>>

\* Store a record or, with r = Empty, forget the one that is there.
Store(i, r) ==
  /\ mode \in {"NEW", "WRITE"}
  /\ content' = [content EXCEPT ![i] = r]
  /\ answer' = Ok
  /\ UNCHANGED mode

\* A table that is open for reading is not changed.
Refuse ==
  /\ mode = "READ"
  /\ answer' = AccessError
  /\ UNCHANGED <<content, mode>>

\* All records, or those of some indexes, in the order of the indexes.
GetMany(S) ==
  /\ mode # "CLOSED"
  /\ answer' = Items(S, PairsOf(S))
  /\ UNCHANGED <<content, mode>>

Next ==
  \/ \E m \in {"NEW", "WRITE", "READ"} : Open(m)
  \/ Close
  \/ \E i \in Index : Get(i)
  \/ \E i \in Asked : Miss(i)
  \/ \E i \in Index, r \in Record : Store(i, r)
  \/ Refuse
  \/ \E S \in SUBSET Index : GetMany(S)

Spec == Init /\ [][Next]_vars
=============================================================================

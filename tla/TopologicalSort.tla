-------------------------- MODULE TopologicalSort --------------------------
(***************************************************************************)
(* TopologicalSortPass (passes.py) and Timestamper (common.py): all the    *)
(* changesets are put in the order in which they will be committed, and    *)
(* each gets the time of its commit, a second or more after the one        *)
(* before.                                                                 *)
(***************************************************************************)
EXTENDS ChangesetGraph

CONSTANT MaxTimestamp   \* Timestamper.max_timestamp: a day from now

VARIABLES
  pc,                 \* "load", "consume" or "done"
  unread,             \* ids of source changesets that have not been read yet
  timestamp,          \* Timestamper.timestamp: the last one returned
  sorted_changesets   \* the output file: a sequence of [id, timestamp]

vars == <<graph_vars, pc, unread, timestamp, sorted_changesets>>

-----------------------------------------------------------------------------
\* The changesets BreakAllChangesetCyclesPass leaves can be put in one order.
Init ==
  /\ \E ordinal \in Orders, id_of \in OrderedIds, symbol_id \in SymbolIds :
       /\ Range(ordinal) \subseteq 0..(Len(id_of) - 1)
       /\ cvs_item_to_changeset_id = ItemTable(ordinal, id_of, symbol_id)
       /\ changeset_db = ChangesetTable(cvs_item_to_changeset_id, ordinal, id_of)
  /\ Orderable(changeset_db, DOMAIN changeset_db) = TRUE
  /\ nodes = <<>>
  /\ nopred_nodes = {}
  /\ pc = "load"
  /\ unread = DOMAIN changeset_db
  /\ timestamp = 0
  /\ sorted_changesets = <<>>

-----------------------------------------------------------------------------
\* get_changesets(): every changeset goes to the graph.
AddChangeset ==
  /\ pc = "load"
  /\ \E id \in unread :
       /\ \A other \in unread : id <= other
       /\ unread' = unread \ {id}
       /\ nodes' = AddNode(nodes, id,
                     CreateGraphNode(changeset_db[id], cvs_item_to_changeset_id))
  /\ IF unread' = {} THEN pc' = "consume" /\ nopred_nodes' = NoPred(nodes')
                     ELSE UNCHANGED <<pc, nopred_nodes>>
  /\ UNCHANGED <<changeset_db, cvs_item_to_changeset_id, timestamp, sorted_changesets>>

\* Mutant: a timestamp in the future is believed.
NextTimestamp_Future(t) == IF t < timestamp + 1 THEN timestamp + 1 ELSE t

\* Timestamper.get().  A changeset of symbols has no time of its own: t is 0.
NextTimestamp(t) ==
  IF t > MaxTimestamp \/ t < timestamp + 1 THEN timestamp + 1 ELSE t

\* get_changesets() and run(): the next changeset is written out.
Consume ==
  /\ pc = "consume"
  /\ \E id \in nopred_nodes :
       /\ ConsumeNode(id)
       /\ timestamp' = NextTimestamp(TMax(changeset_db[id]))
       /\ sorted_changesets' =
            Append(sorted_changesets, [id |-> id, timestamp |-> timestamp'])
  /\ UNCHANGED <<changeset_db, cvs_item_to_changeset_id, pc, unread>>

\* The graph is empty.  (consume_graph() would raise CycleInGraphException if
\* nodes were left.)
Finish ==
  /\ pc = "consume"
  /\ nopred_nodes = {}
  /\ DOMAIN nodes = {}
  /\ pc' = "done"
  /\ UNCHANGED <<graph_vars, unread, timestamp, sorted_changesets>>

Terminated == pc = "done" /\ UNCHANGED vars

Next == AddChangeset \/ Consume \/ Finish \/ Terminated

\* One single-threaded loop: while it has a next step, it takes it.
Spec == Init /\ [][Next]_vars /\ WF_vars(Next)

-----------------------------------------------------------------------------
SortedId(k) == sorted_changesets[k].id

\* The types of the variables.
TypeOK ==
  /\ \A id \in DOMAIN changeset_db : changeset_db[id] \in ChangesetRecord
  /\ cvs_item_to_changeset_id \in [Item -> DOMAIN changeset_db]
  /\ nodes \in [DOMAIN nodes -> [pred_ids : SUBSET DOMAIN nodes,
                                 succ_ids : SUBSET DOMAIN nodes]]
  /\ nopred_nodes \subseteq DOMAIN nodes
  /\ DOMAIN nodes \cup unread \subseteq DOMAIN changeset_db
  /\ pc \in {"load", "consume", "done"}
  /\ timestamp \in Nat
  /\ sorted_changesets \in Seq([id : DOMAIN changeset_db, timestamp : Nat])

(***************************************************************************)
(* What a commit's time is: the latest time that a changeset up to it asks *)
(* for, a second being added for each commit since; changesets in the      *)
(* future do not count, whatever they push back or are pushed back by.     *)
(***************************************************************************)
TimestampsExact ==
  \A k \in DOMAIN sorted_changesets :
    LET Asked(j) == TMax(changeset_db[SortedId(j)])
        Times == {k} \cup {Asked(j) + (k - j) : j \in {j \in 1..k : ~ (Asked(j) > MaxTimestamp)}}
    IN  sorted_changesets[k].timestamp = CHOOSE t \in Times : \A u \in Times : u <= t

\* A changeset of symbols is committed as soon as it can be: directly before it
\* comes a changeset it depends on, another changeset of symbols, or one that is
\* as old as they are taken to be.
SymbolsAtOnce ==
  \A k \in DOMAIN sorted_changesets :
    k > 1 /\ changeset_db[SortedId(k)].kind # "ordered" =>
      \/ ComesAfter(changeset_db, SortedId(k), SortedId(k - 1))
      \/ changeset_db[SortedId(k - 1)].kind # "ordered"
      \/ TMax(changeset_db[SortedId(k - 1)]) = 0

\* The ordered changesets stay in the order they were given: fitting in the
\* changesets of symbols, each as soon as it can be, does not rearrange them.
SkeletonKept ==
  /\ SymbolsAtOnce
  /\ TypeOK
  /\ \A j, k \in DOMAIN sorted_changesets :
       LET a == changeset_db[SortedId(j)]  b == changeset_db[SortedId(k)]
       IN  a.kind = "ordered" /\ b.kind = "ordered" => (j < k <=> a.ordinal < b.ordinal)

=============================================================================

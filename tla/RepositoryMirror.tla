------------------------- MODULE RepositoryMirror -------------------------
(***************************************************************************)
(* The skeleton of the Subversion repository that the output options keep  *)
(* while they build it (repository_mirror.py).  Directory nodes are shared *)
(* between lines of development (LODs) and between revisions, and only a   *)
(* node made in the current revision may be changed; a node of an older    *)
(* revision is copied first, and its parents with it.  Clients hold        *)
(* MirrorDirectory objects, several of which may stand for one node; the   *)
(* model keeps each object, because an object read before a node was       *)
(* copied still shows the old node.                                        *)
(*                                                                         *)
(* A mirror is a record; every method returns the mirror it leaves.  What  *)
(* a method returns to its caller is in .node, the exception it raised, if *)
(* any, in .error.                                                         *)
(***************************************************************************)
EXTENDS Integers, FiniteSets, SequencesExt

CONSTANTS
  None,             \* Python's None: no node, or the node id of a file
  LODs,             \* the trunk, the branches and the tags
  Root,             \* the project's root directory
  Directories,      \* the CVSDirectories, Root among them
  Files,            \* the CVSFiles
  parent_directory  \* CVSPath -> CVSDirectory; Root -> None

Paths == Directories \cup Files

\* CVSPath.get_ancestry(): from the root directory to the path itself.
GetAncestry[p \in Paths] ==
  IF p = Root THEN <<Root>> ELSE Append(GetAncestry[parent_directory[p]], p)

\* A mirror in which an exception was raised does nothing more.
Raise(m, exception) == [m EXCEPT !.error = exception, !.node = None]
Raised(m) == m.error # None

-----------------------------------------------------------------------------
\* RepositoryMirror.open(), start_commit() and end_commit().
Open ==
  [lod_histories |-> [lod \in LODs |-> <<[revnum |-> 0, id |-> None]>>],
   node_db |-> <<>>, max_node_ids |-> <<0>>, last_id |-> 0, youngest |-> 0,
   new_nodes |-> <<>>, objects |-> <<>>, node |-> None, error |-> None]

StartCommit(m, revnum) == [m EXCEPT !.youngest = revnum]

\* _NodeDatabase.write_new_nodes(): a record for every commit.  The highest
\* node ids of the records tell where a node is.
EndCommit(m) ==
  LET kept == {id \in DOMAIN m.new_nodes : m.objects[m.new_nodes[id]].class # "deleted"}
      data == [id \in kept |-> m.objects[m.new_nodes[id]].entries]
  IN  IF Raised(m) THEN m
      ELSE [m EXCEPT !.node_db = Append(@, data),
                     !.max_node_ids = Append(@, Max({Last(@)} \cup kept)),
                     !.new_nodes = <<>>, !.objects = <<>>, !.node = None]

\* _NodeDatabase.__getitem__() and _determine_index().
DetermineIndex(m, id) ==
  Cardinality({k \in DOMAIN m.max_node_ids : m.max_node_ids[k] < id})
OldEntries(m, id) == m.node_db[DetermineIndex(m, id)][id]

-----------------------------------------------------------------------------
\* LODHistory.get_id() and get_current_id(); None where they raise KeyError.
GetId(m, lod, revnum) ==
  LET history == m.lod_histories[lod]
  IN  history[Max({k \in DOMAIN history : history[k].revnum <= revnum})].id
GetCurrentId(m, lod) == Last(m.lod_histories[lod]).id

\* LODHistory.update()
UpdateHistory_KeepsFirst(m, lod, id) ==
  IF Last(m.lod_histories[lod]).revnum = m.youngest THEN m
  ELSE [m EXCEPT !.lod_histories[lod] = Append(@, [revnum |-> m.youngest, id |-> id])]
UpdateHistory(m, lod, id) ==
  LET history == m.lod_histories[lod]
      old == Last(history)
      entry == [revnum |-> m.youngest, id |-> id]
      again == old.revnum = m.youngest
  IN  IF again /\ (IF old.id = None THEN id = None
                   ELSE id # None /\ old.id \in DOMAIN m.new_nodes)
      THEN Raise(m, "InternalError")
      ELSE [m EXCEPT !.lod_histories[lod] =
              Append(IF again THEN Front(history) ELSE history, entry)]

-----------------------------------------------------------------------------
\* A CurrentMirrorDirectory object; parent is its parent_mirror_dir.
Hold(m, object) ==
  [m EXCEPT !.objects = Append(@, object), !.node = Len(m.objects) + 1]

\* The object for a node of the current revision: the one writable object
\* there is, or a new read-only one.
Current(m, id, lod, path, parent) ==
  IF id \in DOMAIN m.new_nodes THEN [m EXCEPT !.node = m.new_nodes[id]]
  ELSE Hold(m, [class |-> "read-only", id |-> id, lod |-> lod, path |-> path,
                parent |-> parent, entries |-> OldEntries(m, id)])

GetCurrentLODDirectory(m, lod) ==
  IF Raised(m) THEN m
  ELSE IF GetCurrentId(m, lod) = None THEN Raise(m, "KeyError")
  ELSE Current(m, GetCurrentId(m, lod), lod, Root, None)

\* CurrentMirrorDirectory.__getitem__()
GetItem(m, dir, path) ==
  LET object == m.objects[dir]
  IN  IF Raised(m) THEN m
      ELSE IF object.class = "deleted" THEN Raise(m, "TypeError")
      ELSE IF path \notin DOMAIN object.entries THEN Raise(m, "KeyError")
      ELSE IF object.entries[path] = None THEN [m EXCEPT !.node = None]
      ELSE Current(m, object.entries[path], object.lod, path, dir)

GetCurrentPath(m, path, lod) ==
  FoldLeft(LAMBDA acc, p : GetItem(acc, acc.node, p),
           GetCurrentLODDirectory(m, lod), Tail(GetAncestry[path]))

\* get_old_path(): <<its node id>>, or <<>> where it raises KeyError.
GetOldPath(m, path, lod, revnum) ==
  LET root == GetId(m, lod, revnum)
      Sub(at, p) ==
        IF at # <<>> /\ at # <<None>> /\ p \in DOMAIN OldEntries(m, at[1])
        THEN <<OldEntries(m, at[1])[p]>> ELSE <<>>
  IN  FoldLeft(Sub, IF root = None THEN <<>> ELSE <<root>>, Tail(GetAncestry[path]))

-----------------------------------------------------------------------------
(***************************************************************************)
(* _set_entry(), _del_entry() and _make_writable(): give an object new     *)
(* entries.  A read-only object first becomes the object of a new node,    *)
(* which its parent must then list.                                        *)
(***************************************************************************)
RECURSIVE SetEntries(_, _, _)
SetEntries(m, dir, entries) ==
  LET object == m.objects[dir]
      id == m.last_id + 1
      writable == [m EXCEPT
        !.last_id = id,
        !.new_nodes = (id :> dir) @@ @,
        !.objects[dir] = [object EXCEPT !.class = "writable", !.id = id, !.entries = entries]]
  IN  IF Raised(m) THEN m
      ELSE IF object.class = "deleted" THEN Raise(m, "TypeError")
      ELSE IF object.class = "writable" THEN [m EXCEPT !.objects[dir].entries = entries]
      ELSE IF object.parent = None THEN UpdateHistory(writable, object.lod, id)
      ELSE SetEntries(writable, object.parent,
                      (object.path :> id) @@ m.objects[object.parent].entries)

\* __setitem__() with a node id of an old revision, or with None for a file.
SetItem(m, dir, path, id) ==
  SetEntries(m, dir, (path :> id) @@ m.objects[dir].entries)

\* _mark_deleted(): the object changes its class first, so that looking up a
\* descendant that is writable fails.
MarkDeleted(m, dir) ==
  LET entries == m.objects[dir].entries
  IN  IF \E p \in DOMAIN entries : entries[p] \in DOMAIN m.new_nodes
      THEN Raise(m, "TypeError")
      ELSE [m EXCEPT !.objects[dir].class = "deleted"]

\* __delitem__(): the entry's object, in .node, is marked at last.
Discard(m) ==
  IF Raised(m) \/ m.node = None THEN m
  ELSE IF m.objects[m.node].class = "writable" THEN MarkDeleted(m, m.node) ELSE m

DelItem(m, dir, path) ==
  LET entries == m.objects[dir].entries
  IN  Discard(SetEntries(GetItem(m, dir, path), dir, Restrict(entries, DOMAIN entries \ {path})))

\* CurrentMirrorLODDirectory.delete(); only writable objects can be marked.
DeleteLODDirectory(m, dir) ==
  LET Mark(updated) ==
        IF Raised(updated) THEN updated
        ELSE IF m.objects[dir].class = "writable" THEN MarkDeleted(updated, dir)
        ELSE Raise(updated, "AttributeError")
  IN  IF Raised(m) THEN m ELSE Mark(UpdateHistory(m, m.objects[dir].lod, None))

\* A new node for an empty directory.
NewNode(m, lod, path, parent) ==
  LET held == Hold([m EXCEPT !.last_id = @ + 1],
                   [class |-> "writable", id |-> m.last_id + 1, lod |-> lod,
                    path |-> path, parent |-> parent, entries |-> <<>>])
  IN  [held EXCEPT !.new_nodes = (held.last_id :> held.node) @@ @]

\* mkdir(), add_file() and add_lod()
Mkdir(m, dir, path) ==
  LET Enter(made) == SetEntries(made, dir, (path :> made.last_id) @@ m.objects[dir].entries)
  IN  IF Raised(m) THEN m
      ELSE IF path \in DOMAIN m.objects[dir].entries THEN Raise(m, "PathExistsError")
      ELSE Enter(NewNode(m, m.objects[dir].lod, path, dir))

AddFile(m, dir, path) ==
  IF Raised(m) THEN m
  ELSE IF path \in DOMAIN m.objects[dir].entries THEN Raise(m, "PathExistsError")
  ELSE SetItem(m, dir, path, None)

AddLOD(m, lod) ==
  LET Add(updated) == IF Raised(updated) THEN updated ELSE NewNode(updated, lod, Root, None)
  IN  IF Raised(m) THEN m
      ELSE IF GetCurrentId(m, lod) # None THEN Raise(m, "LODExistsError")
      ELSE Add(UpdateHistory(m, lod, m.last_id + 1))

CopyLOD(m, src_lod, dest_lod, src_revnum) ==
  IF Raised(m) THEN m
  ELSE IF GetId(m, src_lod, src_revnum) = None THEN Raise(m, "KeyError")
  ELSE IF GetCurrentId(m, dest_lod) # None THEN Raise(m, "LODExistsError")
  ELSE GetCurrentLODDirectory(
         UpdateHistory(m, dest_lod, GetId(m, src_lod, src_revnum)), dest_lod)
=============================================================================

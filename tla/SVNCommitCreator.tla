-------------------------- MODULE SVNCommitCreator --------------------------
(***************************************************************************)
(* From ordered changesets to Subversion commits: CreateRevsPass numbers   *)
(* the commits (svn_commit_creator.py), stores them (persistence_          *)
(* manager.py), and logs in which commit each symbol of a file begins and  *)
(* ceases to be available (openings_closings.py); the log is then sorted.  *)
(* OutputPass reads the ranges back from the sorted log.                   *)
(***************************************************************************)
EXTENDS Integers, FiniteSets, SequencesExt, FiniteSetsExt

CONSTANT None

\* SVNRevisionRange; closing_revnum is None while nothing closes it.
SVNRevisionRange(source_lod, opening_revnum, closing_revnum) ==
  [source_lod |-> source_lod, opening_revnum |-> opening_revnum,
   closing_revnum |-> closing_revnum]

InRange(range, revnum) ==
  /\ range.opening_revnum <= revnum
  /\ range.closing_revnum = None \/ revnum < range.closing_revnum

\* RevisionScores for the ranges of a map from files to ranges: the score of
\* a revision of an LOD, and the revisions of the LOD at which it changes.
Score(range_map, lod, revnum) ==
  Cardinality({f \in DOMAIN range_map :
                 range_map[f].source_lod = lod /\ InRange(range_map[f], revnum)})

ScoredLods(range_map) == {range_map[f].source_lod : f \in DOMAIN range_map}
Steps(range_map, lod) ==
  UNION {{range_map[f].opening_revnum, range_map[f].closing_revnum} \ {None} :
           f \in {f \in DOMAIN range_map : range_map[f].source_lod = lod}}

\* get_score() of a source; -1 if the score is unknown.
GetScore(range_map, source) ==
  IF /\ source.source_lod \in ScoredLods(range_map)
     /\ \E r \in Steps(range_map, source.source_lod) : r <= source.opening_revnum
  THEN Score(range_map, source.source_lod, source.opening_revnum)
  ELSE -1

\* get_best_revnum(): the first LOD with the highest score, and the oldest
\* such revision of it; None if no revision serves anything.
Candidates(range_map) ==
  {SVNRevisionRange(lod, revnum, None) :
     lod \in ScoredLods(range_map),
     revnum \in UNION {Steps(range_map, lod) : lod \in ScoredLods(range_map)}}

GetBestRevnum(range_map) ==
  LET best == {c \in Candidates(range_map) :
                 /\ c.opening_revnum \in Steps(range_map, c.source_lod)
                 /\ GetScore(range_map, c) > 0
                 /\ \A d \in Candidates(range_map) :
                      GetScore(range_map, d) <= GetScore(range_map, c)}
      lod == Min({c.source_lod : c \in best})
      revnum == Min({c.opening_revnum : c \in {c \in best : c.source_lod = lod}})
  IN  IF best = {} THEN None ELSE SVNRevisionRange(lod, revnum, None)

\* compute_best_source()
ComputeBestSource(range_map, preferred_source) ==
  LET best == GetBestRevnum(range_map)
      best_score == IF best = None THEN 0 ELSE GetScore(range_map, best)
  IN  IF preferred_source # None /\ GetScore(range_map, preferred_source) = best_score
      THEN preferred_source ELSE best
-----------------------------------------------------------------------------
(***************************************************************************)
(* The commits.                                                            *)
(***************************************************************************)

CONSTANTS
  Trunk,     \* the trunk; a number, as the ids of the symbols are
  Projects,  \* the projects to convert: functions from item ids to CVSItems
  Rank       \* item id -> the place of its file in the order of the paths

VARIABLES
  project,      \* the one that is converted
  done,         \* the items whose changesets were processed
  commits,      \* svn_commit_db: the SVNCommits, by revision number
  cvs2svn_db,   \* CVSRevision -> revision number
  symbolings,   \* the lines of the openings and closings file
  sorted        \* SortSymbolOpeningsClosingsPass has run

creator_vars == <<project, done, commits, cvs2svn_db, symbolings, sorted>>

Items == DOMAIN project
IsRevision(i) == project[i].kind = "revision"

\* What the dependencies among items are derived from.
Links ==
  [i \in Items |->
    LET r == project[i]
    IN  [kind |-> r.kind, timestamp |-> r.timestamp,
         symbol |-> IF IsRevision(i) THEN 0 ELSE r.symbol,
         prev_id |-> r.prev_id, next_id |-> r.next_id,
         first_on_branch_id |-> r.first_on_branch_id,
         ntdbr_prev_id |-> r.ntdbr_prev_id, ntdbr_next_id |-> r.ntdbr_next_id,
         source_id |-> r.source_id, branch_ids |-> ToSet(r.branch_ids),
         tag_ids |-> r.tag_ids, branch_commit_ids |-> r.branch_commit_ids]]

Changeset == INSTANCE CVSItem WITH Item <- Items, cvs_item <- Links

\* CVSRevisionNoop and the other classes of cvs_revision_type_map.
IsRevisionNoop(i) == ~project[i].live /\ ~project[i].pred_live

\* The items of S in the order of their files' paths.
ByPath(S) == SetToSortSeq(S, LAMBDA i, j : Rank[i] < Rank[j])

-----------------------------------------------------------------------------
\* The SVNCommits; a field that a class does not have is None or empty.
SVNCommit(type, cvs_items, symbol, motivating_revnum) ==
  [type |-> type, cvs_items |-> cvs_items, symbol |-> symbol,
   motivating_revnum |-> motivating_revnum]

InitialProjectCommits ==
  IF done = {} THEN <<SVNCommit("initial project", <<>>, None, None)>> ELSE <<>>

\* _post_commit(): the commits that copy default branch revisions to trunk.
PostCommit(S, revnum) ==
  LET revs == {i \in S : project[i].ntdbr /\ ~IsRevisionNoop(i)}
  IN  IF revs = {} THEN <<>> ELSE <<SVNCommit("post", ByPath(revs), None, revnum)>>

\* A line of the openings and closings file.
Line(i, revnum, type) ==
  [symbol |-> project[i].symbol, revnum |-> revnum, type |-> type, cvs_symbol |-> i]
Lines(S, revnum, type) == SetToSeq({Line(i, revnum, type) : i \in S})

\* log_revision() and log_branch_revision()
LogRevision(i, revnum) ==
  Lines(project[i].opened_symbols, revnum, "O") \o Lines(project[i].closed_symbols, revnum, "C")
LogBranchRevision(i, revnum) == Lines(project[i].opened_symbols, revnum, "O")

LogAll(Log(_, _), S, revnum) == FlattenSeq([k \in 1 .. Cardinality(S) |-> Log(ByPath(S)[k], revnum)])

\* PersistenceManager.put_svn_commit() of the commits in cs, the first of
\* which has the number revnum.
Put(cs, revnum) ==
  /\ commits' = commits \o cs
  /\ cvs2svn_db' = FoldLeft(
       LAMBDA db, k :
         IF cs[k].type \in {"primary", "post"}
         THEN [i \in ToSet(cs[k].cvs_items) |-> revnum + k - 1] @@ db ELSE db,
       cvs2svn_db, [k \in DOMAIN cs |-> k])

-----------------------------------------------------------------------------
(***************************************************************************)
(* process_changeset() of a changeset S, called in any order that the      *)
(* dependencies allow.  A changeset of revisions holds all revisions with  *)
(* its id; those of a symbol may have been split.                          *)
(***************************************************************************)
IsReady(S) ==
  /\ S # {} /\ S \cap done = {}
  /\ \A i \in S : Changeset!GetPredIds(i) \subseteq done
  /\ \A i, j \in S : project[i].changeset = project[j].changeset

ProcessRevisionChangeset(S) ==
  LET revnum == Len(commits) + Len(InitialProjectCommits) + 1
      primary == SVNCommit("primary", ByPath(S), None, None)
  IN  /\ Put(InitialProjectCommits \o <<primary>> \o PostCommit(S, revnum),
             Len(commits) + 1)
      /\ symbolings' = symbolings \o LogAll(LogRevision, S, revnum)

ProcessSymbolChangeset(S) ==
  LET cvs_symbols == {i \in S : ~project[i].noop}
      i == CHOOSE i \in S : TRUE
      revnum == Len(commits) + 1
  IN  IF cvs_symbols = {} THEN UNCHANGED <<commits, cvs2svn_db, symbolings>>
      ELSE /\ Put(<<SVNCommit(project[i].kind, ByPath(cvs_symbols),
                              project[i].symbol, None)>>, revnum)
           /\ symbolings' = symbolings \o
                (IF project[i].kind = "branch"
                 THEN LogAll(LogBranchRevision, cvs_symbols, revnum) ELSE <<>>)

ProcessChangeset ==
  /\ ~sorted
  /\ \E S \in SUBSET (Items \ done) :
       /\ IsReady(S)
       /\ IF \E i \in S : IsRevision(i)
          THEN /\ \A i \in S, j \in Items :
                    project[j].changeset = project[i].changeset => j \in S
               /\ ProcessRevisionChangeset(S)
          ELSE ProcessSymbolChangeset(S)
       /\ done' = done \cup S
  /\ UNCHANGED <<project, sorted>>

\* SortSymbolOpeningsClosingsPass: by symbol, revision number and, as text,
\* the rest of the line.
Before(a, b) ==
  \/ a.symbol < b.symbol
  \/ a.symbol = b.symbol /\ a.revnum < b.revnum
  \/ a.symbol = b.symbol /\ a.revnum = b.revnum /\ a.type = "C" /\ b.type = "O"

SortSymbolOpeningsClosings ==
  /\ ~sorted /\ done = Items
  /\ symbolings' = SortSeq(symbolings, Before)
  /\ sorted' = TRUE
  /\ UNCHANGED <<project, done, commits, cvs2svn_db>>

CreatorInit ==
  /\ project \in Projects
  /\ done = {}
  /\ commits = <<>>
  /\ cvs2svn_db = <<>>
  /\ symbolings = <<>>
  /\ sorted = FALSE

-----------------------------------------------------------------------------
(***************************************************************************)
(* SymbolingsReader.get_range_map() of the symbol commit in revision       *)
(* revnum.  It raises InternalError unless every symbol was opened once,   *)
(* in an earlier revision, and closed at most once, later in the file.     *)
(***************************************************************************)
LinesOf(i, type) ==
  {k \in DOMAIN symbolings : symbolings[k].cvs_symbol = i /\ symbolings[k].type = type}

RangeIsLegal(i, revnum) ==
  /\ \E k \in LinesOf(i, "O") :
       /\ LinesOf(i, "O") = {k}
       /\ symbolings[k].revnum < revnum
       /\ \A l \in LinesOf(i, "C") : k < l
  /\ Cardinality(LinesOf(i, "C")) <= 1

\* A closing after the symbol commit does not matter to it.
RangeOf_NeverClosed(i, revnum) ==
  SVNRevisionRange(project[i].source_lod,
                   symbolings[CHOOSE k \in LinesOf(i, "O") : TRUE].revnum, None)
RangeOf(i, revnum) ==
  LET closings == {r \in {symbolings[k].revnum : k \in LinesOf(i, "C")} : r <= revnum}
  IN  SVNRevisionRange(project[i].source_lod,
                       symbolings[CHOOSE k \in LinesOf(i, "O") : TRUE].revnum,
                       IF closings = {} THEN None ELSE Min(closings))

RangeMapIsLegal(revnum) ==
  \A i \in ToSet(commits[revnum].cvs_items) : RangeIsLegal(i, revnum)
GetRangeMap(revnum) ==
  [i \in ToSet(commits[revnum].cvs_items) |-> RangeOf(i, revnum)]
-----------------------------------------------------------------------------
(***************************************************************************)
(* What the commits say that each file holds on each line of development:  *)
(* the reference that the output of a conversion is compared with.         *)
(***************************************************************************)

CONSTANT CVSFile   \* item id -> CVSFile

\* What a revision number n leaves in file f of the LOD x, by the revisions
\* and symbols of CVS alone: what the last commit that concerned it says.
RevisionSource(i) ==
  LET source[j \in Items] == IF IsRevision(j) THEN j ELSE source[project[j].source_id]
  IN  source[i]

LodOf(k, i) ==
  CASE commits[k].type = "primary" -> project[i].lod
    [] commits[k].type = "post" -> Trunk
    [] OTHER -> commits[k].symbol

\* The items of file f that commit k sets in the LOD x.
Setters(k, x, f) ==
  {i \in ToSet(commits[k].cvs_items) : CVSFile[i] = f /\ LodOf(k, i) = x}

ContentInCVS(n, x, f) ==
  IF \A k \in 1 .. n : Setters(k, x, f) = {} THEN None
  ELSE LET last == Max({k \in 1 .. n : Setters(k, x, f) # {}})
           source == RevisionSource(CHOOSE i \in Setters(last, x, f) : TRUE)
       IN  IF project[source].live THEN source ELSE None
=============================================================================

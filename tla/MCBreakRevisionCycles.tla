----------------------- MODULE MCBreakRevisionCycles -----------------------
(***************************************************************************)
(* BreakRevisionChangesetCyclesPass, on three files:                       *)
(*   file 1:  1 <- 2 <- 3 <- 4 <- 5                                        *)
(*   file 2:  6, and 7, the first commit on branch 8 of revision 6         *)
(*   file 3:  9                                                            *)
(* (a chain of five is the shortest in which a link that cannot be broken  *)
(* is as good as any other but for that).  Every grouping of the revisions *)
(* into up to three changesets is an initial state.                        *)
(***************************************************************************)
EXTENDS BreakCycles, MCItems

MCRows == <<
  Revision(1, 0, 0, 0), Revision(3, 1, 0, 0), Revision(5, 2, 0, 0),
    Revision(6, 3, 0, 0), Revision(8, 4, 0, 0),
  Revision(2, 0, 0, 0), Revision(4, 6, 8, 0), Symbol("branch", 1, 6),
  Revision(7, 0, 0, 0) >>

\* TLC evaluates the databases once.
MCDatabase == ItemDatabase(MCRows, None)

MCItem      == 1..9
MCcvs_item  == MCDatabase
MCBreakable == {"revision"}
MCSourceId  == {1, 2, 3, 5}
=============================================================================

-------------------------- MODULE MCBreakAllCycles --------------------------
(***************************************************************************)
(* BreakAllChangesetCyclesPass on three files with branches 1, 2, 3, 4:    *)
(*   file 1:  revision 1, branch 4 <- branch 1                             *)
(*   file 2:  revision 4, branch 3 <- branch 2 <- branch 1 <- revision 8   *)
(*   file 3:  revision 9, branch 3, branch 4, branch 1 <- revision 13      *)
(*   file 4:  revision 14, branch 1                                        *)
(* in every order of the revisions, with every split of each symbol into   *)
(* two, and two numberings of the ordered changesets.                      *)
(***************************************************************************)
EXTENDS BreakAllCycles, MCItems

MCRows == <<
  Revision(1, 0, 0, 0), Symbol("branch", 4, 1), Symbol("branch", 1, 2),
  Revision(2, 0, 0, 0), Symbol("branch", 3, 4), Symbol("branch", 2, 5),
    Symbol("branch", 1, 6), Revision(4, 4, 7, 0),
  Revision(3, 0, 0, 0), Symbol("branch", 3, 9), Symbol("branch", 4, 9),
    Symbol("branch", 1, 9), Revision(5, 9, 12, 0),
  Revision(3, 0, 0, 0), Symbol("branch", 1, 14) >>

MCDatabase   == ItemDatabase(MCRows, None)
MCItem       == DOMAIN MCRows
MCcvs_item   == MCDatabase
MCOrderedIds == {<<2, 5, 1, 4>>, <<61, 64, 62, 65>>}

\* part[i] = 1: item i is in the second changeset of its symbol.
MCSymbols    == {2, 3, 5, 6, 7, 10, 11, 12, 15}
MCSymbolIds  ==
  {[i \in MCSymbols |-> 10 * MCDatabase[i].symbol + part[i]] :
     part \in {f \in [MCSymbols -> {0, 1}] : \A i \in {2, 3, 5, 6, 7, 11, 15} : f[i] = 0}}
=============================================================================

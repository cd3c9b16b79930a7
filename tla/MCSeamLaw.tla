----------------------------- MODULE MCSeamLaw ------------------------------
(***************************************************************************)
(* Two small federations of two components each.  In a row of four ports   *)
(* the outer seams share no port but each reads a neighbour that the other *)
(* one writes.                                                             *)
(***************************************************************************)
EXTENDS SeamLaw

RowAndPairA == <<1, 2, 3, 5>>
RowAndPairB == <<2, 3, 4, 6>>
RowAndPairLoads == {<<3, 2, 1, 0, 1, 0>>}

RowsA == <<1, 2, 3, 5, 6>>
RowsB == <<2, 3, 4, 6, 7>>
RowsLoads == {<<3, 2, 0, 0, 3, 2, 0>>}
=============================================================================

---------------------------- MODULE MCFairTurn ------------------------------
(***************************************************************************)
(* Three roots, the days {1, 2, 3} and {4}, receipts one unit apart.  One  *)
(* measurement gives a wait of a unit, the other a wait cut at the limit.  *)
(***************************************************************************)
EXTENDS FairTurn

MCMeasured == {<<1, 1>>, <<4, 1>>}

=============================================================================

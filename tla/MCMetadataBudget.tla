-------------------------- MODULE MCMetadataBudget --------------------------
(* A small instance of MetadataBudget: two days of four clock units.         *)
EXTENDS MetadataBudget

MCTimes == {1, 2, 5, 6}
MCLimits == {3, 4}
=============================================================================

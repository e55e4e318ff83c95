------------------------------ MODULE MCAmtRing ------------------------------
(* The AMT ring for TLC.                                                   *)
EXTENDS AmtRing, TLC

Symmetry == Permutations(Producers)
=============================================================================

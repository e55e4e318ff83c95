------------------------------ MODULE MCSpRing ------------------------------
(* The single-producer ring for TLC.                                       *)
EXTENDS SpRing, TLC
=============================================================================

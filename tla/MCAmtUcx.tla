------------------------------ MODULE MCAmtUcx ------------------------------
(* Receives on the AMT ring for TLC.                                       *)
EXTENDS AmtUcx, TLC
=============================================================================

--------------------------- MODULE MCFtDetector ---------------------------
(* Instances of FtDetector for TLC. *)
EXTENDS FtDetector
=============================================================================

-------------------------- MODULE MCMonitorSession --------------------------
(* The database sessions for TLC.                                          *)
EXTENDS MonitorSession, TLC
=============================================================================

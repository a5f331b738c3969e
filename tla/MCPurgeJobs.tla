----------------------------- MODULE MCPurgeJobs -----------------------------
(***************************************************************************)
(* The instance of PurgeJobs that TLC checks.                              *)
(***************************************************************************)
EXTENDS PurgeJobs

CONSTANTS j1, j2, w1, w2, m1, m2, m3
=============================================================================

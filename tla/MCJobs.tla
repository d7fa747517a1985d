------------------------------ MODULE MCJobs ------------------------------
(* Jobs on three names: enough for one to be let go to make room for another *)
(* while a third runs.  No symmetry, for the liveness properties.            *)
EXTENDS Jobs
=============================================================================

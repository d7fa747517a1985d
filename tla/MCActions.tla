----------------------------- MODULE MCActions -----------------------------
(* Actions on two sends of one key that may or may not ask the same, with a    *)
(* lease and a window of one tick on a clock of two: a window passes and the   *)
(* sweep comes round.  No symmetry, for the liveness property.                 *)
EXTENDS Actions
=============================================================================

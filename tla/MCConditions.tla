--------------------------- MODULE MCConditions ---------------------------
(* Conditions on one check of the dashboard and one of the doctor, with enough *)
(* change for a fault to come back while somebody holds a copy of the store,   *)
(* and for another surface or diagnosis to come beside it.                     *)
EXTENDS Conditions
=============================================================================

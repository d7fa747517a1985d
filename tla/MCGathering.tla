---------------------------- MODULE MCGathering ----------------------------
(* Gathering with two clients and two values: one client is told a value      *)
(* while the other is still to arrive.                                        *)
EXTENDS Gathering
=============================================================================

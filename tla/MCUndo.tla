------------------------------ MODULE MCUndo ------------------------------
(* Undo with two settings, two values and two processes over two seconds:    *)
(* enough for runs of one second to be told apart or not, for a setting to   *)
(* be neither what a change found nor what it left, and for a run to fall    *)
(* off the journal.                                                          *)
EXTENDS Undo, TLC

Symmetry == Permutations(Process) \cup Permutations(Value)
=============================================================================

------------------------------ MODULE MCLock ------------------------------
(* Two clients of one server and a run from a terminal, which may be killed    *)
(* or forced.                                                                *)
EXTENDS Lock, TLC

CONSTANTS tab1, tab2, terminal, server, shell

Processes == (tab1 :> server) @@ (tab2 :> server) @@ (terminal :> shell)
=============================================================================

----------------------------- MODULE MCStream -----------------------------
(* Stream with a record, a record for the operator and a state to say.        *)
EXTENDS Stream, TLC

Said(nature, to) == [nature |-> nature, to |-> to]

MCEvent == {Said("record", "anyone"), Said("record", "operator"), Said("state", "anyone")}
=============================================================================

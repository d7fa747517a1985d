---------------------------- MODULE MCSessions ----------------------------
(* One stream, one sign-in at a time and one session beside the stream's,   *)
(* over a few ticks: enough for a session to run out, and a password to   *)
(* be changed, at every point of a beat and of an answer.                   *)
EXTENDS Sessions
=============================================================================

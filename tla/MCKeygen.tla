------------------------------- MODULE MCKeygen -------------------------------
(* Instances of Keygen for TLC: key generations that share the server. *)
EXTENDS Keygen, TLC

CONSTANTS a, b

Two == {a, b}
=============================================================================

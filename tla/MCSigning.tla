------------------------------ MODULE MCSigning ------------------------------
(* An instance of Signing for TLC: three sessions that contend for a key. *)
EXTENDS Signing

CONSTANTS a, b, c, k1, mk

OneKey == {k1}
ThreeSessions == {a, b, c}
Contended == [s \in {a, b, c} |-> k1]
StoredForThree == {a, b, c, mk}
=============================================================================

------------------------------- MODULE MCGotham -------------------------------
(* Instances of Gotham for TLC: one key under every failure, two without any;  *)
(* three sessions that sign, one of them a stray.                              *)
EXTENDS Gotham, TLC

CONSTANTS k1, k2, a, b, c, mk

OneKey == {k1}
TwoKeys == {k1, k2}
ThreeSignings == {a, b, c}
AllWithFirst == [s \in {a, b, c} |-> k1]
PairAndStray == a :> k1 @@ b :> k1 @@ c :> k2
AllTables == KeygenTables \cup {"EphKeyGenFirstMsg", "EphEcKeyPair"}
AllHandlers == Sessions \cup Signings
AllValues == Sessions \cup Signings \cup {mk}
=============================================================================

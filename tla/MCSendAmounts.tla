---------------------------- MODULE MCSendAmounts ----------------------------
(* Ten units to the bitcoin and floats of four bits: amounts from 16 units  *)
(* on are rounded, whole bitcoins with the others, and from 160 units on    *)
(* not every whole bitcoin is a float.                                      *)
EXTENDS SendAmounts

Values == {1, 4, 9, 20, 129, 180}
Ascending(n) ==
    {s \in [1..n -> Values] : \A i, j \in 1..n : i < j => s[i] <= s[j]}

MCOutputLists == UNION {Ascending(n) : n \in 0..3}
MCAmounts == 0..45 \cup {127, 128, 130, 144, 160, 170, 180, 320, 340, 360}
MCExponents == -10..6
=============================================================================

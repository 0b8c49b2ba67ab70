--------------------------- MODULE MCBitcoinWallet ---------------------------
(* Instances of BitcoinWallet for TLC. *)
EXTENDS BitcoinWallet, TLC

Apart(n) == [runs |-> n, together |-> 1]
Overlapping(n) == [runs |-> n, together |-> n]

OneAfterTheOther == {Apart(5)}
AtOnceOrNot == {Apart(5), Overlapping(4)}

\* The runs are interchangeable.
ProcSymmetry == Permutations(Procs)
=============================================================================

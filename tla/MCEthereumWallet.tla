--------------------------- MODULE MCEthereumWallet ---------------------------
(* Instances of EthereumWallet for TLC. *)
EXTENDS EthereumWallet, TLC

\* Too short, long enough, and longer than what is used.
MCPaths == {<<0>>, <<0, 1>>, <<1, 0, 0>>}

\* The runs are interchangeable.
ProcSymmetry == Permutations(Procs)
=============================================================================

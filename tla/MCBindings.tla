------------------------------ MODULE MCBindings ------------------------------
(* An app with one saved share, which may make a second wallet; the two paths *)
(* differ in the order of their positions only.                              *)
EXTENDS Bindings

MCPaths == {<<0, 1>>, <<1, 0>>}
=============================================================================

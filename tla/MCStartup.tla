----------------------------- MODULE MCStartup ------------------------------
(***************************************************************************)
(* Two boot nodes, of which the second has the first as its bootstrapper,  *)
(* and a node of a test, which has both.                                   *)
(***************************************************************************)
EXTENDS Startup

TestNode == {0, 1, 2}
TestDeps == [n \in TestNode |-> {m \in TestNode : m < n}]
=============================================================================

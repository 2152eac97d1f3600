--------------------------- MODULE MCStreamAssign ---------------------------
EXTENDS StreamAssign, MCGraphs

(* Modules of five instructions without submodules, heavy and light ones, and *)
(* modules of four in which a submodule uses one more instruction.            *)
BoundedGraphs ==
  FlatGraphs(5, 3, {0, 3}) \cup FlatGraphs(4, 3, {0, 1, 3, 7})
    \cup Capturing(NestedGraphs(4, 2, {0, 1, 3}))
=============================================================================

---------------------------- MODULE MCCompileOps ----------------------------
EXTENDS CompileOps

(* Configurations: one problem with two and one with three solutions; one  *)
(* with a single solution; one with none.                                  *)
TwoAndThree == [q \in Problems |-> IF q = "conv" THEN 2 ELSE 3]
NoneToThree == [q \in Problems |-> CASE q = "conv" -> 2 [] q = "gemm" -> 3 [] OTHER -> 0]
OneAndTwo   == [q \in Problems |-> IF q = "conv" THEN 1 ELSE 2]
NoneAndTwo  == [q \in Problems |-> IF q = "conv" THEN 0 ELSE 2]
=============================================================================

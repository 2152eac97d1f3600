--------------------------- MODULE MCPassManager ---------------------------
EXTENDS PassManager

CONSTANTS Two, X, B, C, D, Nothing

(***************************************************************************)
(* Instructions 1 to 3 are two literals and a parameter of main, which     *)
(* ends with 7 or 8; 9 and 10 are the body of B, 11 that of C, 12 and 13   *)
(* are free.                                                               *)
(***************************************************************************)
Op(name, in)  == <<<<name, Nothing>>, in, <<>>>>
Mul(a, b)     == Op("mul", <<a, b>>)
Id(a)         == Op("identity", <<a>>)
Check(a)      == Op("check", <<a>>)
Loop1(in, mod)  == <<<<"loop", Nothing>>, <<in>>, <<mod>>>>
If(cond, b, c) == <<<<"if", Nothing>>, <<cond>>, <<b, c>>>>
Elem(i, k)     == <<<<"get_tuple_elem", k>>, <<i>>, <<>>>>
Lit(data)     == <<<<"@literal", data>>, <<>>, <<>>>>
Param         == <<<<"@param", X>>, <<>>, <<>>>>

Return(in)    == Op("@return", in)
Unused        == Op("undefined", <<>>)

Inputs == <<Lit(One), Lit(Two), Param>>

(* f[i] is instruction i; a module that no instruction names is empty,    *)
(* and instructions in no module are free.                                 *)
Program(main, f) ==
  LET named(m) == \E i \in DOMAIN f : m \in ToSet(f[i][3])
      body == Main :> main @@ B :> <<9, 10>> @@ C :> <<11>> @@ D :> <<12>>
      used == {m \in Modules : m = Main \/ named(m)}
      live == UNION {ToSet(body[m]) : m \in used}
      ins == [i \in Ins |-> IF i \in live THEN f[i] ELSE Unused]
  IN [list |-> [m \in Modules |-> IF m \in used THEN body[m] ELSE <<>>],
      op   |-> [i \in Ins |-> ins[i][1]],
      args |-> [i \in Ins |-> ins[i][2]],
      subs |-> [i \in Ins |-> ins[i][3]]]

(* Three operators: dead code, units, effects, constants. *)
Flat ==
  {Program(<<1, 2, 3, 4, 5, 6>>, Inputs \o <<f, g, h>>) :
     f \in {Mul(2, 1), Mul(3, 1), Mul(2, 3), Id(3), Check(3)},
     g \in {Mul(4, 1), Mul(4, 4), Mul(2, 1), Mul(2, 3), Id(4), Id(2), Check(4), Check(3)},
     h \in {Mul(5, 1), Mul(1, 4), Mul(4, 5), Id(5), Id(4), Mul(3, 3)}}

(* Equal instructions, and users of equal instructions, in two orders. *)
Common ==
  {Program(main, Inputs \o <<Mul(3, 2), f, Mul(4, 3), g, h>>) :
     main \in {<<1, 2, 3, 4, 5, 6, 7, 8>>, <<1, 2, 3, 4, 6, 5, 7, 8>>},
     f \in {Mul(3, 2), Mul(2, 3), Lit(Two), Id(3)},
     g \in {Mul(5, 3), Mul(4, 3), Mul(5, 2), Id(5)},
     h \in {Mul(6, 7), Mul(7, 7), Mul(7, 1)}}

(* Up to three constant expressions, some of them inside others. *)
Constants ==
  {Program(<<1, 2, 3, 4, 5, 6, 7, 8>>, Inputs \o <<f, g, h, k, r>>) :
     f \in {Mul(2, 2), Mul(2, 1)}, g \in {Mul(4, 2), Mul(2, 2), Mul(3, 3)},
     h \in {Mul(5, 3), Mul(2, 4), Mul(5, 4)}, k \in {Mul(5, 4), Mul(2, 1)},
     r \in {Mul(6, 7), Return(<<5, 6, 7>>), Return(<<4, 7, 3>>)}}

(* Modules below main: B and C below different instructions or one, C      *)
(* below B, and instructions of main they use.                             *)
Nested ==
  {Program(<<1, 2, 3, 4, 5, 6, 7>>, Inputs \o <<f, g, h, k, Unused, b, c, Mul(4, 3)>>) :
     f \in {Mul(3, 2), Mul(3, 1)},
     g \in {Loop1(3, B), If(3, B, C)}, h \in {Loop1(3, C), Mul(4, 5), Mul(4, 3)},
     k \in {Mul(5, 6), Mul(6, 4)},
     b \in {Mul(4, 1), Mul(4, 3), Loop1(4, C)}, c \in {Mul(9, 1), Id(9)}}

(* A branch taken, in one of two ways, with a loop in it or a literal.     *)
Inlined ==
  {Program(<<1, 2, 3, 4, 5, 6, 7>>,
           <<Lit(One), Lit(No), Param, Mul(3, 3), f, Elem(5, 1), h, Unused, b, c, d, Return(<<4>>)>>) :
     f \in {If(1, B, D), If(2, D, B)},
     h \in {Mul(6, 4), Return(<<6>>), Mul(6, 6)},
     b \in {Mul(4, 3), Mul(3, 1), Lit(Two)}, c \in {Mul(9, 3), Return(<<9>>), Loop1(4, C)},
     d \in {Mul(4, 3), Lit(Two)}}

MCPrograms == Flat \cup Common \cup Constants \cup Nested \cup Inlined

(* The order of the passes modelled, in the lists of the targets. *)
Gpu == <<"eliminate_identity", "dead_code_elimination", "inline_module",
         "dead_code_elimination", "optimize_module", "dead_code_elimination",
         "promote_literals", "dead_code_elimination", "eliminate_identity">>
Cpu == <<"eliminate_identity", "dead_code_elimination", "eliminate_common_subexpression",
         "dead_code_elimination", "simplify_algebra", "dead_code_elimination",
         "propagate_constant", "dead_code_elimination">>
MCPipelines == {Gpu, Cpu}
=============================================================================

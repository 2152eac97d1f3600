-------------------------- MODULE MCMemoryColoring --------------------------
EXTENDS MemoryColoring

CONSTANT K  \* allocations of a program

(***************************************************************************)
(* K allocations, in the instructions 1, 3, 5, ..., each followed by the   *)
(* kernel that writes it.  The kernel at 2 * last[k] is the last to use    *)
(* allocation k; for one of them, late, it is the memory conflict behind   *)
(* that kernel which does.                                                 *)
(***************************************************************************)
Shapes == {<<12, 4>>, <<40, 8>>}  \* bytes, bytes of the type

Intervals(last, shape, late) ==
  LET number(i) == (i + 1) \div 2
  IN [allocs |-> {2 * k - 1 : k \in 1..K},
      bytes  |-> [i \in Instrs |-> IF i % 2 = 1 THEN shape[number(i)][1] ELSE 0],
      type   |-> [i \in Instrs |-> IF i % 2 = 1 THEN shape[number(i)][2] ELSE 1],
      uses   |-> [i \in Instrs |-> {2 * k - 1 : k \in {m \in 1..K : \/ i = 2 * m
                                                                    \/ i = 2 * last[m] /\ m # late}}],
      after  |-> [i \in Instrs |-> {2 * k - 1 : k \in {m \in 1..K : i = 2 * last[m] /\ m = late}}]]

LastUses == {f \in [1..K -> 1..K] : \A k \in 1..K : f[k] >= k}

IntervalPrograms ==
  {Intervals(f, s, late) : f \in LastUses, s \in [1..K -> Shapes], late \in {1}}
=============================================================================

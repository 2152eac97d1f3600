------------------------- MODULE PropagateConstant -------------------------
(***************************************************************************)
(* propagate_constant: the largest constant expressions of a module are    *)
(* found, evaluated in parallel, and replaced one after another.           *)
(***************************************************************************)
EXTENDS ModuleGraph, ParFor

CONSTANT ContextFree  \* names of operators that compute without a context

VARIABLES
  step,           \* "compute", "add", "replace" or "idle"
  const_instrs,   \* const_instrs_vec
  literals,       \* literals[i]: End until thread i has computed it
  next            \* the constant to replace

constVars == <<step, const_instrs, literals, next, parVars>>

(* can_eval: context free all the way down *)
CanEval ==
  LET can[i \in Ins] ==
        \/ Name(i) = "@literal"
        \/ Name(i) \in ContextFree /\ \A j \in ArgsOf(i) : can[j]
  IN can

(* Inputs of instructions that are no constants, and the last instruction  *)
(* if it is one.                                                           *)
ConstInstrs(m) ==
  LET const == CanEval
      users == {i \in ToSet(list[m]) : ~ const[i]}
  IN {j \in Ins : const[j] /\ \/ j = LastOf(m)
                              \/ Name(j) # "@literal" /\ \E i \in users : j \in ArgsOf(i)}

ConstIdle ==
  /\ step = "idle" /\ const_instrs = <<>> /\ literals = <<>> /\ next = 1
  /\ size = 0 /\ threadsize = 0 /\ work = 0 /\ threads = <<>> /\ calls = <<>>

(* In the order of an unordered set of addresses.  2048 / concurrency and   *)
(* more make a grain; with fewer the grain is 0, which counts as 1.        *)
ConstStart(m) ==
  /\ const_instrs' \in SetToSeqs(ConstInstrs(m))
  /\ literals' = [k \in DOMAIN const_instrs' |-> End]
  /\ ParStart(Len(const_instrs'), 1)
  /\ step' = "compute" /\ next' = 1

ConstSpawn ==
  /\ step = "compute" /\ ParSpawn
  /\ UNCHANGED <<graph, step, const_instrs, literals, next>>

(* literals[i] = eval of the instruction *)
ConstEval(t) ==
  /\ step = "compute" /\ ParRun(t)
  /\ LET k == threads[t].i + 1
     IN literals' = [literals EXCEPT ![k] = Value[const_instrs[k]]]
  /\ UNCHANGED <<graph, step, const_instrs, next>>

ConstJoin ==
  /\ step = "compute" /\ ParOver
  /\ step' = "add"
  /\ UNCHANGED <<graph, const_instrs, literals, next, parVars>>

(* Mutant: the literals are taken in the order of another walk. *)
LiteralOfNext == literals[Len(literals) + 1 - next]

LiteralOf == literals[next]

ConstAdd(m) ==
  /\ step = "add" /\ next <= Len(const_instrs)
  /\ AddLiteral(m, NewIns, LiteralOf)
  /\ step' = "replace"
  /\ UNCHANGED <<modules, meaning, const_instrs, literals, next, parVars>>

ConstReplace(m) ==
  /\ step = "replace"
  /\ ReplaceInstruction(m, const_instrs[next], FirstOf(m)) /\ Notify
  /\ step' = "add" /\ next' = next + 1
  /\ UNCHANGED <<modules, list, meaning, const_instrs, literals, parVars>>

ConstNext(m) ==
  \/ ConstSpawn
  \/ \E t \in DOMAIN threads : ConstEval(t)
  \/ ConstJoin
  \/ ConstAdd(m)
  \/ ConstReplace(m)

ConstOver == step = "add" /\ next > Len(const_instrs)
=============================================================================

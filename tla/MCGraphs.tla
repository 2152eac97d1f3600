------------------------------ MODULE MCGraphs ------------------------------
(***************************************************************************)
(* The bounded modules the runs of the scheduling specifications use.      *)
(***************************************************************************)
EXTENDS StreamPlan

(* Input lists of n instructions, at most MaxIn inputs each. *)
RECURSIVE InputLists(_, _)
InputLists(n, MaxIn) ==
  IF n = 0 THEN {<<>>}
  ELSE {Append(d, S) : d \in InputLists(n - 1, MaxIn),
                       S \in {T \in SUBSET (1..(n - 1)) : Cardinality(T) <= MaxIn}}

(* Dead code was eliminated: every instruction but the last has a user. *)
Live(d) == \A i \in 1..(Len(d) - 1) : \E k \in (i + 1)..Len(d) : i \in d[k]

None(n)     == [i \in 1..n |-> {}]
Forward(n)  == [i \in 1..n |-> i]
Backward(n) == [i \in 1..n |-> n + 1 - i]

(* Modules without submodules: all shapes, weights from W, two address orders. *)
FlatGraphs(n, MaxIn, W) ==
  {[n |-> n, inputs |-> d, implicit |-> None(n), op |-> w, addr |-> a] :
     d \in {e \in InputLists(n, MaxIn) : Live(e)},
     w \in {f \in [1..n -> W] : f[n] = 0},
     a \in {Forward(n), Backward(n)}}

(* Modules in which one instruction uses one more through a submodule. *)
NestedGraphs(n, MaxIn, W) ==
  {[n |-> n, inputs |-> d, implicit |-> [None(n) EXCEPT ![i] = {y}], op |-> w,
    addr |-> Forward(n)] :
     d \in {e \in InputLists(n, MaxIn) : Live(e)}, w \in {f \in [1..n -> W] : f[n] = 0},
     i \in 1..(n - 1), y \in 1..(n - 1)}

(* the submodule's use is of an earlier instruction, not already an input *)
Capturing(graphs) ==
  {g \in graphs : \A i \in 1..g.n : g.implicit[i] \subseteq 1..(i - 1) \ g.inputs[i]}

PlansOf(graphs, nstreams) == {PlanOf(g, nstreams) : g \in graphs}
=============================================================================

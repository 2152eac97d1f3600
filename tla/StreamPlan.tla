----------------------------- MODULE StreamPlan -----------------------------
(***************************************************************************)
(* What the first half of schedule::apply makes of a module: the loops and *)
(* recursions of StreamPartition, run to their end.                        *)
(***************************************************************************)
EXTENDS StreamPartition

RECURSIVE Walked(_, _, _)
Walked(g, w, walk) ==
  IF walk.calls = <<>> THEN walk
  ELSE LET call == Head(walk.calls)
       IN Walked(g, w, IF call.rest = {} THEN ReturnFrom(walk)
                       ELSE VisitArg(g, w, walk, CHOOSE j \in call.rest : IsNextArg(g, w, call, j)))

RECURSIVE Placement(_, _, _, _)
Placement(g, w, walk, placed) ==
  IF placed.left = {} THEN placed
  ELSE LET p == CHOOSE q \in placed.left : IsNextPartition(g, w, walk, placed.left, q)
           s == CHOOSE t \in DOMAIN placed.load : LeastLoaded(placed.load, t)
       IN Placement(g, w, walk, PlaceOn(walk, placed, p, s))

RECURSIVE Sorted(_, _, _)
Sorted(g, w, st) ==
  IF st.children = {} THEN st.order
  ELSE Sorted(g, w, PopChild(g, w, st, CHOOSE c \in st.children : IsTop(g, st, c)))

(***************************************************************************)
(* The module the insertion loop runs on, its instructions renumbered in   *)
(* the new order.                                                          *)
(***************************************************************************)
Reached(stop, from, n) ==
  LET reach(f, i) == UNION {IF stop[j] THEN {j} ELSE f[j] : j \in from[i]}
  IN InOrder(reach, n)

PlanOf(g, nstreams) ==
  LET w      == Weights(g)
      walk   == Walked(g, w, WalkFrom(g))
      placed == Placement(g, w, walk, PlacementFrom(g, walk, nstreams))
      order  == Sorted(g, w, SortFrom(g, w, walk.order))
      pos(S) == {k \in 1..g.n : order[k] \in S}
      stream == [k \in 1..g.n |-> StreamIn(g, walk, placed, order[k])]
      ins    == [k \in 1..g.n |-> pos(g.inputs[order[k]])]
      imp    == [k \in 1..g.n |-> pos(g.implicit[order[k]])]
      kernel == [k \in 1..g.n |-> IWeight(g, order[k]) > 0]
  IN [inputs |-> ins, implicit |-> imp, kernel |-> kernel, stream |-> stream,
      deps  |-> Reached([k \in 1..g.n |-> stream[k] # -1], ins, g.n),
      reads |-> Reached(kernel, [k \in 1..g.n |-> ins[k] \cup imp[k]], g.n)]
=============================================================================

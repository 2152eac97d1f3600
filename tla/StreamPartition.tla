--------------------------- MODULE StreamPartition ---------------------------
(***************************************************************************)
(* The turns of the loops and recursions in the first half of              *)
(* schedule::apply, as functions of the module they run on: the weights,   *)
(* the partition of the instructions into streams and the new program      *)
(* order (stream_info in schedule.cpp).                                    *)
(*                                                                         *)
(* A module g has instructions 1..g.n, already in a program order, with    *)
(*   g.inputs[i], g.implicit[i]   sets of earlier instructions             *)
(*   g.op[i]     schedule_model::weight; 0 for builtins and context free   *)
(*               operators; instruction g.n is @return                     *)
(*   g.addr[i]   the place of i in the order of addresses, which breaks    *)
(*               ties; also the order unordered_maps are walked in         *)
(***************************************************************************)
EXTENDS ProgramOrder, FiniteSets

IsGraph(g) ==
  /\ g.n \in Nat \ {0}
  /\ g.inputs \in [1..g.n -> SUBSET (1..g.n)] /\ g.implicit \in [1..g.n -> SUBSET (1..g.n)]
  /\ \A i \in 1..g.n : g.inputs[i] \cup g.implicit[i] \subseteq 1..(i - 1)
  /\ g.op \in [1..g.n -> Nat]
  /\ g.addr \in [1..g.n -> Nat]

MinPartitionThreshold == 2

IWeight(g, i) == IF i = g.n THEN 1 ELSE g.op[i]

(* accumulate_weights: an instruction weighs what it and its inputs weigh *)
Accumulated(g, w, i) ==
  IWeight(g, i) + SumIn(w, g.inputs[i], i - 1) + SumIn(w, g.implicit[i], i - 1)

Weights(g) == InOrder(LAMBDA w, i : Accumulated(g, w, i), g.n)

(* list::splice to the front and to the end *)
PlaceOf(s, i) == CHOOSE k \in DOMAIN s : s[k] = i

Without(s, i) == [k \in 1..(Len(s) - 1) |-> IF k < PlaceOf(s, i) THEN s[k] ELSE s[k + 1]]

MoveToFront(s, i) == <<i>> \o Without(s, i)

MoveToEnd(s, i) == Without(s, i) \o <<i>>

-----------------------------------------------------------------------------
(* Mutant: lightest first. *)
Lighter(g, w, x, y) ==
  \/ w[x] < w[y]
  \/ w[x] = w[y] /\ g.addr[x] > g.addr[y]

(* sort_args_by_weight: heaviest first *)
Heavier(g, w, x, y) ==
  \/ w[x] > w[y]
  \/ /\ w[x] = w[y]
     /\ \/ Cardinality(g.inputs[x]) > Cardinality(g.inputs[y])
        \/ /\ Cardinality(g.inputs[x]) = Cardinality(g.inputs[y])
           /\ g.addr[x] > g.addr[y]

(***************************************************************************)
(* The recursion of assign_streams, its calls the last first: a call is at *)
(* an instruction, fills a partition, and has inputs left to handle.  A    *)
(* partition <<i, j>> is the one input j of i starts.                      *)
(***************************************************************************)
Critical == <<0, 0>>
NoPart   == <<0, 1>>

CallOf(g, i, part) == [ins |-> i, part |-> part, rest |-> g.inputs[i]]

WalkFrom(g) ==
  [calls  |-> <<CallOf(g, g.n, Critical)>>,
   partOf |-> [i \in 1..g.n |-> IF i = g.n THEN Critical ELSE NoPart],
   weight |-> [p \in (0..g.n) \X (0..g.n) |-> IF p = Critical THEN IWeight(g, g.n) ELSE 0],
   order  |-> [i \in 1..g.n |-> i]]

Visited(walk, i) == walk.partOf[i] # NoPart

IsNextArg(g, w, call, j) == j \in call.rest /\ \A k \in call.rest \ {j} : Heavier(g, w, j, k)

(* The heaviest input of i joins the partition of i, and so do the inputs  *)
(* of weight 2 and less; any other starts a partition of its own.          *)
PartitionFor(g, w, call, j) ==
  IF call.rest = g.inputs[call.ins] \/ w[j] <= MinPartitionThreshold
    THEN call.part ELSE <<call.ins, j>>

(* Input j of the last call: one visited before stays where it is. *)
VisitArg(g, w, walk, j) ==
  LET call == Head(walk.calls)
      part == PartitionFor(g, w, call, j)
      rest == <<[call EXCEPT !.rest = @ \ {j}]>> \o Tail(walk.calls)
  IN IF Visited(walk, j) THEN [walk EXCEPT !.calls = rest]
     ELSE [walk EXCEPT !.calls = <<CallOf(g, j, part)>> \o rest,
                       !.partOf[j] = part,
                       !.weight[part] = @ + IWeight(g, j)]

(* The last call returns: "Sort instructions". *)
ReturnFrom(walk) ==
  [walk EXCEPT !.calls = Tail(@), !.order = MoveToEnd(@, Head(walk.calls).ins)]

-----------------------------------------------------------------------------
(***************************************************************************)
(* Critical goes to stream 0.  The others are placed one by one, grouped   *)
(* by the instruction that started them, the heaviest of a group first, on *)
(* the least loaded of the streams 1..n-1.                                 *)
(***************************************************************************)
SidePartitions(g, walk) == {walk.partOf[i] : i \in 1..g.n} \ {Critical, NoPart}

Size(g, walk, p) == Cardinality({i \in 1..g.n : walk.partOf[i] = p})

PlacedBefore(g, w, walk, p, q) ==
  IF p[1] # q[1] THEN g.addr[p[1]] < g.addr[q[1]]
  ELSE \/ walk.weight[p] > walk.weight[q]
       \/ /\ walk.weight[p] = walk.weight[q]
          /\ \/ Size(g, walk, p) > Size(g, walk, q)
             \/ Size(g, walk, p) = Size(g, walk, q) /\ Heavier(g, w, p[2], q[2])

IsNextPartition(g, w, walk, left, p) ==
  p \in left /\ \A q \in left \ {p} : PlacedBefore(g, w, walk, p, q)

(* Mutant: the most loaded stream is chosen. *)
MostLoaded(load, s) == s \in DOMAIN load /\ \A t \in DOMAIN load : load[s] >= load[t]

(* std::min_element *)
LeastLoaded(load, s) ==
  /\ s \in DOMAIN load
  /\ \A t \in DOMAIN load : load[s] < load[t] \/ (load[s] = load[t] /\ s <= t)

PlacementFrom(g, walk, nstreams) ==
  [load   |-> [s \in 1..(nstreams - 1) |-> 0],
   stream |-> [p \in (0..g.n) \X (0..g.n) |-> 0],
   left   |-> IF nstreams = 1 THEN {} ELSE SidePartitions(g, walk)]

(* Mutant: the streams other than 0 are numbered from 0 too. *)
PlaceFromZero(walk, placed, p, s) ==
  [placed EXCEPT !.load[s] = @ + walk.weight[p], !.stream[p] = s - 1, !.left = @ \ {p}]

PlaceOn(walk, placed, p, s) ==
  [placed EXCEPT !.load[s] = @ + walk.weight[p], !.stream[p] = s, !.left = @ \ {p}]

(* set_stream gives a stream to the instructions with weight. *)
StreamIn(g, walk, placed, i) ==
  IF Visited(walk, i) /\ IWeight(g, i) > 0 THEN placed.stream[walk.partOf[i]] ELSE -1

(* assign_streams returns the number of streams that were given work. *)
StreamsUsed(placed) == 1 + Cardinality({s \in DOMAIN placed.load : placed.load[s] > 0})

-----------------------------------------------------------------------------
(***************************************************************************)
(* stream_info::sort.  children holds instructions by priority; the first  *)
(* is moved to the front of the module and its inputs are added, again if  *)
(* they were moved before, so that every input ends up before its user.    *)
(* To add one that is among the children already changes nothing.          *)
(***************************************************************************)
ChildKey(g, w, i, v) ==
  LET nw == w[g.n] \div (g.n + 1)
      x  == 1 + (w[g.n] - w[i]) \div (nw + 1)
  IN v * x * IWeight(g, i)

(* Mutant: an instruction moved once is not moved again. *)
AddChildrenOnce(g, w, st, S) ==
  LET new == {i \in S : st.visited[i] = 0}
  IN [st EXCEPT !.visited = [i \in 1..g.n |-> IF i \in new THEN @[i] + 1 ELSE @[i]],
                !.children = @ \cup {<<ChildKey(g, w, i, st.visited[i] + 1), i>> : i \in new}]

AddChildren(g, w, st, S) ==
  LET new == {i \in S : <<ChildKey(g, w, i, st.visited[i]), i>> \notin st.children}
  IN [st EXCEPT !.visited = [i \in 1..g.n |-> IF i \in new THEN @[i] + 1 ELSE @[i]],
                !.children = @ \cup {<<ChildKey(g, w, i, st.visited[i] + 1), i>> : i \in new}]

SortFrom(g, w, order) ==
  AddChildren(g, w, [children |-> {}, order |-> order, visited |-> [i \in 1..g.n |-> 0]], {g.n})

IsTop(g, st, c) ==
  /\ c \in st.children
  /\ \A d \in st.children : c[1] < d[1] \/ (c[1] = d[1] /\ g.addr[c[2]] <= g.addr[d[2]])

PopChild(g, w, st, c) ==
  AddChildren(g, w, [st EXCEPT !.children = @ \ {c}, !.order = MoveToFront(@, c[2])],
              g.inputs[c[2]] \cup g.implicit[c[2]])
=============================================================================

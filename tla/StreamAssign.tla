---------------------------- MODULE StreamAssign ----------------------------
(***************************************************************************)
(* The first half of schedule::apply on one module: accumulate_weights,    *)
(* the recursion and the placing loop of assign_streams, and the loop of   *)
(* sort; what the insertion loop of Schedule then relies on.               *)
(***************************************************************************)
EXTENDS StreamPartition

CONSTANTS
  Graphs,    \* the modules the pass is run on
  NStreams   \* schedule_model::concurrency()

ASSUME StreamsAssumption == NStreams \in Nat \ {0}
ASSUME GraphsAssumption == \A g \in Graphs : IsGraph(g)

VARIABLES
  graph,     \* the module
  step,      \* "weigh", "walk", "place", "sort" or "done"
  weights,   \* weights
  walk,      \* of assign_streams: calls, partitions with their weights, order
  placed,    \* of assign_streams: streams (the loads), ins2stream by partition
  sorting    \* of sort: children, visited and the order of the instructions

vars == <<graph, step, weights, walk, placed, sorting>>

Init ==
  /\ graph \in Graphs
  /\ step = "weigh"
  /\ weights = [i \in 1..graph.n |-> 0]
  /\ walk = WalkFrom(graph)
  /\ placed = PlacementFrom(graph, walk, NStreams)
  /\ sorting = [children |-> {}, order |-> walk.order, visited |-> [i \in 1..graph.n |-> 0]]

Weigh ==
  /\ step = "weigh"
  /\ weights' = Weights(graph)
  /\ step' = "walk"
  /\ UNCHANGED <<graph, walk, placed, sorting>>

Visit(j) ==
  /\ step = "walk" /\ walk.calls # <<>>
  /\ IsNextArg(graph, weights, Head(walk.calls), j)
  /\ walk' = VisitArg(graph, weights, walk, j)
  /\ UNCHANGED <<graph, step, weights, placed, sorting>>

Return ==
  /\ step = "walk" /\ walk.calls # <<>>
  /\ Head(walk.calls).rest = {}
  /\ walk' = ReturnFrom(walk)
  /\ UNCHANGED <<graph, step, weights, placed, sorting>>

StartPlacing ==
  /\ step = "walk" /\ walk.calls = <<>>
  /\ placed' = PlacementFrom(graph, walk, NStreams)
  /\ step' = "place"
  /\ UNCHANGED <<graph, weights, walk, sorting>>

Place(p, s) ==
  /\ step = "place"
  /\ IsNextPartition(graph, weights, walk, placed.left, p)
  /\ LeastLoaded(placed.load, s)
  /\ placed' = PlaceOn(walk, placed, p, s)
  /\ UNCHANGED <<graph, step, weights, walk, sorting>>

StartSorting ==
  /\ step = "place" /\ placed.left = {}
  /\ sorting' = SortFrom(graph, weights, walk.order)
  /\ step' = "sort"
  /\ UNCHANGED <<graph, weights, walk, placed>>

Pop(c) ==
  /\ step = "sort"
  /\ IsTop(graph, sorting, c)
  /\ sorting' = PopChild(graph, weights, sorting, c)
  /\ UNCHANGED <<graph, step, weights, walk, placed>>

(* Parameters that nothing uses are moved to the front; there are none.    *)
EndSorting ==
  /\ step = "sort" /\ sorting.children = {}
  /\ step' = "done"
  /\ UNCHANGED <<graph, weights, walk, placed, sorting>>

Next ==
  \/ Weigh
  \/ \E j \in 1..graph.n : Visit(j)
  \/ Return
  \/ StartPlacing
  \/ \E p \in placed.left, s \in 1..(NStreams - 1) : Place(p, s)
  \/ StartSorting
  \/ \E c \in sorting.children : Pop(c)
  \/ EndSorting

Spec == Init /\ [][Next]_vars

Instrs  == 1..graph.n
order   == sorting.order
StreamOf(i) == StreamIn(graph, walk, placed, i)

AssignDone == step \in {"sort", "done"}

(***************************************************************************)
(* The order sort leaves is a program order: every instruction comes after *)
(* its inputs and after what its submodules use, although sort moves       *)
(* instructions one at a time and may move one several times.              *)
(***************************************************************************)
OrderIsProgramOrder ==
  step = "done" =>
    /\ {order[k] : k \in Instrs} = Instrs
    /\ \A a, b \in Instrs :
         order[a] \in graph.inputs[order[b]] \cup graph.implicit[order[b]] => a < b

(***************************************************************************)
(* The instructions from @return upwards along the heaviest input, which   *)
(* take longest, are on stream 0 together with @return.                    *)
(***************************************************************************)
OnlyHeaviest(k, j) ==
  /\ j \in graph.inputs[k]
  /\ \A m \in graph.inputs[k] \ {j} : weights[m] < weights[j]

LongestChain ==
  {i \in Instrs : \A S \in SUBSET Instrs :
     /\ graph.n \in S
     /\ \A k \in S : \A j \in Instrs : OnlyHeaviest(k, j) => j \in S
     => i \in S}

CriticalChainOnStreamZero ==
  AssignDone => \A i \in LongestChain : IWeight(graph, i) > 0 => StreamOf(i) = 0

(***************************************************************************)
(* An instruction with weight found from @return through inputs has a      *)
(* stream of the device; a heavy input that is not the heaviest of its     *)
(* user, and of no one else, is not put on stream 0 unless there is no     *)
(* other.  What assign_streams returns, which decides whether waits are    *)
(* inserted at all, is the number of streams that have an instruction.     *)
(***************************************************************************)
FromReturn ==
  {i \in Instrs : \A S \in SUBSET Instrs :
     graph.n \in S /\ (\A k \in S : graph.inputs[k] \subseteq S) => i \in S}

SideBranch(i) ==
  /\ weights[i] > MinPartitionThreshold
  /\ \E k \in FromReturn : /\ {m \in FromReturn : i \in graph.inputs[m]} = {k}
                           /\ \E j \in graph.inputs[k] : weights[j] > weights[i]

StreamsAssigned ==
  AssignDone =>
    /\ \A i \in FromReturn : IWeight(graph, i) > 0 =>
         /\ StreamOf(i) \in 0..(NStreams - 1)
         /\ SideBranch(i) /\ NStreams > 1 => StreamOf(i) # 0
    /\ StreamsUsed(placed) = Cardinality({StreamOf(i) : i \in Instrs} \ {-1})

(***************************************************************************)
(* Placing the partitions one by one on the least loaded stream keeps the  *)
(* loads of the streams other than 0 within one partition of each other.   *)
(***************************************************************************)
WeightIn(S) == SumIn([i \in Instrs |-> IWeight(graph, i)], S, graph.n)

LoadsBalanced ==
  AssignDone =>
    LET load == [s \in 1..(NStreams - 1) |-> WeightIn({i \in Instrs : StreamOf(i) = s})]
    IN \A a, b \in DOMAIN load : load[a] > load[b] =>
         \E p \in SidePartitions(graph, walk) :
           load[a] - load[b] <= WeightIn({i \in Instrs : walk.partOf[i] = p})
=============================================================================

-------------------------- MODULE MCAnalyzeStreams --------------------------
EXTENDS AnalyzeStreams, MCGraphs

(* What the pass is run on. *)
ScheduledPlans == PlansOf(FlatGraphs(N, 2, {0, 3}), NStreams)

(* A module of kernels: instruction i reads d[i] and is on stream s[i]. *)
KernelPlan(d, s) ==
  [inputs |-> d, implicit |-> None(N), kernel |-> [i \in Ins |-> TRUE], stream |-> s,
   deps |-> d, reads |-> d]

(* The last instruction reads all, the others the one before or none. *)
Shapes == {[i \in Ins |-> IF i = N THEN 1..(N - 1) ELSE IF i \in S THEN {i - 1} ELSE {}] :
             S \in {{}, 2..(N - 1)}}

(* Streams, numbered in the order of their last instruction. *)
StreamLists ==
  {s \in [Ins -> Streams] : \A i \in Ins : \A t \in Streams :
     t < s[i] => \E k \in (i + 1)..N : s[k] = t}

(* Two events, recorded at most MaxRecords and awaited at most MaxWaits times. *)
CONSTANTS MaxRecords, MaxWaits

Recorded ==
  {r \in [Ins -> -1..1] : r[N] = -1 /\ Cardinality({i \in Ins : r[i] # -1}) <= MaxRecords}

Awaited ==
  {w \in [Ins -> SUBSET (0..1)] : w[1] = {} /\ Cardinality({<<i, e>> \in Ins \X (0..1) : e \in w[i]}) <= MaxWaits}

WithEvents ==
  {[plan |-> KernelPlan(d, s), setStream |-> [i \in Ins |-> TRUE], waits |-> w, record |-> r] :
     d \in Shapes, s \in StreamLists, r \in Recorded, w \in Awaited}
=============================================================================

--------------------------- MODULE MCSharedMemory ---------------------------
EXTENDS UserQueue, MCGraphs

CONSTANT K  \* kernels; N = 2 * K

(***************************************************************************)
(* Modules of K kernels: kernel k is instruction 2k and writes allocation  *)
(* 2k - 1, but for the last, 2K - 1, whose result is an output parameter   *)
(* and which @return, 2K, reads.                                           *)
(***************************************************************************)
At(k) == IF k = K THEN 2 * K - 1 ELSE 2 * k

AllocatingGraph(d, w) ==
  [n |-> 2 * K,
   inputs |-> [i \in 1..(2 * K) |->
                 IF i = 2 * K THEN {2 * K - 1}
                 ELSE UNION {{At(j) : j \in d[k]} \cup (IF k = K THEN {} ELSE {2 * k - 1}) :
                               k \in {m \in 1..K : At(m) = i}}],
   implicit |-> None(2 * K),
   op |-> [i \in 1..(2 * K) |-> IF \E k \in 1..K : At(k) = i
                                  THEN w[CHOOSE k \in 1..K : At(k) = i] ELSE 0],
   addr |-> Forward(2 * K)]

AllocatingGraphs ==
  {AllocatingGraph(d, w) : d \in {e \in InputLists(K, 2) : Live(e)},
                           w \in {f \in [1..K -> {2, 4}] : f[1] = 2 /\ f[K] = 2}}

(* scheduled for NStreams streams, and for one *)
AllocatingPlans == PlansOf(AllocatingGraphs, NStreams) \cup PlansOf(AllocatingGraphs, 1)
=============================================================================

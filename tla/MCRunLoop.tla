----------------------------- MODULE MCRunLoop -----------------------------
EXTENDS RunLoop

CONSTANT MaxTrips

Outs == [Outputs -> {Made(k) : k \in Outputs} \cup {Param(d) : d \in {0} \cup Carried}]

(* Bodies in which outputs are made, shared or passed on in every way *)
Bodies ==
  {f \in Outs :
     /\ f[0] \in {Made(0), Param(0)}
     /\ \A o \in Outputs \ {0} : f[o] # Param(0) /\ f[o] # Made(0)
     /\ \A o, k \in Outputs : f[o] = Made(k) => o <= k /\ f[k] = Made(k)}

AllLoops ==
  [target : {"ref", "gpu"}, kind : {"none", "literal", "parameter", "scan"}, trips : 0..MaxTrips,
   stop : 0..MaxTrips, start : BOOLEAN, dir : [Scans -> {0, 1}], outs : Bodies]

MCLoops ==
  {l \in AllLoops :
     /\ l.kind = "none" => l.trips = 0
     /\ l.outs[0] = Param(0) => l.stop = 0
     /\ IsLoop(l)}
=============================================================================

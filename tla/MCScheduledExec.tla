-------------------------- MODULE MCScheduledExec --------------------------
EXTENDS ScheduledExecInv, MCGraphs

(* Every module of N instructions, scheduled by the pass for NStreams streams. *)
AssignedPlans == PlansOf(FlatGraphs(N, 2, {0, 3}), NStreams)

(* Modules with a submodule, scheduled by the pass. *)
NestedPlans == PlansOf(Capturing(NestedGraphs(N, 2, {0, 3})), NStreams)

(* Every module of N instructions and every way to give it streams, also     *)
(* those assign_streams does not choose: the insertion loop reads the        *)
(* assignment from ins2stream and makes no assumption about it.              *)
FlatPlan(d, s) ==
  LET kernels == [i \in Ins |-> s[i] # NoStream]
      reached == Reached(kernels, d, N)
  IN [inputs |-> d, implicit |-> None(N), kernel |-> kernels, stream |-> s,
      deps |-> reached, reads |-> reached]

AnyPlans ==
  {FlatPlan(d, s) : d \in {e \in InputLists(N, 3) : Live(e)},
                    s \in {f \in [Ins -> Streams \cup {NoStream}] : f[N] = 0}}

AllPlans == AnyPlans \cup AssignedPlans
=============================================================================

------------------------------ MODULE Dataflow ------------------------------
(***************************************************************************)
(* What evaluating a module promises, whatever streams it uses: in every   *)
(* evaluation each kernel runs once, from a moment when all the kernels it *)
(* reads have completed, and an evaluation is over only when every kernel  *)
(* has completed.                                                          *)
(***************************************************************************)
EXTENDS Integers

CONSTANTS Instructions, MaxRuns

VARIABLES kernels, \* the instructions that launch work; never changes
          need,    \* need[k]: the kernels whose results k reads; never changes
          running, done,
          active,  \* an evaluation is going on
          runs     \* evaluations begun

dataflowVars == <<kernels, need, running, done, active, runs>>

Init ==
  /\ kernels \subseteq Instructions
  /\ need \in [Instructions -> SUBSET Instructions]
  /\ running = {} /\ done = {}
  /\ active = FALSE
  /\ runs = 0

Begin ==
  /\ ~ active /\ runs < MaxRuns
  /\ active' = TRUE
  /\ runs' = runs + 1
  /\ done' = {}
  /\ UNCHANGED <<kernels, need, running>>

Start(k) ==
  /\ active
  /\ k \in kernels \ (running \cup done)
  /\ need[k] \subseteq done
  /\ running' = running \cup {k}
  /\ UNCHANGED <<kernels, need, done, active, runs>>

Complete(k) ==
  /\ k \in running
  /\ running' = running \ {k}
  /\ done' = done \cup {k}
  /\ UNCHANGED <<kernels, need, active, runs>>

End ==
  /\ active /\ done = kernels /\ running = {}
  /\ active' = FALSE
  /\ UNCHANGED <<kernels, need, running, done, runs>>

Next == Begin \/ End \/ \E k \in Instructions : Start(k) \/ Complete(k)

Spec == Init /\ [][Next]_dataflowVars
=============================================================================

--------------------------- MODULE ScheduledExec ---------------------------
(***************************************************************************)
(* The schedule pass and the evaluation of what it produced: compile once, *)
(* then evaluate the module any number of times on concurrent streams.     *)
(***************************************************************************)
EXTENDS Schedule, StreamExec

vars == <<moduleVars, passVars, execVars>>

Init == ModuleInit /\ PassInit /\ ExecInit

Compile  == phase = "compile" /\ PassNext /\ UNCHANGED execVars
Evaluate == PassDone /\ ExecNext /\ UNCHANGED <<moduleVars, passVars>>

Next == Compile \/ Evaluate

Spec == Init /\ [][Next]_vars

TypeOK == ModuleTypeOK /\ PassTypeOK /\ ExecTypeOK

(***************************************************************************)
(* Race freedom across streams: a kernel that has started found the result *)
(* of every kernel it reads complete, whatever streams they are on and     *)
(* whichever waits the pass left out (schedule.cpp, the insertion loop).   *)
(***************************************************************************)
Started(i) == status[i] \in {"running", "done"}

InputsReady == \A i \in Ins : Started(i) => reads[i] \subseteq Done

(***************************************************************************)
(* When finish returns, no work of the evaluation is left on any stream,   *)
(* although finish looks at the current stream only (context.hpp).         *)
(***************************************************************************)
FinishCoversAllStreams ==
  phase = "ready" /\ run > 0 => \A i \in Ins : kernel[i] => status[i] = "done"

(***************************************************************************)
(* A kernel is launched on the stream the pass gave it, in the first and   *)
(* in later evaluations, although set_stream is left out when the set_     *)
(* stream before it already named that stream (schedule_model::sched).     *)
(***************************************************************************)
LaunchedOnItsStream ==
  \A i \in Ins : launched[i] # NoStream /\ HasStream(i) => launched[i] = stream[i]

(***************************************************************************)
(* Every event is recorded, once, before the first wait for it: what       *)
(* analyze_streams throws for, and what a wait that finds its event        *)
(* unrecorded would silently ignore.                                       *)
(***************************************************************************)
WaitsFollowRecords ==
  \A i \in Ins : \A e \in waits[i] :
    \E j \in 1..(i - 1) : /\ record[j] = e
                          /\ \A k \in Ins : record[k] = e => k = j

(***************************************************************************)
(* No stream waits twice for one event: the bookkeeping in waited_for      *)
(* removes the redundant waits.                                            *)
(***************************************************************************)
NoRepeatedWait ==
  \A i, k \in Ins : i < k /\ HasStream(i) /\ stream[i] = stream[k]
                      => waits[i] \cap waits[k] = {}

(***************************************************************************)
(* An instruction used inside the submodules of i has been evaluated when  *)
(* i starts: what module.hpp says of calc_implicit_deps, which the pass    *)
(* uses for the order of the instructions and not for its waits.           *)
(***************************************************************************)
ImplicitDepsEvaluatedFirst ==
  \A i \in Ins : \A y \in plan.implicit[i] :
    Started(i) /\ kernel[y] => status[y] = "done"

(***************************************************************************)
(* The scheduled module evaluates as a dataflow graph does.                *)
(***************************************************************************)
Graph == INSTANCE Dataflow
  WITH Instructions <- Ins, MaxRuns <- Runs,
       kernels <- {i \in Ins : kernel[i]}, need <- reads,
       running <- Running, done <- Done,
       active <- phase = "run", runs <- run

ImplementsDataflow == Graph!Spec
=============================================================================

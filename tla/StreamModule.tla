---------------------------- MODULE StreamModule ----------------------------
(***************************************************************************)
(* A module of the IR at the point where the schedule pass works on it:    *)
(* instructions 1..N in program order (the order stream_info::sort left),  *)
(* a stream for every instruction that has a weight, and the stream        *)
(* instructions (gpu::set_stream, gpu::wait_event, gpu::record_event) the  *)
(* pass inserts around them.                                               *)
(*                                                                         *)
(* An inserted instruction is kept with the instruction it was inserted    *)
(* at: sched and wait insert before `ins`, record inserts right after it.  *)
(* The program the module stands for is therefore, for i = 1, 2, ..., N:   *)
(*     [set_stream]  wait_event*  i  [record_event]                        *)
(***************************************************************************)
EXTENDS Integers

CONSTANTS
  N,         \* number of instructions of the module
  NStreams,  \* schedule_model::concurrency()
  Plans      \* the modules, with their streams assigned, the pass is run on

Ins      == 1..N
Streams  == 0..(NStreams - 1)
Events   == Nat
NoStream == -1
NoEvent  == -1

(***************************************************************************)
(* A plan is the input of the insertion loop:                              *)
(*   inputs    ins->inputs()                                               *)
(*   implicit  module::calc_implicit_deps(), instructions used by the      *)
(*             submodules of ins                                           *)
(*   kernel    iweights[ins] > 0: the instruction launches work            *)
(*   stream    ins2stream[ins], NoStream when the instruction has none     *)
(*   deps      get_streams_from(ins, get_inputs()): the instructions with  *)
(*             a stream found upwards through instructions without one     *)
(*   reads     the kernels whose results ins reads, through its inputs and *)
(*             through its submodules                                      *)
(***************************************************************************)
Collapsed(stop, from, f) ==
  \A i \in Ins : f[i] = UNION {IF stop[j] THEN {j} ELSE f[j] : j \in from[i]}

IsPlan(p) ==
  /\ p \in [inputs : [Ins -> SUBSET Ins], implicit : [Ins -> SUBSET Ins],
            kernel : [Ins -> BOOLEAN], stream : [Ins -> Streams \cup {NoStream}],
            deps : [Ins -> SUBSET Ins], reads : [Ins -> SUBSET Ins]]
  /\ \A i \in Ins : p.inputs[i] \cup p.implicit[i] \subseteq 1..(i - 1)
  /\ \A i \in Ins : p.deps[i] \cup p.reads[i] \subseteq 1..(i - 1)
  /\ Collapsed([j \in Ins |-> p.stream[j] # NoStream], p.inputs, p.deps)
  /\ Collapsed(p.kernel, [i \in Ins |-> p.inputs[i] \cup p.implicit[i]], p.reads)
  /\ \A i \in Ins : \A j \in p.deps[i] : p.stream[j] # NoStream
  /\ \A i \in Ins : p.stream[i] # NoStream => p.kernel[i]
  \* @return is the last instruction, has weight 1 and is on the critical path
  /\ p.stream[N] = 0
  \* dead code was eliminated: some later kernel reads every other kernel
  /\ \A i \in Ins : p.kernel[i] /\ i # N => \E k \in Ins : p.kernel[k] /\ i \in p.reads[k]

(***************************************************************************)
(* A module whose instructions have no submodules: every kernel gets a     *)
(* stream, and inputs are all there is to wait for.                        *)
(***************************************************************************)
IsFlat(p) ==
  /\ p.reads = p.deps
  /\ \A i \in Ins : p.kernel[i] <=> p.stream[i] # NoStream

ASSUME SizeAssumption == N \in Nat \ {0} /\ NStreams \in Nat \ {0}
ASSUME PlanAssumption == \A p \in Plans : IsPlan(p)

VARIABLES
  plan,      \* the module the pass runs on; never changes
  setStream, \* setStream[i]: a set_stream is inserted before i
  waits,     \* waits[i]: the events of the wait_events inserted before i
  record     \* ins2wait: the event of the record_event inserted after i

moduleVars == <<plan, setStream, waits, record>>

inputs == plan.inputs
kernel == plan.kernel
stream == plan.stream
deps   == plan.deps
reads  == plan.reads

HasStream(i) == stream[i] # NoStream

ModuleInit ==
  /\ plan \in Plans
  /\ setStream = [i \in Ins |-> FALSE]
  /\ waits     = [i \in Ins |-> {}]
  /\ record    = [i \in Ins |-> NoEvent]

ModuleTypeOK ==
  /\ IsPlan(plan)
  /\ setStream \in [Ins -> BOOLEAN]
  /\ \A i \in Ins : setStream[i] => HasStream(i)
  /\ waits \in [Ins -> SUBSET Events]
  /\ record \in [Ins -> Events \cup {NoEvent}]

(* The set_stream in force at i: the last one inserted before it. *)
SetBefore(i) == {q \in 1..(i - 1) : setStream[q]}

CurrentSet(i, q) ==
  /\ q \in SetBefore(i)
  /\ \A r \in SetBefore(i) : r <= q
=============================================================================

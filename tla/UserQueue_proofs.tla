-------------------------- MODULE UserQueue_proofs --------------------------
(***************************************************************************)
(* The queue of the user around an asynchronous evaluation: what is behind *)
(* it waits for all streams by waiting for one, the stream of @return, and *)
(* what is ahead of it holds back every kernel where there is one stream.  *)
(* And the memory kernels share on one stream, where no conflicts are      *)
(* inserted: what is read is kept by the order of the stream.              *)
(***************************************************************************)
EXTENDS UserQueue, ScheduledExec_proofs

(* The evaluations of the model do not overlap: what is still queued when  *)
(* the next begins is not followed any further.                            *)
OneEvaluation == Runs = 1

-----------------------------------------------------------------------------
(* finish_event is on the stream of @return, and what starts behind it     *)
(* finds @return done.                                                     *)
FinishInv ==
  /\ finish # NoStream => phase = "ready" /\ run = Runs /\ finish = launched[N]
  /\ later => finish # NoStream /\ status[N] = "done"

(* With a single stream no set_stream is inserted, and the queue of stream *)
(* 0 begins with the wait for what is ahead.                               *)
GateInv ==
  /\ ~ Concurrent => \A i \in Ins : ~ setStream[i]
  /\ ~ Concurrent /\ async /\ run > 0 => gate = 0
  /\ ~ Concurrent /\ async /\ ~ earlier => \A i \in Ins : ~ Started(i)

QueueInv == Base /\ QueuesInv /\ GateInv

-----------------------------------------------------------------------------
LEMMA QueueInitInv == ASSUME FlatPlans PROVE QueueInit => QueueInv /\ FinishInv
<1> SUFFICES ASSUME QueueInit PROVE QueueInv /\ FinishInv
  OBVIOUS
<1>1. Init /\ finish = NoStream /\ later = FALSE
  BY DEF QueueInit, SharedInit
<1>2. Base /\ QueuesInv
  BY <1>1, InitInv DEF Inv, ExecInv, Base
<1>3. (\A i \in Ins : ~ setStream[i]) /\ run = 0 /\ \A i \in Ins : ~ Started(i)
  BY <1>1 DEF Init, ModuleInit, ExecInit, Started
<1> QED BY <1>1, <1>2, <1>3 DEF QueueInv, GateInv, FinishInv

(* A step of the compiler or the device is one of ScheduledExec.           *)
LEMMA DeviceIsNext == Device => [Next]_vars
BY DEF Device, SharedNext, InsertEvents, AddConflicts, StartColoring, Color, Run, Next

(* Nothing else changes what is scheduled or how far its evaluation is.    *)
LEMMA QueueKeeps ==
  ASSUME EarlierEnds \/ LaterStarts \/ UNCHANGED <<vars, conflictVars, colorVars, content, queueVars>>
  PROVE  UNCHANGED vars
BY DEF EarlierEnds, LaterStarts

LEMMA FinishOnEnds ==
  ASSUME FinishOn
  PROVE  /\ phase = "run" /\ host = N + 1 /\ phase' = "ready"
         /\ UNCHANGED <<run, host, cur, launched, hold, status>>
         /\ UNCHANGED <<moduleVars, passVars>>
BY DEF FinishOn

LEMMA PlanNeverChanges ==
  ASSUME [QueueNext]_<<vars, conflictVars, colorVars, content, queueVars>>
  PROVE  /\ plan' = plan /\ kernel' = kernel /\ stream' = stream
         /\ (Concurrent' <=> Concurrent)
<1>1. plan' = plan
  <2>1. [Next]_vars => plan' = plan
    BY DEF Next, Compile, PassNext, NoConcurrency, Skip, Sched, WaitOn, Leave, Evaluate,
           vars, moduleVars
  <2>2. FinishOn => plan' = plan
    BY DEF FinishOn, moduleVars
  <2> QED BY <2>1, <2>2, DeviceIsNext, QueueKeeps DEF QueueNext
<1> QED BY <1>1, PlanUnchanged DEF Concurrent, HasStream

LEMMA BaseQueueStep ==
  ASSUME Base, QueuesInv, [QueueNext]_<<vars, conflictVars, colorVars, content, queueVars>>
  PROVE  Base' /\ QueuesInv'
<1>1. CASE [Next]_vars
  BY <1>1, BaseStep, QueuesStep
<1>2. CASE FinishOn
  <2>1. QueuesInv'
    BY <1>2, FinishOnEnds, EndStep
  <2>2. TypeOK'
    BY <1>2, FinishOnEnds
    DEF Base, TypeOK, ModuleTypeOK, PassTypeOK, ExecTypeOK, moduleVars, passVars, stream, HasStream
  <2>3. IsFlat(plan)'
    BY PlanNeverChanges DEF Base, IsFlat
  <2>4. PassInv'
    BY <1>2, FinishOnEnds, PassInvUnchanged DEF Base
  <2> QED BY <2>1, <2>2, <2>3, <2>4 DEF Base
<1> QED BY <1>1, <1>2, DeviceIsNext, QueueKeeps DEF QueueNext

-----------------------------------------------------------------------------
(* What a step of the device does to what GateInv and FinishInv speak of.  *)
LEMMA DeviceSteps ==
  ASSUME Base, QueuesInv, Device
  PROVE  \/ Compile /\ phase = "compile" /\ UNCHANGED execVars
         \/ /\ PassDone /\ UNCHANGED <<moduleVars, passVars>>
            /\ Finalize \/ Begin \/ Launch \/ HostOnly \/ (Finish /\ ~ async)
               \/ \E i \in Ins : Start(i) \/ Complete(i)
         \/ UNCHANGED vars
BY DEF Device, SharedNext, InsertEvents, AddConflicts, StartColoring, Color, Run, Compile,
       Evaluate, ExecNext, Host, Finish, vars

(* No set_stream is inserted for a single stream.                          *)
LEMMA NoSetStream ==
  ASSUME Base, QueuesInv, GateInv, ~ Concurrent,
         [QueueNext]_<<vars, conflictVars, colorVars, content, queueVars>>
  PROVE  \A i \in Ins : ~ setStream'[i]
<1>1. \A i \in Ins : ~ setStream[i]
  BY DEF GateInv
<1>2. CASE Device
  <2>1. setStream' = setStream
    BY <1>2, DeviceSteps
    DEF Compile, PassNext, NoConcurrency, Skip, Sched, WaitOn, Leave, vars, moduleVars
  <2> QED BY <1>1, <2>1
<1>3. CASE ~ Device
  <2>1. setStream' = setStream
    BY <1>3, QueueKeeps, FinishOnEnds DEF QueueNext, vars, moduleVars
  <2> QED BY <1>1, <2>1
<1> QED BY <1>2, <1>3

(* The queue of the stream that is current when an evaluation begins holds *)
(* back what is launched on it.                                            *)
LEMMA GateStep ==
  ASSUME QueueInv, [QueueNext]_<<vars, conflictVars, colorVars, content, queueVars>>
  PROVE  GateInv'
<1>0. Base /\ QueuesInv /\ GateInv
  BY DEF QueueInv
<1> SUFFICES ASSUME ~ Concurrent
             PROVE  /\ \A i \in Ins : ~ setStream'[i]
                    /\ async' /\ run' > 0 => gate' = 0
                    /\ async' /\ ~ earlier' => \A i \in Ins : ~ Started(i)'
  BY PlanNeverChanges DEF GateInv
<1>1. /\ \A i \in Ins : ~ setStream[i]
      /\ async /\ run > 0 => gate = 0
      /\ async /\ ~ earlier => \A i \in Ins : ~ Started(i)
      /\ cur = 0
  BY <1>0 DEF GateInv, QueuesInv, CurInv
<1>2. \A i \in Ins : ~ setStream'[i]
  BY <1>0, NoSetStream
<1>3. async' = async
  BY DEF QueueNext, Device, EarlierEnds, FinishOn, LaterStarts, queueVars
<1>4. CASE Device
  <2>1. /\ gate' = IF async /\ phase = "ready" /\ phase' = "run" THEN cur ELSE gate
        /\ \A i \in Ins : Starting(i) /\ launched[i] = gate => earlier
        /\ earlier' = earlier
    BY <1>4 DEF Device, WaitFor
  <2>2. ASSUME async, run' > 0 PROVE gate' = 0
    <3>1. run' = run \/ Begin
      BY <1>0, <1>4, DeviceSteps
      DEF Finalize, Launch, HostOnly, Finish, Start, Complete, vars, execVars
    <3> QED BY <1>1, <2>1, <2>2, <3>1 DEF Begin
  <2>3. ASSUME async, ~ earlier, NEW i \in Ins PROVE ~ Started(i)'
    <3>0. ~ Started(i) /\ status \in [Ins -> {"none", "queued", "running", "done"}]
      BY <1>0, <1>1, <2>3 DEF Base, TypeOK, ExecTypeOK
    <3>1. CASE Start(i)
      <4>1. status[i] = "queued" /\ status'[i] = "running"
        BY <3>0, <3>1 DEF Start
      <4>2. launched[i] = 0 /\ run > 0
        <5>1. i < host /\ kernel[i] /\ launched[i] # NoStream /\ host \in 1..(N + 1)
          BY <1>0, <4>1 DEF QueuesInv, HostInv, Base, TypeOK, ExecTypeOK
        <5>2. launched[i] = stream[i] /\ stream[i] = 0
          BY <1>0, <5>1, PlanAtEvaluation DEF QueuesInv, LaunchedOnItsStream, Concurrent
        <5>3. run > 0
          <6>1. host # 1
            BY <5>1 DEF Ins
          <6>2. phase \in {"compile", "ready", "run"}
            BY <1>0 DEF Base, TypeOK, ExecTypeOK
          <6> QED BY <1>0, <6>1, <6>2 DEF QueuesInv, HostInv
        <5> QED BY <5>2, <5>3
      <4>3. earlier
        BY <1>1, <2>1, <2>3, <4>1, <4>2 DEF Starting
      <4> QED BY <2>3, <4>3
    <3>2. CASE ~ Start(i)
      <4>1. status'[i] \in {status[i], "queued", "none"}
            \/ (status[i] = "running" /\ status'[i] = "done")
        BY <1>0, <1>4, <3>0, <3>2, DeviceSteps
        DEF Finalize, Begin, Launch, HostOnly, Finish, Start, Complete, vars, execVars
      <4> QED BY <3>0, <4>1 DEF Started
    <3> QED BY <3>1, <3>2
  <2> QED BY <1>2, <1>3, <2>1, <2>2, <2>3
<1>5. CASE ~ Device
  <2>1. run' = run /\ status' = status /\ gate' = gate /\ (earlier => earlier')
    BY <1>5 DEF QueueNext, EarlierEnds, FinishOn, LaterStarts, vars, execVars, queueVars
  <2> QED BY <1>1, <1>2, <1>3, <2>1 DEF Started
<1> QED BY <1>4, <1>5

LEMMA QueueStep ==
  ASSUME QueueInv, [QueueNext]_<<vars, conflictVars, colorVars, content, queueVars>>
  PROVE  QueueInv'
BY BaseQueueStep, GateStep DEF QueueInv

(***************************************************************************)
(* For modules without submodules of any size: where the module runs on a  *)
(* single stream, no kernel of an asynchronous evaluation starts before    *)
(* the user's earlier work is over.                                        *)
(***************************************************************************)
THEOREM HeldBack == ASSUME FlatPlans PROVE QueueSpec => []EarlierIsOver
<1>1. QueueInit => QueueInv
  BY QueueInitInv
<1>2. QueueInv /\ [QueueNext]_<<vars, conflictVars, colorVars, content, queueVars>> => QueueInv'
  BY QueueStep
<1>3. QueueInv => EarlierIsOver
  <2> SUFFICES ASSUME QueueInv, async, ~ earlier, NEW i \in Ins, Started(i)
               PROVE  \E j \in Ins : HasStream(j) /\ stream[j] # launched[i]
    BY DEF EarlierIsOver
  <2>1. PICK j \in Ins : HasStream(j) /\ stream[j] # 0
    BY DEF QueueInv, GateInv, Concurrent
  <2>2. N \in Ins /\ HasStream(N) /\ stream[N] = 0
    BY PlanAtEvaluation, PlanFacts DEF QueueInv, Base, TypeOK, ModuleTypeOK
  <2> QED BY <2>1, <2>2
<1> QED BY <1>1, <1>2, <1>3, PTL DEF QueueSpec

-----------------------------------------------------------------------------
(* The event behind the evaluation stays at the end of @return's stream.   *)
LEMMA FinishInvStep ==
  ASSUME OneEvaluation, QueueInv, FinishInv,
         [QueueNext]_<<vars, conflictVars, colorVars, content, queueVars>>
  PROVE  FinishInv'
<1>0. Base /\ QueuesInv /\ run \in 0..1 /\ Runs = 1
  BY DEF QueueInv, Base, TypeOK, ExecTypeOK, OneEvaluation
<1>1. CASE Device
  <2>0. finish' = finish /\ later' = later
    BY <1>1 DEF Device
  <2> SUFFICES ASSUME finish # NoStream
               PROVE  /\ phase' = "ready" /\ run' = run /\ launched' = launched
                      /\ status[N] = "done" => status'[N] = "done"
    BY <2>0 DEF FinishInv
  <2>1. phase = "ready" /\ run = 1
    BY <1>0 DEF FinishInv
  <2>2. UNCHANGED execVars \/ \E i \in Ins : Start(i) \/ Complete(i)
    BY <1>0, <1>1, <2>1, DeviceSteps
    DEF Finalize, Begin, Launch, HostOnly, Finish, vars, execVars
  <2>3. CASE UNCHANGED execVars
    BY <2>1, <2>3 DEF execVars
  <2>4. ASSUME NEW i \in Ins, Start(i) \/ Complete(i)
        PROVE  /\ UNCHANGED <<phase, run, launched>>
               /\ status[N] = "done" => status'[N] = "done"
    <3>1. N \in Ins /\ status \in [Ins -> {"none", "queued", "running", "done"}]
      BY <1>0, PlanAtEvaluation DEF Base, TypeOK, ExecTypeOK
    <3> QED BY <2>4, <3>1 DEF Start, Complete
  <2> QED BY <2>1, <2>2, <2>3, <2>4
<1>2. CASE FinishOn
  <2>1. /\ phase = "run" /\ host = N + 1 /\ phase' = "ready" /\ finish' = cur
        /\ run' = run /\ launched' = launched /\ later' = later
    BY <1>2 DEF FinishOn
  <2>2. cur = launched[N] /\ run = 1
    BY <1>0, <2>1, ReturnIsCurrent DEF QueuesInv, HostInv
  <2>3. ~ later
    BY <2>1 DEF FinishInv
  <2> QED BY <1>0, <2>1, <2>2, <2>3 DEF FinishInv
<1>3. CASE LaterStarts
  <2>1. /\ finish # NoStream /\ later' /\ UNCHANGED <<phase, run, launched, status, finish>>
        /\ \A i \in Ins : launched[i] = finish => status[i] = "done"
    BY <1>3 DEF LaterStarts, vars, execVars
  <2>2. N \in Ins
    BY <1>0, PlanAtEvaluation
  <2> QED BY <2>1, <2>2 DEF FinishInv
<1>4. CASE ~ (Device \/ FinishOn \/ LaterStarts)
  <2>1. UNCHANGED <<phase, run, launched, status, finish, later>>
    BY <1>4 DEF QueueNext, EarlierEnds, vars, execVars, queueVars
  <2> QED BY <2>1 DEF FinishInv
<1> QED BY <1>1, <1>2, <1>3, <1>4

(***************************************************************************)
(* For modules without submodules of any size on any number of streams:    *)
(* the user's later work, which waits for one stream only, starts when all *)
(* kernels of the evaluation before it have completed.                     *)
(***************************************************************************)
THEOREM AllSeen == ASSUME FlatPlans, OneEvaluation PROVE QueueSpec => []LaterSeesAll
<1>1. QueueInit => QueueInv /\ FinishInv
  BY QueueInitInv
<1>2. /\ QueueInv /\ FinishInv
      /\ [QueueNext]_<<vars, conflictVars, colorVars, content, queueVars>>
      => (QueueInv /\ FinishInv)'
  BY QueueStep, FinishInvStep
<1>3. QueueInv /\ FinishInv => LaterSeesAll
  BY ReturnIsLast DEF QueueInv, FinishInv, LaterSeesAll
<1> QED BY <1>1, <1>2, <1>3, PTL DEF QueueSpec

-----------------------------------------------------------------------------
(***************************************************************************)
(* Memory shared on a single stream, the default of the gpu target.        *)
(***************************************************************************)
ColoringProofs == INSTANCE MemoryColoring_proofs WITH Programs <- {}

(* What MemoryColoring_proofs proves of the pass holds of it here.         *)
LEMMA SameColoring == Coloring!ColorNext => ColoringProofs!ColorNext
BY DEF Coloring!ColorNext, Coloring!Place, Coloring!Reduce, Coloring!NextRound,
       Coloring!Replace, Coloring!NextInQueue, Coloring!Precedes,
       Coloring!Cardinality, Coloring!Taken, Coloring!Units, Coloring!NextSegment,
       Coloring!NextStart, Coloring!GapsAfter, Coloring!Before, Coloring!Least,
       Coloring!Greatest, Coloring!Top, Coloring!Rounds, Coloring!Colored,
       Coloring!Used, Coloring!Alignment, Coloring!ComputeAlignment,
       Coloring!NoSegment, Coloring!NoOffset, Coloring!Instrs,
       ColoringProofs!ColorNext, ColoringProofs!Place, ColoringProofs!Reduce,
       ColoringProofs!NextRound, ColoringProofs!Replace, ColoringProofs!NextInQueue,
       ColoringProofs!Precedes, ColoringProofs!Cardinality, ColoringProofs!Taken,
       ColoringProofs!Units, ColoringProofs!NextSegment, ColoringProofs!NextStart,
       ColoringProofs!GapsAfter, ColoringProofs!Before, ColoringProofs!Least,
       ColoringProofs!Greatest, ColoringProofs!Top, ColoringProofs!Rounds,
       ColoringProofs!Colored, ColoringProofs!Used, ColoringProofs!Alignment,
       ColoringProofs!ComputeAlignment, ColoringProofs!NoSegment,
       ColoringProofs!NoOffset, ColoringProofs!Instrs

LEMMA SameTables ==
  /\ \A p : Coloring!ConflictTable(p) = ColoringProofs!ConflictTable(p)
  /\ \A p : Coloring!Colored(p) = ColoringProofs!Colored(p)
BY DEF Coloring!ConflictTable, Coloring!Live, Coloring!Colored, Coloring!Used, Coloring!Instrs,
       ColoringProofs!ConflictTable, ColoringProofs!Live, ColoringProofs!Colored,
       ColoringProofs!Used, ColoringProofs!Instrs

LEMMA ColorKept ==
  ASSUME ColoringProofs!ColorInv, Coloring!ColorNext
  PROVE  ColoringProofs!ColorInv'
BY SameColoring, ColoringProofs!ColorStepInv, SizeAssumption
   DEF ColoringProofs!ColorStepInv, ColoringProofs!InstrsAssumption, ColoringProofs!colorVars

(* Where every instruction has the segment of no size, none overlap.       *)
LEMMA UnplacedInv ==
  ASSUME ColoringProofs!IsProgram(prog), conflict = ColoringProofs!ConflictTable(prog),
         segment = [a \in Ins |-> <<0, 0>>], round = 0,
         queue = ColoringProofs!Colored(prog), offset \in [Ins -> Nat \cup {-1}]
  PROVE  ColoringProofs!ColorInv
<1>1. ColoringProofs!Instrs = Ins
  BY DEF ColoringProofs!Instrs, Ins
<1>2. ColoringProofs!ColorTypeOK
  BY <1>1 DEF ColoringProofs!ColorTypeOK, ColoringProofs!NoOffset, ColoringProofs!Rounds
<1>3. ColoringProofs!AdjacentSegmentsDisjoint
  <2>1. \A a \in Ins : conflict[a] \subseteq Ins
    BY <1>1 DEF ColoringProofs!ConflictTable, ColoringProofs!Colored, ColoringProofs!IsProgram
  <2> QED BY <1>1, <2>1 DEF ColoringProofs!AdjacentSegmentsDisjoint, ColoringProofs!Overlap
<1> QED BY <1>2, <1>3 DEF ColoringProofs!ColorInv

-----------------------------------------------------------------------------
(* All kernels are on stream 0, as they are with concurrency() = 1.        *)
SingleStream == \A p \in Plans : \A i \in Ins : p.stream[i] \in {0, NoStream}

(* What is not a kernel is an allocation, and one kernel writes it.        *)
OwnAllocations ==
  \A p \in Plans :
    /\ \A i \in Ins : ~ p.kernel[i] => p.inputs[i] = {}
    /\ \A i, k, a \in Ins : a \in p.inputs[i] /\ a \in p.inputs[k] /\ ~ p.kernel[a] => i = k

(* A unit a kernel has written since the evaluation began holds the result *)
(* of the last kernel to have started of those that write it.              *)
LastWriter ==
  \A j \in Ins : Started(j) =>
    \A c \in OutCells(j) : /\ content[c] \in Ins /\ j <= content[c]
                           /\ Started(content[c]) /\ c \in OutCells(content[c])

(* The coloring is over before the first kernel starts, and sees the       *)
(* module as it is evaluated, without memory conflicts.                    *)
ColoredInv ==
  /\ ColoringProofs!ColorInv
  /\ prog = NoProgram => round = 0 /\ segment = [a \in Ins |-> <<0, 0>>]
  /\ prog # NoProgram => prog = Program
  /\ ~ Coloring!ColorDone => \A i \in Ins : ~ Started(i)

NoConflictsInv == scan \in {N, -1} /\ identity = [i \in Ins |-> {}]

MemoryInv ==
  Base /\ QueuesInv /\ plan \in Plans /\ NoConflictsInv /\ ColoredInv /\ LastWriter

-----------------------------------------------------------------------------
(* On one stream a kernel starts when those before it have completed.      *)
LEMMA InOrder ==
  ASSUME SingleStream, Base, QueuesInv, plan \in Plans,
         NEW i \in Ins, NEW k \in Ins, i < k, kernel[i], status[k] # "none",
         \/ Started(k)
         \/ \A j \in Ins : j < k /\ launched[j] = launched[k] => status[j] = "done"
  PROVE  status[i] = "done"
<1>1. k < host /\ kernel[k] /\ host \in 1..(N + 1)
  BY DEF QueuesInv, HostInv, Base, TypeOK, ExecTypeOK
<1>2. i < host
  BY <1>1 DEF Ins
<1>3. launched[i] # NoStream /\ launched[k] # NoStream
  BY <1>1, <1>2 DEF QueuesInv, HostInv
<1>4. launched[i] = 0 /\ launched[k] = 0
  <2>1. /\ launched[i] = stream[i] /\ stream[i] # NoStream
        /\ launched[k] = stream[k] /\ stream[k] # NoStream
    BY <1>1, <1>3, PlanAtEvaluation DEF QueuesInv, LaunchedOnItsStream
  <2>2. stream[i] \in {0, NoStream} /\ stream[k] \in {0, NoStream}
    BY DEF SingleStream, stream
  <2> QED BY <2>1, <2>2
<1> QED BY <1>4 DEF QueuesInv, StreamInv

LEMMA NotConcurrent == ASSUME SingleStream, plan \in Plans PROVE ~ Concurrent
BY DEF SingleStream, Concurrent, HasStream, stream

(* A kernel that reads another uses its allocation.                        *)
LEMMA ReadsAllocation ==
  ASSUME OwnAllocations, Base, plan \in Plans, NEW i \in Ins, NEW j \in reads[i]
  PROVE  j \in inputs[i] /\ kernel[j] /\ j \in Ins /\ j < i
<1>0. i \in Nat /\ i <= N /\ N \in Nat /\ \A k \in Ins : inputs[k] \subseteq Ins
  BY SizeAssumption, PlanFacts DEF Ins, Base, TypeOK, ModuleTypeOK
<1>1. j \in deps[i] /\ j \in 1..(i - 1)
  BY PlanAtEvaluation
<1>2. ASSUME NEW k \in Ins, NEW x \in deps[k]
      PROVE  \E m \in inputs[k] : IF HasStream(m) THEN x = m ELSE x \in deps[m]
  <2> DEFINE stop == [m \in Ins |-> stream[m] # NoStream]
  <2>1. deps[k] = UNION {IF stop[m] THEN {m} ELSE deps[m] : m \in inputs[k]}
    BY DEF Base, TypeOK, ModuleTypeOK, IsPlan, stream, inputs, deps, Collapsed
  <2>2. \A m \in inputs[k] : stop[m] <=> HasStream(m)
    BY <1>0 DEF HasStream
  <2> HIDE DEF stop
  <2>3. PICK m \in inputs[k] : x \in IF stop[m] THEN {m} ELSE deps[m]
    BY <2>1
  <2> QED BY <2>2, <2>3
<1>3. \A m \in Ins : ~ HasStream(m) => inputs[m] = {}
  BY PlanAtEvaluation DEF OwnAllocations, inputs, kernel
<1>4. \A m \in Ins : ~ HasStream(m) => deps[m] = {}
  BY <1>2, <1>3
<1>5. PICK m \in inputs[i] : IF HasStream(m) THEN j = m ELSE j \in deps[m]
  BY <1>1, <1>2
<1>6. j = m /\ HasStream(m)
  BY <1>0, <1>4, <1>5
<1>7. j \in Ins /\ j < i
  BY <1>0, <1>1 DEF Ins
<1> QED BY <1>5, <1>6, <1>7, PlanAtEvaluation

(* The allocation of a kernel is in use until the last kernel that reads   *)
(* it: those that write in between have other segments.                    *)
LEMMA ReadApart ==
  ASSUME OwnAllocations, MemoryInv, Coloring!ColorDone,
         NEW i \in Ins, NEW j \in reads[i], NEW k \in Ins, kernel[k], j < k, k <= i,
         NEW c \in OutCells(j), c \in OutCells(k)
  PROVE  FALSE
<1>0. j \in inputs[i] /\ kernel[j] /\ j \in Ins /\ i \in Nat /\ k \in Nat /\ j \in Nat
  BY ReadsAllocation DEF MemoryInv, Ins
<1>1. PICK a \in Alias(j) : segment[a][1] <= c /\ c < segment[a][2]
  BY DEF OutCells
<1>2. PICK b \in Alias(k) : segment[b][1] <= c /\ c < segment[b][2]
  BY DEF OutCells
<1>3. /\ a \in inputs[j] /\ a \in Allocations /\ b \in inputs[k] /\ b \in Allocations
      /\ a \in Ins /\ b \in Ins
  BY <1>0, <1>1, <1>2 DEF Alias, Allocations
<1>4. a < j /\ b < k /\ a \in Nat /\ b \in Nat
  <2>1. inputs[j] \subseteq 1..(j - 1) /\ inputs[k] \subseteq 1..(k - 1)
    BY <1>0 DEF MemoryInv, Base, TypeOK, ModuleTypeOK, IsPlan, inputs
  <2> QED BY <1>0, <1>3, <2>1
<1>5. a # b
  <2>1. /\ a \in plan.inputs[j] /\ b \in plan.inputs[k] /\ ~ plan.kernel[a]
        /\ plan \in Plans /\ j # k
    BY <1>0, <1>3 DEF MemoryInv, Allocations, inputs, kernel
  <2> QED BY <1>0, <1>3, <2>1 DEF OwnAllocations
<1>6. prog = Program
  BY DEF MemoryInv, ColoredInv, Coloring!ColorDone, Coloring!Rounds
<1>7. /\ prog.allocs = Allocations /\ prog.bytes[a] > 0 /\ prog.bytes[b] > 0
      /\ b \in prog.uses[k] /\ a \in prog.uses[i]
  <2>1. b \in Aliases(inputs[k]) /\ a \in Aliases(inputs[i])
    BY <1>0, <1>1, <1>3 DEF Aliases, Alias
  <2> QED BY <1>3, <1>6, <2>1, AllocAssumption DEF Program
<1>8. ColoringProofs!Instrs = Ins
  BY DEF ColoringProofs!Instrs, Ins
<1>9. b \in ColoringProofs!ConflictTable(prog)[a]
  <2>1. a \in ColoringProofs!Colored(prog) /\ b \in ColoringProofs!Colored(prog)
    BY <1>0, <1>3, <1>4, <1>7, <1>8 DEF ColoringProofs!Colored, ColoringProofs!Used
  <2>2. a \in ColoringProofs!Live(prog, b) \/ b \in ColoringProofs!Live(prog, a)
    BY <1>0, <1>3, <1>4, <1>5, <1>7, <1>8 DEF ColoringProofs!Live
  <2> QED BY <1>3, <1>8, <2>1, <2>2 DEF ColoringProofs!ConflictTable
<1>10. /\ conflict = ColoringProofs!ConflictTable(prog)
       /\ segment \in [Ins -> Nat \X Nat]
       /\ \A x \in Ins : \A y \in conflict[x] : ~ ColoringProofs!Overlap(segment[x], segment[y])
  BY <1>8
  DEF MemoryInv, ColoredInv, ColoringProofs!ColorInv, ColoringProofs!ColorTypeOK,
      ColoringProofs!AdjacentSegmentsDisjoint
<1>11. c \in Int /\ segment[a] \in Nat \X Nat /\ segment[b] \in Nat \X Nat
  BY <1>3, <1>10 DEF OutCells, Cells
<1>12. ~ ColoringProofs!Overlap(segment[a], segment[b])
  BY <1>3, <1>9, <1>10
<1> QED BY <1>1, <1>2, <1>11, <1>12 DEF ColoringProofs!Overlap

(* What a running kernel reads has not been written over.                  *)
LEMMA IntactAndDisjoint ==
  ASSUME SingleStream, OwnAllocations, MemoryInv
  PROVE  ReadsIntact /\ OutputsDisjoint
<1>0. Base /\ QueuesInv /\ plan \in Plans /\ \A i \in Running : i \in Ins /\ Started(i)
  BY DEF MemoryInv, Running, Started
<1>1. \A i \in Ins : Started(i) => i < host /\ kernel[i] /\ status[i] # "none" /\ i \in Nat
  BY <1>0 DEF QueuesInv, HostInv, Started, Ins
<1>2. ASSUME NEW i \in Running, NEW k \in Ins, Started(k) PROVE k <= i
  <2>1. k \in Nat /\ i \in Nat /\ kernel[i] /\ status[k] # "none"
    BY <1>0, <1>1, <1>2
  <2>2. i < k => status[i] = "done"
    BY <1>0, <1>2, <2>1, InOrder
  <2> QED BY <2>1, <2>2 DEF Running
<1>3. ASSUME NEW i \in Running, NEW j \in reads[i], NEW c \in OutCells(j)
      PROVE  content[c] = j
  <2>1. j \in Ins /\ Started(j)
    <3>1. j \in Done
      BY <1>0 DEF QueuesInv, InputsReady
    <3> QED BY <3>1 DEF Done, Started
  <2>2. /\ content[c] \in Ins /\ j <= content[c]
        /\ Started(content[c]) /\ c \in OutCells(content[c])
    BY <2>1 DEF MemoryInv, LastWriter
  <2>3. content[c] <= i /\ kernel[content[c]] /\ content[c] \in Nat /\ j \in Nat
    BY <1>1, <1>2, <2>1, <2>2
  <2>4. Coloring!ColorDone
    BY <2>1 DEF MemoryInv, ColoredInv
  <2>5. ~ (j < content[c])
    BY <1>0, <2>2, <2>3, <2>4, ReadApart
  <2> QED BY <2>2, <2>3, <2>5
<1>4. ASSUME NEW i \in Running, NEW j \in Running PROVE i = j
  <2>1. i <= j /\ j <= i /\ i \in Nat /\ j \in Nat
    BY <1>0, <1>1, <1>2
  <2> QED BY <2>1
<1> QED BY <1>3, <1>4 DEF ReadsIntact, OutputsDisjoint

-----------------------------------------------------------------------------
LEMMA MemoryInitInv ==
  ASSUME FlatPlans, SingleStream PROVE QueueInit => MemoryInv
<1> SUFFICES ASSUME QueueInit PROVE MemoryInv
  OBVIOUS
<1>1. Base /\ QueuesInv /\ plan \in Plans
  BY QueueInitInv DEF QueueInv, QueueInit, SharedInit, Init, ModuleInit
<1>2. NoConflictsInv
  BY DEF QueueInit, SharedInit, ConflictsInit, NoConflictsInv
<1>3. \A i \in Ins : ~ Started(i)
  BY DEF QueueInit, SharedInit, Init, ExecInit, Started
<1>4. /\ prog = NoProgram /\ round = 0 /\ conflict = ColoringProofs!ConflictTable(prog)
      /\ segment = [a \in Ins |-> <<0, 0>>] /\ offset = [a \in Ins |-> -1]
      /\ queue = ColoringProofs!Colored(prog)
  BY SameTables
  DEF QueueInit, SharedInit, Coloring!StartOn, Coloring!NoSegment, Coloring!NoOffset,
      Coloring!Instrs, Ins
<1>5. ColoringProofs!IsProgram(prog)
  BY <1>4 DEF ColoringProofs!IsProgram, NoProgram, ColoringProofs!Instrs, Ins
<1>6. ColoringProofs!ColorInv
  BY <1>4, <1>5, UnplacedInv
<1> QED BY <1>1, <1>2, <1>3, <1>4, <1>6 DEF MemoryInv, ColoredInv, LastWriter

(* With one stream no memory conflicts are found.                          *)
LEMMA NoConflictsStep ==
  ASSUME ~ Concurrent, NoConflictsInv,
         [QueueNext]_<<vars, conflictVars, colorVars, content, queueVars>>
  PROVE  NoConflictsInv'
<1>0. N \in Nat /\ N > 0
  BY SizeAssumption
<1>1. ConflictsNext => NoConflictsInv'
  BY <1>0 DEF ConflictsNext, NoConflicts, Collect, InsertIdentities, NoConflictsInv, Ins
<1>2. UNCHANGED conflictVars => NoConflictsInv'
  BY DEF conflictVars, NoConflictsInv
<1> QED BY <1>1, <1>2
    DEF QueueNext, Device, SharedNext, InsertEvents, AddConflicts, StartColoring, Color, Run,
        EarlierEnds, FinishOn, LaterStarts

(* What is coloured is the module that is evaluated.                       *)
LEMMA ColoredStep ==
  ASSUME MemoryInv, ~ Concurrent, NoConflictsInv', Base',
         [QueueNext]_<<vars, conflictVars, colorVars, content, queueVars>>
  PROVE  ColoredInv'
<1>0. /\ ColoredInv /\ NoConflictsInv /\ plan' = plan /\ kernel' = kernel
      /\ identity' = identity /\ inputs' = inputs
  BY PlanNeverChanges DEF MemoryInv, NoConflictsInv, inputs
<1>1. Program' = Program
  BY <1>0 DEF Program, Allocations, Aliases, Alias
<1>2. UNCHANGED colorVars => ColoringProofs!ColorInv'
  BY <1>0
  DEF colorVars, ColoredInv, ColoringProofs!ColorInv, ColoringProofs!ColorTypeOK,
      ColoringProofs!AdjacentSegmentsDisjoint
<1>3. CASE StartColoring
  <2>1. /\ prog = NoProgram /\ prog' = Program /\ round' = 0 /\ segment' = [a \in Ins |-> <<0, 0>>]
        /\ conflict' = ColoringProofs!ConflictTable(prog') /\ queue' = ColoringProofs!Colored(prog')
        /\ offset' = offset /\ status' = status /\ round = 0
    BY <1>0, <1>1, <1>3, SameTables DEF StartColoring, ColoredInv, vars, execVars
  <2>2. offset \in [Ins -> Nat \cup {-1}]
    BY <1>0 DEF ColoredInv, ColoringProofs!ColorInv, ColoringProofs!ColorTypeOK,
                ColoringProofs!NoOffset, ColoringProofs!Instrs, Ins
  <2>3. ColoringProofs!IsProgram(Program)
    <3>1. ColoringProofs!Instrs = Ins /\ Allocations \subseteq Ins
      BY DEF ColoringProofs!Instrs, Ins, Allocations
    <3>2. \A S : Aliases(S) \subseteq Allocations
      BY DEF Aliases, Alias
    <3> QED BY <3>1, <3>2, AllocAssumption DEF ColoringProofs!IsProgram, Program
  <2>4. ColoringProofs!ColorInv'
    <3>1. ColoringProofs!Instrs = Ins
      BY DEF ColoringProofs!Instrs, Ins
    <3>2. ColoringProofs!ColorTypeOK'
      BY <2>1, <2>2, <2>3, <3>1
      DEF ColoringProofs!ColorTypeOK, ColoringProofs!NoOffset, ColoringProofs!Rounds
    <3>3. ColoringProofs!AdjacentSegmentsDisjoint'
      <4>1. \A a \in Ins : conflict'[a] \subseteq Ins
        BY <2>1, <2>3, <3>1
        DEF ColoringProofs!ConflictTable, ColoringProofs!Colored, ColoringProofs!IsProgram
      <4> QED BY <2>1, <3>1, <4>1
          DEF ColoringProofs!AdjacentSegmentsDisjoint, ColoringProofs!Overlap
    <3> QED BY <3>2, <3>3 DEF ColoringProofs!ColorInv
  <2>5. \A i \in Ins : ~ Started(i)
    BY <1>0, <2>1 DEF ColoredInv, Coloring!ColorDone, Coloring!Rounds
  <2> QED BY <1>0, <1>1, <2>1, <2>4, <2>5 DEF ColoredInv, Started, NoProgram
<1>4. CASE Color
  <2>1. /\ prog # NoProgram /\ Coloring!ColorNext /\ status' = status
    BY <1>4 DEF Color, vars, execVars
  <2>2. ColoringProofs!ColorInv' /\ prog' = prog
    BY <1>0, <2>1, ColorKept
    DEF ColoredInv, Coloring!ColorNext, Coloring!Place, Coloring!Reduce, Coloring!NextRound,
        Coloring!Replace
  <2>3. ~ Coloring!ColorDone
    BY <2>1
    DEF Coloring!ColorDone, Coloring!Rounds, Coloring!ColorNext, Coloring!Place,
        Coloring!Reduce, Coloring!NextRound, Coloring!Replace
  <2> QED BY <1>0, <1>1, <2>1, <2>2, <2>3 DEF ColoredInv, Started, NoProgram
<1>5. CASE UNCHANGED colorVars /\ (Coloring!ColorDone \/ \A i \in Ins : Started(i)' => Started(i))
  BY <1>0, <1>1, <1>2, <1>5
  DEF ColoredInv, colorVars, NoProgram, Coloring!ColorDone, Coloring!Rounds
<1>6. CASE ~ (StartColoring \/ Color)
  <2>1. UNCHANGED colorVars
    BY <1>6 DEF QueueNext, Device, SharedNext, InsertEvents, AddConflicts, Run, EarlierEnds,
                FinishOn, LaterStarts
  <2>2. status' = status \/ Coloring!ColorDone
    BY <1>6 DEF QueueNext, Device, SharedNext, InsertEvents, AddConflicts, Run, EarlierEnds,
                FinishOn, LaterStarts, Compile, vars, execVars
  <2> QED BY <1>5, <2>1, <2>2 DEF Started
<1> QED BY <1>3, <1>4, <1>6

(* The kernel that starts is the last so far, and writes what it writes.   *)
LEMMA LastWriterStep ==
  ASSUME SingleStream, MemoryInv,
         [QueueNext]_<<vars, conflictVars, colorVars, content, queueVars>>
  PROVE  LastWriter'
<1>0. /\ LastWriter /\ Base /\ QueuesInv /\ plan \in Plans /\ plan' = plan
      /\ inputs' = inputs /\ kernel' = kernel
      /\ status \in [Ins -> {"none", "queued", "running", "done"}]
  BY PlanNeverChanges DEF MemoryInv, Base, TypeOK, ExecTypeOK, inputs
<1>1. CASE Run
  <2> DEFINE started == {i \in Ins : status[i] = "queued" /\ status'[i] = "running"}
  <2>1. /\ Evaluate /\ segment' = segment
        /\ content' = [c \in Cells |-> IF \E i \in started : c \in OutCells(i)
                                         THEN CHOOSE i \in started : c \in OutCells(i)
                                         ELSE content[c]]
    BY <1>1 DEF Run, colorVars
  <2>2. \A i : OutCells(i)' = OutCells(i) /\ OutCells(i) \subseteq Cells
    BY <1>0, <2>1 DEF OutCells, Alias, Allocations
  <2>3. CASE Begin
    BY <2>3 DEF Begin, LastWriter, Started
  <2>4. CASE (Finalize \/ Launch \/ HostOnly \/ Finish) \/ \E i \in Ins : Complete(i)
    <3>1. \A i \in Ins : (Started(i)' <=> Started(i)) /\ i \notin started
      <4>1. Launch => status[host] = "none"
        BY <1>0 DEF Launch, QueuesInv, HostInv, Ins
      <4> QED BY <1>0, <2>4, <4>1 DEF Finalize, Launch, HostOnly, Finish, Complete, Started
    <3>2. \A c \in Cells : content'[c] = content[c]
      BY <2>1, <3>1
    <3> QED BY <1>0, <2>2, <3>1, <3>2 DEF LastWriter
  <2>5. ASSUME NEW i \in Ins, Start(i) PROVE LastWriter'
    <3>1. /\ status[i] = "queued" /\ status'[i] = "running"
          /\ \A k \in Ins : k # i => status'[k] = status[k]
          /\ \A j \in Ins : j < i /\ launched[j] = launched[i] => status[j] = "done"
      BY <1>0, <2>5 DEF Start
    <3>2. started = {i} /\ \A k \in Ins : Started(k)' <=> Started(k) \/ k = i
      BY <3>1 DEF Started
    <3>3. \A c \in Cells : content'[c] = IF c \in OutCells(i) THEN i ELSE content[c]
      <4> HIDE DEF started
      <4>1. \A c \in Cells : (\E k \in started : c \in OutCells(k)) <=> c \in OutCells(i)
        BY <3>2
      <4>2. \A c \in Cells : c \in OutCells(i) => (CHOOSE k \in started : c \in OutCells(k)) = i
        BY <3>2
      <4> QED BY <2>1, <4>1, <4>2
    <3>4. ASSUME NEW k \in Ins, Started(k) PROVE k <= i
      <4>1. i < k /\ kernel[i] => status[i] = "done"
        BY <1>0, <3>4, InOrder DEF Started
      <4>2. kernel[i]
        BY <1>0, <3>1 DEF QueuesInv, HostInv
      <4> QED BY <3>1, <4>1, <4>2 DEF Ins
    <3>5. i <= i
      BY DEF Ins
    <3> QED BY <1>0, <2>2, <3>2, <3>3, <3>4, <3>5 DEF LastWriter
  <2> QED BY <2>1, <2>3, <2>4, <2>5 DEF Evaluate, ExecNext, Host
<1>2. CASE ~ Run
  <2>1. content' = content /\ status' = status
    BY <1>2 DEF QueueNext, Device, SharedNext, InsertEvents, AddConflicts, StartColoring, Color,
                EarlierEnds, FinishOn, LaterStarts, Compile, vars, execVars
  <2>2. CASE segment' = segment
    <3>1. \A i : OutCells(i)' = OutCells(i)
      BY <1>0, <2>2 DEF OutCells, Alias, Allocations
    <3> QED BY <1>0, <2>1, <3>1 DEF LastWriter, Started
  <2>3. CASE segment' # segment
    <3>1. ~ Coloring!ColorDone
      BY <1>2, <2>3
      DEF QueueNext, Device, SharedNext, InsertEvents, AddConflicts, StartColoring, Color,
          EarlierEnds, FinishOn, LaterStarts, colorVars, Coloring!ColorDone, Coloring!Rounds,
          Coloring!ColorNext, Coloring!Place, Coloring!Reduce, Coloring!NextRound,
          Coloring!Replace
    <3> QED BY <2>1, <3>1 DEF MemoryInv, ColoredInv, LastWriter, Started
  <2> QED BY <2>2, <2>3
<1> QED BY <1>1, <1>2

LEMMA MemoryStep ==
  ASSUME SingleStream, MemoryInv,
         [QueueNext]_<<vars, conflictVars, colorVars, content, queueVars>>
  PROVE  MemoryInv'
<1>1. Base' /\ QueuesInv' /\ plan' = plan
  BY BaseQueueStep, PlanNeverChanges DEF MemoryInv
<1>2. NoConflictsInv'
  BY NotConcurrent, NoConflictsStep DEF MemoryInv
<1>3. ColoredInv' /\ LastWriter'
  BY <1>1, <1>2, NotConcurrent, ColoredStep, LastWriterStep DEF MemoryInv
<1> QED BY <1>1, <1>2, <1>3 DEF MemoryInv

LEMMA MemoryInvHolds == ASSUME FlatPlans, SingleStream PROVE QueueSpec => []MemoryInv
<1>1. QueueInit => MemoryInv
  BY MemoryInitInv
<1>2. MemoryInv /\ [QueueNext]_<<vars, conflictVars, colorVars, content, queueVars>> => MemoryInv'
  BY MemoryStep
<1> QED BY <1>1, <1>2, PTL DEF QueueSpec

(***************************************************************************)
(* With all kernels on one stream, the default, the reuse of memory is     *)
(* safe for every module without submodules, however its allocations are   *)
(* coloured and however often it is evaluated: as long as a kernel runs,   *)
(* the results it reads are in the buffer.                                 *)
(***************************************************************************)
THEOREM OneStreamReadsIntact ==
  ASSUME FlatPlans, SingleStream, OwnAllocations
  PROVE  QueueSpec => [](ReadsIntact /\ SameStreamReadsIntact)
<1>1. MemoryInv => ReadsIntact /\ SameStreamReadsIntact
  BY IntactAndDisjoint DEF ReadsIntact, SameStreamReadsIntact
<1> QED BY <1>1, MemoryInvHolds, PTL
=============================================================================

# AMDMIGraphX: passes, concurrent scheduling, memory reuse and tuning, specified in TLA+

MIGraphX compiles a model (ONNX, TensorFlow) into a *program*: modules of
instructions, rewritten by a list of passes for a target and then evaluated any
number of times. This directory specifies the parts of the repository that
decide *when* things happen and *where* results live: the schedule pass and the
device streams its result runs on, the memory colouring pass that lets results
share one buffer, and the `compile_ops` pass with its cache of tuning results. It
also specifies how passes change a program while they walk over it: the graph of
instructions with its use lists, the clean-up passes every target runs, and the
pass manager with its nested loops; and the loop operator with its buffers.
Paths below are relative to the repository, whose implementation is `src/`
(`src/src/...` in PROJECT.json).

## 1. Inventory

| component | state | operations | interacts with |
|---|---|---|---|
| module graph (`module.cpp`, `instruction.cpp`) | list of instructions, inputs and use lists | insert, replace, move, remove | every pass; submodules hang off instructions |
| pass manager, program (`pass_manager.cpp`, `program.cpp`) | modules by name, contexts | run_passes, compile, finalize, eval, finish | passes in order, submodules before their parents |
| schedule pass (`schedule.cpp`, `targets/gpu/schedule_model.cpp`) | weights, `ins2stream`, `ins2wait`, `waited_for`, `ins2waited`, conflict table | accumulate_weights, assign_streams, sort, the insertion loop, get_conflicts | inserts set_stream, wait_event, record_event, and identities read by memory_coloring |
| gpu context (`targets/gpu/.../context.hpp`) | streams, current stream, events, problem cache | set_stream, record, wait, finish, wait_for, finish_on | instructions of the evaluated program, HIP, the user's queue |
| race analysis (`analyze_streams.cpp`) | vector clocks per stream and event | one pass over a module | the schedule pass's output |
| memory_coloring (`memory_coloring.cpp`, `liveness.hpp`) | conflict table, segments | liveness, place, three reducing rounds, replace | identities of the schedule pass |
| compile_ops (`targets/gpu/compile_ops.cpp`, `problem_cache.cpp`) | plans, results, cache, cache file | two turns of add / compile in parallel / benchmark / replace | the context's problem cache, shared by modules and processes |
| DCE, identities, CSE (`dead_code_elimination.cpp`, ...) | iterator over a list being changed | move to the end and remove; replace | module graph |
| inlining and promotion (`inline_module.cpp`, `promote_literals.cpp`) | `map_ins`, users to replace | copy a branch, use literals of main | module graph, DCE |
| constant propagation (`propagate_constant.cpp`) | constants, literals | evaluate in parallel, replace in order | parallel loops, module graph |
| parallel loops (`simple_par_for.hpp`, `par_for.hpp`) | threads, index ranges | run an index range | get_conflicts, compile_ops, constant propagation |
| change signals (`bit_signal.hpp`) | slots | subscribe, notify | repeat_while_changes |
| loop operator (`run_loop.hpp`, `op/loop.hpp`, `targets/gpu/loop.cpp`) | two sets of loop carried buffers, rows of scan outputs | one iteration, append, set_zero | submodule evaluation, parsers, lowering |
| host memory (`targets/gpu/hip.cpp`) | cache of registered host pointers | register, allocate, copy | evaluation |
| allocation passes | allocation instructions | rewrite | memory_coloring |
| shapes (`shape.cpp`, `op/reshape_lazy.hpp`) | dimensions and strides | alias a buffer with other dimensions | lowering, eliminate_contiguous |
| rewriting and fusion passes, parsers, values, other targets, kernels, APIs | - | tensor algebra, data code | out of scope, section 8 |

What is hard: kernels of one evaluation run on several streams concurrently
with the host; waits and `set_stream`s are *left out* wherever the pass believes
they are not needed; events and the current stream survive from one evaluation
to the next; results share memory on the word of a liveness analysis of the
*sequential* order; solutions pass from one compile plan to another through a
cache that outlives the process; passes move, copy and free instructions of the list
their iterator is in, and repeat each other while anything changes. None of this shows in a test on one stream, and
little of it in one with several.

What makes each component correct: a kernel reads finished results only, and
they are still there (schedule, evaluation, memory colouring together); sorting
keeps a program order; the buffer is large enough and never shared by results
live together; after compile_ops no op is left uncompiled, and each problem is
tuned once; a pass keeps what the program computes and the use lists exact, and a
loop of passes ends at a program its last round left as it was; liveness: every pass ends. PROJECT.json lists
the hazards line by line, with the properties aimed at each.

## 2. Modules

    StreamModule ── Schedule ──┐                       Dataflow (abstract)
         └───────── StreamExec ┴─ ScheduledExec ──implements──┘
                                       │   ├ ScheduledExecInv ─ ScheduledExec_proofs
                                       │   └ AnalyzeStreams ─ AnalyzeStreams_proofs
    ProgramOrder ─ StreamPartition ─┬─ StreamAssign ─ StreamAssign_proofs
                                    └─ StreamPlan (the whole of it at once, for MCGraphs)
    Schedule ─ MemoryConflicts ┐
    MemoryColoring ────────────┴─ SharedMemory ─ UserQueue ─ UserQueue_proofs
         └ MemoryColoring_proofs
    CompileOps ─ CompileOps_proofs

    ModuleGraph ─┬─ DeadCode ──────────┐
                 ├─ PropagateConstant ─┴─ InlineModule ─┐
    ParFor ──────┘ (threads of the latter)              ├─ PassManager
                 └─ CommonSubexpression ────────────────┘      └ PassManager_proofs
    Shape ─ ReshapeLazy
    LoopBody ─┬─ Loop (abstract) ──implements──┐
              └─ RunLoop ──────────────────────┘ ─ RunLoop_proofs

* **StreamModule**: a module when the insertion loop runs: `plan` (its inputs,
  streams, effective inputs `deps` = `get_streams_from`, the kernels `reads`), and
  what the pass has inserted (`setStream`, `waits`, `record`). An inserted
  instruction is kept with the one it is inserted at.
* **Schedule**: the insertion loop of `schedule::apply`. `Skip`: no stream;
  `Sched`: `model.sched` and the list of recorded instructions of a merge point;
  `WaitOn(j)`: one turn of the wait loop, in any order of the unordered map;
  `Leave`: `ins2waited` at a split point. `NoConcurrency` is the early return.
* **StreamExec**: evaluation. The host queues (`Launch`, `HostOnly`), streams
  `Start` and `Complete` kernels, `Finish` waits for the current stream
  (`context::finish`). HIP is external and modelled from its use: a stream executes
  in order, a wait refers to the last record *queued* so far and does not block
  without one. `Finalize` is `module::finalize`, which runs `set_stream::finalize`.
* **Dataflow**: what an evaluation promises, without streams. **ScheduledExec**
  composes pass and evaluation and implements it (`ImplementsDataflow`).
* **AnalyzeStreams**: `analyze_streams` on what the insertion loop made of a plan and
  on hand written modules, such as those of `test/analyze_streams.cpp`, which are then
  evaluated by StreamExec. `Visit` is one turn of the first loop, for an instruction
  with the set_stream and the waits before it and the record after it; `Check` one of the
  second. `ModelStream` is the stream of `make_stream_model`: that of the last
  set_stream, 0 before the first.
* **ProgramOrder / StreamPartition / StreamAssign**: `accumulate_weights` (`Weigh`), the
  recursion of `assign_streams` that cuts a graph into partitions (`Visit(j)`, `Return`), the
  loop that gives them streams (`StartPlacing`, `Place(p, s)`) and `sort` (`StartSorting`,
  `Pop(c)`, `EndSorting`), one turn of a loop or call of the recursion an action; the calls
  under way are the variable `calls`. The iteration over an unordered map of instructions is
  by address: `addr` is a parameter of a graph and both orders are run.
* **StreamPlan**: the same turns run to their end by recursive operators; `PlanOf` turns a
  graph into the plan the other runs start from.
* **MemoryColoring**: `liveness`, `build_conflict_table`, the queue order, the
  placing loop (`Place`), the reducing rounds (`Reduce`, `NextRound`), `Replace`.
  The loop over `std::set` in `find_gap` is the set `GapsAfter`, of which the first is taken.
* **MemoryConflicts**: `find_concurrent_instructions` (`Collect`, backwards through
  the module, one action per instruction) and `get_conflicts` (`InsertIdentities`).
  Dominators are defined by paths rather than by the iteration of `dom_info.cpp`.
* **SharedMemory**: Schedule, MemoryConflicts, MemoryColoring (INSTANCE) and
  StreamExec in a row; `content` says which kernel last wrote each unit of the
  buffer. A kernel writes from the moment it starts.
* **CompileOps**: `compile_ops::apply` on one module after another, both turns;
  `Compile(p, k)` is one of the parallel compiles and may fail; `Benchmark` chooses
  any solution that has a binary as the fastest; exceptions end the pass (`Throw`,
  `AddThrows`); the context's destructor saves the cache (`NextProgram`), a `Crash`
  does not. `before` is a history variable.
* **UserQueue**: SharedMemory evaluated on a queue of the user (`exec_env.async`):
  `wait_for` puts the event of the user's earlier work before everything on the *current*
  stream, `finish_on` records the event the user's later work waits for on the stream
  that is current at the end. The host waits for nothing.
* **ModuleGraph**: modules, instructions with operator, inputs, submodules and use
  lists, and one operator per call a pass changes them with (`ReplaceInstruction`,
  `ReplaceOperation`, `RemoveInstructions`, `InsertInstruction`, `RemoveModule`, ...), each
  with all its updates of use lists and the change signal. `Value` is what an instruction
  computes, as a term, `Meaning` what a program returns and its effects: it is
  compared after every pass with what it was before all. An
  instruction without elements in its result that nobody uses is an effect. `Call`
  is any of the calls, with any arguments a pass may give it; `OnlyCalls` says that a
  step is one of them. `EnteredBefore(lists, mods, j)` are the modules that may be evaluated
  before j is: `InOrder` is `module::validate` with nested modules.
* **DeadCode**: `dead_code_elimination` and `eliminate_identity`: one turn of the loop
  with the look at the instruction before the iterator, one leaf of the recursion, the
  moves behind the end and the final removal are steps of their own.
* **CommonSubexpression**: `cse_range`, a stack of its recursive calls, each with its tables.
* **ParFor**: `simple_par_for`: ranges handed out to threads one by one; a thread keeps
  the copy of `work` it was started with and runs concurrently with the generator.
* **PropagateConstant**: collects constants, evaluates them with ParFor's threads
  (one call of f is a step), adds the literals and replaces in order.
* **InlineModule**: `inline_module` and `promote_literals`, with the copies of a branch
  (`insert_instructions`, `map_ins`), one instruction a step.
* **PassManager**: `run_passes` over modules, submodules first (`ModuleOrders`), then the
  program (`remove_unused_modules`); `optimize_module` and `simplify_algebra` as nested
  loops with their change signals (`frames`, `slots`); `PassStep` is one step of the
  pass that is running.
* **Shape, ReshapeLazy**: strides, standard layout and indices of static shapes; the
  walk of `reshape_lazy_dims` over the dimensions of input and result, one turn a step.
* **LoopBody, Loop, RunLoop**: a loop operator and what its body makes or passes on; what it
  promises: the body applied again and again to values, rows that no iteration gave zero; and
  `run_loop` on buffers. On the gpu an iteration writes carried values into one of two sets
  in turn (`CarryDep`) and scan outputs into their rows; on ref results are allocated and rows
  appended. `Test`, `Make` (a result of the body, in any order), `EndIteration`, `Finish`
  (`set_zero`). The assertion that a row is in the output (`run_loop.hpp:111`, and in `append`
  on ref) is a guard: a loop that fails it is over. ImplementsLoop maps `carried` to what the
  buffers of `in_args` hold.

Operators named as a mutant in a comment (`WaitOnShared`, `ConflictOneWay`, ...) are
deliberately wrong variants of the operator next to them. They are used by no
specification; substituting one for its original must make a property fail.

## 3. Runs

| run | bounds | question |
|---|---|---|
| schedule | N=4 instructions, 3 streams, 2 evaluations; all 21 input lists x all 64 stream assignments (also "no stream"), 100,598 states | Does leaving out waits and set_streams ever show? |
| nested | N=4, 2 streams, one use through a submodule | violation: finding 1 |
| analyze | N=4, 3 streams; scheduled: all flat graphs; hand written: two shapes of inputs, every stream assignment, two events with up to 3 records and 2 waits, 644,598 states | Do the vector clocks say what the streams do? |
| stream_assign | all live graphs of 5 (weights 0, 3) and of 4 (0, 1, 3, 7), submodules, 3 streams, 233,450 states | Are the stream assignment and the new order what the loop relies on? |
| memory_coloring | 5 allocations in 10 instructions, all interval patterns, about 96,000 states | Are results that are live together kept apart, inside the buffer? |
| shared | 5 kernels, 10 instructions, on 1 and on 2 streams, alone or on a user's queue, 34,136 states | Do concurrent kernels keep out of each other's results, and an evaluation out of the work around it? |
| shared_reads | the same | violation: finding 2 |
| compile_ops | 3 ops, problems with 2, 3 and no solutions, 2 modules, failures, 341,920 states | Do two turns do, and is tuning done once? |
| compile_single | 3 ops, 2 problems, 2 modules | violation: finding 3 |
| passes | 13 instructions, 4 modules, 1,320 programs in five families, the gpu's and the cpu's list of passes, 2 threads, 397,893 states | Do passes keep the program, its use lists and each other informed? |
| reshape_alias | dimensions 1, 2, 3, 6, up to 12 elements and rank 3, every packed or broadcast layout in every order, 43,140 states | violation: finding 4 |
| loop | 2 carried values, 1 scan output, up to 5 iterations asked for (default 3, limit 4), all bodies, ref and gpu, 104,216 states | Which bodies are two sets of buffers enough for, and is every row right? |

Why the bounds are enough. The rule of the insertion loop relates at most four
instructions: a recorded one, one on a third stream that waited for it, one that
joins the two and one that relies on the wait left out; with three streams all of
these, and an event passed on through a third stream, occur. Two evaluations show
what survives one (current stream, events); the proofs cover all sizes. For the
analysis, three records of two events give one that is overwritten before and one after a
wait, and two waits a chain through a third stream. Five
allocations are the fewest for which a segment lies inside another one, a gap lies
between two and a reducing round moves something. Five kernels are the fewest with
a merge point, a concurrent kernel and a reader on each side. Three ops give one
that is benchmarked, one that waits, and one of another problem between them.
The five families of programs in MCPassManager are made for one hazard each: chains of
three operators that die, turn into units or are effects; equal instructions with equal
users, in two orders; up to three constants, one inside another, so that two threads get
ranges of unequal size; modules below modules; branches of known condition to inline,
with a loop or a literal in them. Two lists of passes are needed because the cpu's has no
`optimize_module` and runs CSE, `simplify_algebra` and `propagate_constant` on their own.
Three iterations of a loop use each set of buffers and the first one again; two carried
values allow results to be shared or handed on; a default below the limit
lets a trip count that is a parameter stop before and at the last row, and one above the
limit run into the assertion.

All runs use CHECK_DEADLOCK FALSE: the system does stop, after the last evaluation
(`Runs`), after the pass, or after `MaxModules`. Bounds are the constants `Runs` and
`MaxModules` and the sets of graphs in the MC modules; no action is cut otherwise.
No symmetry is used, because stream numbers, ids and positions are ordered.

### Properties

* `InputsReady`: a started kernel found every result it reads complete.
  `FinishCoversAllStreams`: waiting for one stream at the end is enough.
  `LaunchedOnItsStream`: left out set_streams never misplace a kernel, also in later
  evaluations. `WaitsFollowRecords`: every wait has its record before it, once.
  `NoRepeatedWait`: no wait is inserted that the stream already had.
  `ImplementsDataflow`.
* `ClocksAreExact`: clocks are ordered exactly when records and waits order the kernels.
  `UnreportedIsRaceFree`: what is not reported does not race in any evaluation.
  `ScheduledIsClean`: the schedule pass passes the analysis.
* `OrderIsProgramOrder`, `CriticalChainOnStreamZero`, `StreamsAssigned` (with the number of
  streams used), `LoadsBalanced` (greedy bound on the loads) for the assignment.
* `AdjacentSegmentsDisjoint` (the assertion in `memory_coloring::apply`),
  `LiveTogetherApart` (bytes of allocations whose intervals meet, computed from the
  program and not from the conflict table), `LoadsFitScratch`.
* `OutputsDisjoint`, `SameStreamReadsIntact`; `ReadsIntact` fails. `LaterSeesAll`: what the
  user queues behind an evaluation starts after all of it, on every stream;
  `EarlierIsOver`: on one stream nothing of it starts before the user's earlier work ends
  (with more streams only the current one waits: the hazard at `context.hpp:334`).
* `OnlyMarkedLeft`, `SameProblemSameCode`, `BenchmarkedOnce`, `SolutionsStay`,
  `PassEnds`; `AllCompiled` fails in compile_single.
* `UseListsExact`, `OnlyCalls` (every step is a call ModuleGraph knows, of the kind the
  theorems are about), `InputsEvaluated` (an instruction comes after what it and its
  submodules use), `MeaningKept`, `CleanAfterElimination` (nothing dead is left although
  the list changes under the iterator, until the pass removes unused modules), `MergedAfterCse`, `EveryIndexOnce` (each constant is
  evaluated by one thread, once), `ChangesSeen` (a change is seen by every loop being run,
  so none ends early at a program it could still change), `PassesEnd`.
* `ImplementsLoop`: a loop on ref, and one on the gpu for which `TwoSetsDo` and `RowsAreMade`
  hold, computes what the body applied again and again does. `TwoSetsDo`: no value made in
  one of the two sets is handed on to a carried position, or there are at most two iterations;
  `RowsAreMade`: a scan output is a result of its own. `WritesApart`: a kernel of a body never
  writes an argument of the operator, which may be a literal, nor, where `TwoSetsDo` holds, a
  buffer its iteration reads.
* `SameElements` fails: a lazy reshape has the elements of its input in their order.

### Fairness

Nothing is assumed of evaluation, which has no liveness property: a wait refers to records
queued before it and does not block without one, so no choice of the schedule pass can
hold an evaluation up. `CompileOps!FairSpec`: weak
fairness of the pass as a whole: its threads go on as long as one of them can;
compiles are finite. `PassManager!FairSpec`: weak fairness of Next: the compiling thread
and the threads `simple_par_for` starts run on. `PassesEnd` is then a matter of the passes
themselves: loops over changing lists, and rounds bounded by `repeat_while_changes`.

## 4. Findings

1. **nested** (`schedule.cpp:589`): the wait loop looks at inputs only, not at the
   implicit dependencies of submodules that `sort` honours: such a kernel may start
   before what its submodule reads is complete, on two streams.
2. **shared_reads** (`schedule.cpp:619`): memory conflicts keep the *outputs* of
   concurrent kernels apart, but nothing keeps the *inputs* of a kernel alive that
   runs later than its place in the program order says. With a on stream 0, c on
   stream 1 reading a, and e, d on stream 0, d may be given a's allocation and run
   before c does.
3. **compile_single** (`compile_ops.cpp:211`): a config with one solution is not
   inserted into the cache after its benchmark, so another op with that problem
   stays uncompiled (`assert(cm.cps.empty())`, line 362).
4. **reshape_alias** (`op/reshape_lazy.hpp:219`): where a dimension of the input is split,
   its parts are looked for at place i of the result instead of place r; once the two
   differ the view has the strides of other dimensions. {2, 6} with strides {0, 1}, reshaped to
   {1, 2, 3, 2}, gets strides {0, 0, 3, 1}. Standard inputs never come to this branch.

1 and 2 need `MIGRAPHX_NSTREAMS` above 1.

## 5. Proofs

Proved with TLAPS, for every value of the constants:

* `ScheduledExec_proofs`: `TypeCorrect`; `InvHolds` and from it `RaceFreedom`,
  `FinishIsComplete`, `StreamsAsPlanned`; `WaitsAreRecorded`; `EventsWaitedOnce`; `Refinement`
  (safety: initial states and steps map to initial states and steps of Dataflow or stutter).
* `AnalyzeStreams_proofs`: `UnreportedDoesNotRace`, what `analyze_streams` does not report is
  free of races, on scheduled modules and on hand written ones; `ExactClocks`, its clocks are
  those of the happens-before order and no more; `ScheduledHasNoRaces`, it reports nothing on
  what the schedule pass made.
* `StreamAssign_proofs`: `LongestChainTogether`, `EveryoneHasAStream`, `SortKeepsProgramOrder`,
  `LoadsStayBalanced`.
* `MemoryColoring_proofs`: `ColoringTypeCorrect`, `SegmentsDisjoint`,
  `LiveAllocationsApart` (bytes live together never overlap), `LoadsInScratch`.
* `UserQueue_proofs`: `HeldBack` and `AllSeen`, the two ends of an asynchronous evaluation;
  `OneStreamReadsIntact`, shared memory on one stream.
* `RunLoop_proofs`: `RunsTheLoop` (safety of the refinement of Loop, for the loops
  `TwoSetsDo` and `RowsAreMade` name) and `WritesStayApart`.
* `CompileOps_proofs`: `OneSolutionPerProblem`, `OneBenchmark`, `SolutionsAreKept`,
  `OnlyMarksLeave`.
* `PassManager_proofs`: `UseListsStayExact`, `NothingFreedIsUsed`, of every sequence of calls on
  the modules of a program, whatever passes make them; `EveryIndexRunOnce`. Of the passes
  themselves, on every program and for every list of passes: `EveryChangeSeen`; `PassesMakeCalls`,
  so that the first two hold of them (`UseListsExactThroughout`); `InputsStayEvaluated`, no pass
  ever puts a use before its definition, in a module or across modules; `SubmodulesFirst`. And
  what two passes are for: `SweepMergesAll`, `NothingDeadLeft`.

Assumptions: `SizeAssumption`, `PlanAssumption` (a plan is a well formed module, in
program order, whose last instruction is @return on stream 0, without dead code),
`RunsAssumption`; `FlatPlans` (no submodules: finding 1 shows that the claim is false with
them); of StreamAssign `StreamsAssumption` and `GraphsAssumption`; of MemoryColoring
`InstrsAssumption`, `ProgramsAssumption`; of SharedMemory `AllocAssumption`; of RunLoop
`LoopSizeAssumption` and `LoopsAssumption` (any body and any trip count; which gpu bodies two
sets are enough for is a condition in the properties); of ModuleGraph
`InsAssumption`, `EndAssumption`, `MainAssumption`, `ModulesAssumption`, `ProgramsAssumption` (a
program compiled is valid: what is in no module is free, and nothing in one uses it; no
instruction is in two places; inputs come first; a module has a last instruction, which nothing
uses; a parameter has no inputs); `ConcurrencyAssumption`; of CompileOps `OpsAssumption`,
`SolutionsAssumption`, `NamesAssumption`. TLC evaluates them in the runs. `OnlyMarksLeave` assumes
that no config has exactly one solution: finding 3 shows that it is false with one.
`LoadsInScratch` assumes types of 1, 2, 4 or 8 bytes, for the alignment of a load to be a
divisor of the largest one. `AllSeen` assumes one evaluation, since the model follows no
evaluations that overlap. The theorems about memory on one stream assume `SingleStream` and
`OwnAllocations`; with several, finding 2 shows that `ReadsIntact` is false.

The argument of race freedom. `InputsReady` is not inductive: that a kernel's inputs are
done when it starts may follow from waits inserted for *other* instructions. The
inductive invariant `Inv` (module ScheduledExecInv) is `TypeOK`, that the plan is flat,
`PassInv` and `ExecInv`. The heart of `PassInv` is `KnownInv`, what a wait that was left out
rests on. Call a set D of completed kernels *closed* when every event the loop knew
of when it left a member of D (`known`, the value of `waited_for[stream]`) was recorded
after a member of D. For every instruction i: in each closed D that has the earlier
kernels of i's stream and the kernels that i's own waits refer to, every event known at i
has fired. `CoverInv` adds that the recorded inputs on other streams are among the known
events, `EventsInv` and `WaitsInv` that ids are fresh and recorded earlier, `SetStreamInv`
that the set_stream in force at an instruction names its stream. `ExecInv` says
that the kernels done are such a set: a started kernel found the earlier kernels of
its stream done and its known events fired (`StreamInv`). Its part `QueuesInv` does not rest on
the host waiting at the end of an evaluation, and is used again for evaluations on a queue of
the user. A step of the pass disturbs the first
part only, since evaluation has not begun; a step of the evaluation only the second,
since the pass is over.

`EventsWaitedOnce` needs no plan without submodules: an event a stream waits for is in its
`waited_for` (`WaitedInv`), which only grows.

For the analysis: call a set of kernels *ordered* when it has, with a kernel, those before it
on its stream and those whose records its waits refer to (`Ordered`). `CoverageInv` says that
the clock of an instruction counts only kernels that are in every ordered set the instruction
is in, that the clock of a stream does so for the sets with all its kernels visited so far,
and what is stored for an event for the sets with the kernel of its last record. With
`OwnCountInv` (no clock is ahead of a stream's own count) it is kept by a visit, because the
count of the stream visited is new to every older clock. In an evaluation the kernels completed
and one that starts are an ordered set (`EvaluationInv`); what happens before that one is
therefore complete. The assumption on hand written modules is `HandWrittenAssumption`: stream
instructions are at kernels, and the first kernel is at or after a set_stream (without one,
the stream in force at the start is what the evaluation before left, while the model of the
analysis takes 0).

`ExactClocks` is the other direction: `DirectInv` says that an instruction's clock is not behind
that of any instruction it follows directly and ahead of it on its own stream, and that streams
and events are not behind what they tell of. The instructions whose clocks are below that of one are
then an ordered set, so it has all that happens before it, while `CoverageInv` says
that it has no more. For `ScheduledHasNoRaces`, the set of instructions that happen before a kernel is
*closed* in the sense of `KnownInv`, so `CoverInv` puts what the kernel reads among them: the
argument of race freedom, on the order of the module in place of the run of the device.

For stream assignment: `AssignInv` has a part for each phase. While the walk goes on, every
instruction visited has its inputs visited or waiting in a call (`InputsWalked`), was reached from a
user and starts a partition only beside a heavier input (`StartedInv`), and the
others are still in program order (`UnvisitedInOrder`). `ChainInv` names a set that holds the
result and, with an instruction, an input none of the others outweighs, all in the critical partition:
the heaviest chain has no gap. `PlacedInv` says that a load is above zero exactly
if something was placed on its stream, and that two loads never differ by more than one
partition weighs; `SumsInv` adds that what `assign_streams` counts for a partition and for a stream
is the sum over its instructions. Sums and accumulated weights are recursive functions (`SumIn`,
`InOrder`), whose equations, and what follows of them for unions and numbers, are lemmas from a least
counterexample. `SortInv` counts moves to the front: an instruction
that was moved is itself still among the children to be moved again, or all it needs is, or is in
front of it.

For the user's queue: with one stream the queue begins with the wait for what is ahead
(`GateInv`); the event recorded at the end is on the stream of @return, which `FinishCoversAllStreams`
shows to be the last (`FinishInv`). On one stream kernels start in program order, a buffer holds the
result of the last kernel started that writes it (`LastWriter`), and the conflict table of the colouring
has every allocation that is taken while the result is still to be read: the colouring is
an instance of MemoryColoring, whose theorems are used.

For the loop: `RunInv`, which holds of every loop, says which buffers an iteration reads. On the
gpu (`GpuArgs`) they are arguments, rows given before, buffers of the set of the *other* parity, made by
the last iteration, or, from the third iteration on and only if the body hands a value of the sets
on, any of the two sets; on ref what earlier iterations allocated (`RefArgs`). `TwoSetsDo`
rules the last case of the gpu out: then no destination is one of the buffers read, so
the values read stay what they were when the iteration began, and what is made so far is what it
should be (`MadeInv`). Rows not given by an iteration are zero after `set_zero` since each row is
either the row of an iteration run or of none; with `RowsAreMade` the body writes each
row it is given.

For memory colouring: `SegmentsDisjoint` needs that the allocations of the queue before the
current one (or all, in the reducing rounds) have segments, pairwise disjoint along the
symmetric conflict table, and that `NextSegment` of a set of segments overlaps none of them, a
lemma about gaps in a set of possibly overlapping segments. `LiveAllocationsApart`
follows from it because an allocation used after another one is allocated is in the
conflict table, a segment has the units its allocation needs (`SizedInv`), and a load's
offset is the start of its segment.

For the graph: `GraphInv` says that inputs and use lists are typed, a use list holds exactly
the users, an instruction in no module uses nothing, and nothing in a module uses one that
is in none. It is preserved by every `Call`; the guards of a call (only an unused
instruction is removed, only an instruction in a module is used as a replacement) are those
the passes keep, which `PassesMakeCalls` proves.

For the passes (`ValidHolds`), from the list up. An order of a list is what `Earlier` says of it;
lemmas say what each change of a list (insertion, move, removal) does to it. The order of the
program is `EnteredBefore`: the modules in every set that is closed under entering what
hangs off instructions not behind j. It is compared before and after a call without
induction, by showing that a set closed for the one is closed for the other. `ProgramInv` adds to
`InputsEvaluated` the shape of the graph and that the last instruction of a module is used by
nothing. Each call of ModuleGraph keeps it under a condition on the positions of its arguments
(`CallKept`: the replacement is available where the users are). That the passes meet the
condition takes an invariant of each: what a call of `cse_range` has been through comes before
what it has still to take (`CseInv`); what walks have moved behind the last instruction is
used by nothing, and the iterator never gets there (`DeadInv`, `IdentityInv`); the copies made so
far of a branch are in front of the `if`, in order, and stand for what `map_ins` says
(`InlineInv`); a literal promoted is the first instruction of main (`PromoteInv`). Above them
`TodoInv`: the modules a pass has still to run on are used, each behind what hangs off it, so
a pass on a submodule is over before a pass on its parent removes or inlines it.

For `NothingDeadLeft` the walk has two parts. What is dead, not behind `last` and not yet moved
(`StillDead`) is, between turns, nowhere in front of the iterator but possibly right in front of
it, and during the recursion one of its leaves (`SweepInv`): an instruction whose last use goes is
an input of what went, so it is in front of that and becomes a leaf. `SweepInv` also says why the
iterator may run into what has been moved: it stops right behind `last` (`AtLast`), and what is
there has lost its inputs, so cutting it off takes a use from nothing. Then `CleanInv`: a module
in which nothing is dead stays so while the pass is run on others. A step of any pass takes uses
only from instructions used in the module it runs on (`ElsewhereKept`), and no module still to be
run on uses what is in one that is done (`NotUsedAbove`, from `TodoInv` and `InputsEvaluated`:
evaluation could enter it without having entered the other).

For `SweepMergesAll` the outermost call is the one that counts (`MergeBase`): what it has kept is
in use and pairwise different, and what else is in use it has in hand or takes yet. A call inside
it replaces an instruction in use only if the outermost one is still to take it:
were it kept, the earlier instruction that takes its place, which is in use as well
(`MergeFrame`), would be kept too and the same (`FrameInv`: what a call has been through comes
before what it has not). Users come after what they use (`InputsEvaluated`), so no replacement
rewrites what is kept, and no two of it become the same (`MatchLeavesKept`).

For change signals (`SignalInv`): there is one slot per loop being run and none for a pass that
`run_passes` runs itself, so a step that calls `notify` is seen by all of them. That leaves the
steps that change the module without a sign. Only `promote_literals` replaces an input so,
and no loop runs it; clearing the inputs of a dead parameter, which is kept, gives no sign
either, but a parameter has none to lose (`ParamInv`, preserved by every pass).

For parallel loops: the ranges of the threads started follow one another up to `work`, and
an index has been run once exactly if it was handed out and its thread is past it. The
steps of PassManager map to steps of ParFor or leave its variables alone.

For tuning: a problem with a mark made by the module being compiled has exactly one plan
with more than one result (`ManyInv`, `OneManyInv`), and that plan is still in `cps`
(`WaitingInv`). A cached solution is the one any plan of the problem is replaced with
(`SingleInv`, `CodeInv`). For `OnlyMarksLeave`, `TurnsInv` adds that a plan left in the second
turn had a problem marked when the module was begun.

Not proved, only model-checked: liveness (`PassEnds`, `PassesEnd`;
fairness is out of reach of the prover); `OutputsDisjoint` (empty on one stream) and
`SameStreamReadsIntact` with several streams, which hold of the plans `assign_streams` makes and not
of every plan; `MeaningKept`: values are defined by recursion over data, and that a rewrite keeps
them needs induction along the program.

## 6. Abstractions

* The commands queued for an instruction are one host step (argued in StreamExec).
* Units of the scratch buffer are its alignment; bytes appear where rounding matters.
* A problem is a member of a small set, a solution a number, code the solution it came from;
  times are a free choice among the solutions with a binary.
* A module analysed is flat; its last instruction, @return, is a kernel where it is hand written.
* Exceptions of `get_tuning_config` are left out; tracing (and the save it
  does) too.
* The thread tables of `get_conflicts` are merged at once; their threads share nothing.
* Inputs from an outer module do not occur in a plan.
* Programs of `passes` are families (MCPassManager). Shapes are left out, but for operators
  whose result has no elements. Submodules have no parameters. Excluded: a constant of the
  parent replaced for a use in a submodule, a module nobody uses inside another one,
  and (`IsLeaf`) a branch whose instructions are used by a module nested in it, for
  which `InputsEvaluated` is violated (hazard at `module.cpp`, PROJECT.json).
* Assertions of `module.cpp` are guards: what is replaced or moved is in the module
  (`move_instruction` in `eliminate_identity` has no check of its own, so an identity at the end of
  a submodule of an outer instruction with one use stops the pass in a debug build), a module
  removed has no users outside. A new instruction has an address no other one has.
* Modules run in any order with submodules first. The code's, the reverse of
  `get_sub_modules`, is one of them. The instructions `cse_range` has still to take are a set, taken
  in the order of the list.
* The condition of an `if` that is inlined is a literal, One or No.
* `optimize_module` runs without `simplify_reshapes` and `eliminate_convert`;
  `simplify_algebra` is its loop and `find_unit_ops`, the one rewrite that removes a use.
* `m == *root_module` of `promote_literals` is taken to mean main.
* Kernels of a loop body run in any order but one after the other; the condition is copied back
  when the body is done (`copy_from_gpu`). A trip count may exceed the rows of a scan output: the loop is then over at
  the assertion, and nothing is said of the release build, which writes behind the output. The
  parsers accept gpu bodies outside `TwoSetsDo` and `RowsAreMade`, and lowering copies nothing for them. They are in
  the model but the properties claim nothing of their results: the code breaks there, a
  carried value being overwritten in the third iteration, a row never written. See the hazards
  at `run_loop.hpp:128` and `gpu/loop.cpp:68` in PROJECT.json.
* `propagate_constant` takes every operator that can be evaluated for a constant once its inputs
  are: its exceptions for some shapes and names of operators (`skip_propagate`, `skip_ops`) are
  left out.
* Slots of change signals are one sequence, that of the module the passes run on.
* Loads and strides are exact numbers; the layouts of `reshape_alias` are packed in any order,
  with one dimension broadcast at most.

## 7. Plan

1. done: Dataflow, StreamModule, Schedule, StreamExec, ScheduledExec and proofs;
   StreamPartition, StreamAssign.
2. done: MemoryColoring and proofs, MemoryConflicts, SharedMemory.
3. done: CompileOps with the problem cache, and its invariants as theorems.
4. done: AnalyzeStreams; UserQueue with `wait_for` and `finish_on`.
5. done: ModuleGraph with DeadCode, CommonSubexpression, InlineModule and PropagateConstant
   below PassManager with its change signals; ParFor; theorems about use lists and ParFor.
6. done: ReshapeLazy, one view operator. The other view operators could share `Shape`.
7. done: Loop and RunLoop. Open: the memory of a gpu loop together with MemoryColoring (what
   `output_alias` says of it), host pointers registered by two threads, overlapping
   asynchronous evaluations, evaluation of submodules on streams.
8. done: theorems about AnalyzeStreams, StreamAssign, RunLoop, UserQueue and change
   signals; `OnlyCalls`, `InputsEvaluated`, `CleanAfterElimination` and `MergedAfterCse` for the
   passes themselves. Open: `OutputsDisjoint` with several streams as far as its invariant can be
   found.

## 8. Not modelled

Algebraic rewriting (beyond `find_unit_ops`), fusion and quantization: their correctness
is tensor algebra over numbers, which terms without shapes cannot tell apart. Parsers,
values and serialisation are sequential data code; numerical operators of the targets and kernel
generation are numerics; APIs and driver are wrappers. These make up most of the lines of the
repository. The allocation passes rewrite one instruction at a time and have
no state. The cache of registered host pointers has behaviour of its own and is in the plan. PROJECT.json lists every part with its status.

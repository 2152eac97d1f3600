----------------------------- MODULE CompileOps -----------------------------
(***************************************************************************)
(* The compile_ops pass of the gpu target and its problem cache.  Every    *)
(* precompile op of a module gets a compile plan.  A plan with a tuning    *)
(* config is looked up in the cache by its problem: a cached solution is   *)
(* compiled; a problem not seen before is marked and all its solutions are *)
(* compiled and benchmarked; a marked problem is left for the second turn, *)
(* when the benchmark of an earlier plan has put the solution into the     *)
(* cache.  The compiles of a turn run in parallel.                         *)
(*                                                                         *)
(* A program compiles its modules one after the other with one context.    *)
(* The cache is loaded from a file (MIGRAPHX_PROBLEM_CACHE) when the       *)
(* compilation of a program begins, and saved when its context goes.       *)
(***************************************************************************)
EXTENDS Integers, Sequences

CONSTANTS
  Ops,          \* number of precompile ops of a module
  Problems,     \* tuning problems
  Solutions,    \* Solutions[q]: how many solutions the config of problem q has
  CanFail,      \* may compiling a solution throw?
  MaxModules    \* bound: modules compiled in all

CONSTANTS Untuned, Absent, Null, Precompile

Plans == 1..Ops

ASSUME OpsAssumption == Ops \in Nat \ {0} /\ MaxModules \in Nat
ASSUME SolutionsAssumption == Solutions \in [Problems -> Nat] /\ CanFail \in BOOLEAN
ASSUME NamesAssumption ==
  Untuned \notin Problems /\ Absent # Null /\ {Absent, Null, Precompile} \cap Nat = {}

VARIABLES
  problem,  \* problem[p]: of the config of plan p, Untuned without a config
  cache,    \* problem_cache: Absent, Null (marked) or the number of a solution
  file,     \* what the saved problem cache holds
  pc,       \* "idle", "add", "compile", "replace", "done" or "thrown"
  turn,     \* 1 or 2: which call of compile_manager::compile
  at,       \* the plan the loop over cps is at
  cps,      \* plans not yet carried out
  results,  \* results[p]: a sequence of [sol, out], out \in Outcomes
  code,     \* code[p]: the solution the op was replaced with, or Precompile
  modules,  \* modules begun
  before    \* history: the cache when the module was begun

compileVars == <<problem, cache, file, pc, turn, at, cps, results, code, modules, before>>

Outcomes == {"pending", "binary", "nullopt"}

NoSolution == 0  \* the empty value a plan without a config is compiled with

Cached(q) == cache[q] \notin {Absent, Null}

Compiles(sols) == [k \in 1..Len(sols) |-> [sol |-> sols[k], out |-> "pending"]]

Init ==
  /\ problem = [p \in Plans |-> Untuned]
  /\ cache = [q \in Problems |-> Absent]
  /\ file  = [q \in Problems |-> Absent]
  /\ pc = "idle" /\ turn = 1 /\ at = 1 /\ cps = {}
  /\ results = [p \in Plans |-> <<>>]
  /\ code = [p \in Plans |-> Precompile]
  /\ modules = 0
  /\ before = [q \in Problems |-> Absent]

(* compile_ops::apply on a module: a plan for every op, with its config *)
Apply ==
  /\ pc = "idle" /\ modules < MaxModules
  /\ problem' \in [Plans -> Problems \cup {Untuned}]
  /\ cps' = Plans
  /\ results' = [p \in Plans |-> <<>>]
  /\ code' = [p \in Plans |-> Precompile]
  /\ pc' = "add" /\ turn' = 1 /\ at' = 1
  /\ modules' = modules + 1 /\ before' = cache
  /\ UNCHANGED <<cache, file>>

-----------------------------------------------------------------------------
(* add_compiles of the plan the loop is at *)
Adding(sols) ==
  /\ pc = "add" /\ at \in cps
  /\ results' = [results EXCEPT ![at] = Compiles(sols)]
  /\ at' = at + 1
  /\ UNCHANGED <<problem, file, pc, turn, cps, code, modules, before>>

AddUntuned ==
  /\ at \in Plans /\ problem[at] = Untuned
  /\ Adding(<<NoSolution>>)
  /\ UNCHANGED cache

AddCached ==
  /\ at \in Plans /\ problem[at] # Untuned /\ Cached(problem[at])
  /\ Adding(<<cache[problem[at]]>>)
  /\ UNCHANGED cache

(* No solution yet until benchmarked. *)
AddMarked ==
  /\ at \in Plans /\ problem[at] # Untuned /\ cache[problem[at]] = Null
  /\ Adding(<<>>)
  /\ UNCHANGED cache

(* Mutant: the problem is not marked. *)
AddNewUnmarked ==
  /\ at \in Plans /\ problem[at] # Untuned /\ cache[problem[at]] = Absent
  /\ Solutions[problem[at]] > 0
  /\ Adding([k \in 1..Solutions[problem[at]] |-> k])
  /\ UNCHANGED cache

AddNew ==
  /\ at \in Plans /\ problem[at] # Untuned /\ cache[problem[at]] = Absent
  /\ Solutions[problem[at]] > 0
  /\ Adding([k \in 1..Solutions[problem[at]] |-> k])
  /\ cache' = [cache EXCEPT ![problem[at]] = Null]

(* "No solutions provided", thrown after the problem was marked *)
AddThrows ==
  /\ pc = "add" /\ at \in cps
  /\ problem[at] # Untuned /\ cache[problem[at]] = Absent
  /\ Solutions[problem[at]] = 0
  /\ cache' = [cache EXCEPT ![problem[at]] = Null]
  /\ pc' = "thrown"
  /\ UNCHANGED <<problem, file, turn, at, cps, results, code, modules, before>>

Skip ==
  /\ pc \in {"add", "replace"} /\ at \in Plans
  /\ at \notin cps \/ (pc = "replace" /\ results[at] = <<>>)
  /\ at' = at + 1
  /\ UNCHANGED <<problem, cache, file, pc, turn, cps, results, code, modules, before>>

StartCompiles ==
  /\ pc = "add" /\ at = Ops + 1
  /\ pc' = "compile"
  /\ UNCHANGED <<problem, cache, file, turn, at, cps, results, code, modules, before>>

(* One of the compiles, on one of the threads; exceptions end in a nullopt. *)
Compile(p, k) ==
  /\ pc = "compile" /\ k \in DOMAIN results[p]
  /\ results[p][k].out = "pending"
  /\ \E out \in IF CanFail THEN {"binary", "nullopt"} ELSE {"binary"} :
       results' = [results EXCEPT ![p][k].out = out]
  /\ UNCHANGED <<problem, cache, file, pc, turn, at, cps, code, modules, before>>

(* Mutant: plans without results are waited for too. *)
JoinAllPlans ==
  /\ pc = "compile"
  /\ \A p \in Plans : /\ results[p] # <<>>
                      /\ \A k \in DOMAIN results[p] : results[p][k].out # "pending"
  /\ pc' = "replace" /\ at' = 1
  /\ UNCHANGED <<problem, cache, file, turn, cps, results, code, modules, before>>

JoinCompiles ==
  /\ pc = "compile"
  /\ \A p \in Plans : \A k \in DOMAIN results[p] : results[p][k].out # "pending"
  /\ pc' = "replace" /\ at' = 1
  /\ UNCHANGED <<problem, cache, file, turn, cps, results, code, modules, before>>

-----------------------------------------------------------------------------
(* The plan whose results are benchmarked, one at least. *)
Replacing == pc = "replace" /\ at \in cps /\ results[at] # <<>>

Binaries(p) == {k \in DOMAIN results[p] : results[p][k].out = "binary"}

Use(k) ==
  /\ code' = [code EXCEPT ![at] = results[at][k].sol]
  /\ at' = at + 1
  /\ pc' = pc

Throw == pc' = "thrown" /\ UNCHANGED <<code, at>>

(* A single result is used as it is. *)
ReplaceSingle ==
  /\ Replacing /\ Len(results[at]) = 1
  /\ IF Binaries(at) = {} THEN Throw ELSE Use(1)
  /\ UNCHANGED <<problem, cache, file, turn, cps, results, modules, before>>

(* Mutant: the solution in the cache is not the one the op gets. *)
BenchmarkOther ==
  /\ Replacing /\ Len(results[at]) > 1
  /\ \E k, f \in Binaries(at) :
       /\ cache' = [cache EXCEPT ![problem[at]] = results[at][k].sol]
       /\ Use(f)
  /\ UNCHANGED <<problem, file, turn, cps, results, modules, before>>

(***************************************************************************)
(* Any solution with a binary may be the fastest.  Without one the first   *)
(* is, which is found out after the cache has it.                          *)
(***************************************************************************)
Benchmark ==
  /\ Replacing /\ Len(results[at]) > 1
  /\ \E k \in IF Binaries(at) = {} THEN {1} ELSE Binaries(at) :
       /\ cache' = [cache EXCEPT ![problem[at]] = results[at][k].sol]
       /\ IF Binaries(at) = {} THEN Throw ELSE Use(k)
  /\ UNCHANGED <<problem, file, turn, cps, results, modules, before>>

(* Mutant: there is one turn only. *)
EndTurnOnce ==
  /\ pc = "replace" /\ at = Ops + 1
  /\ cps' = {p \in cps : results[p] = <<>>}
  /\ pc' = "done"
  /\ UNCHANGED <<problem, cache, file, turn, at, results, code, modules, before>>

(* Plans that have results are removed; then compile is called again. *)
EndTurn ==
  /\ pc = "replace" /\ at = Ops + 1
  /\ cps' = {p \in cps : results[p] = <<>>}
  /\ IF turn = 1 THEN turn' = 2 /\ pc' = "add" /\ at' = 1
     ELSE pc' = "done" /\ UNCHANGED <<turn, at>>
  /\ UNCHANGED <<problem, cache, file, results, code, modules, before>>

-----------------------------------------------------------------------------
(* The next module of the program. *)
NextModule ==
  /\ pc = "done"
  /\ pc' = "idle"
  /\ UNCHANGED <<problem, cache, file, turn, at, cps, results, code, modules, before>>

(* The context is destroyed, also where compilation has thrown, and saves  *)
(* the cache; the next program loads it.                                   *)
NextProgram ==
  /\ pc \in {"done", "thrown"}
  /\ file' = cache
  /\ pc' = "idle"
  /\ UNCHANGED <<problem, cache, turn, at, cps, results, code, modules, before>>

(* The process ends with nothing saved; the next one loads the file. *)
Crash ==
  /\ pc # "idle"
  /\ cache' = file
  /\ pc' = "idle"
  /\ UNCHANGED <<problem, file, turn, at, cps, results, code, modules, before>>

Pass ==
  \/ AddUntuned \/ AddCached \/ AddMarked \/ AddNew \/ AddThrows
  \/ Skip \/ StartCompiles
  \/ \E p \in Plans : \E k \in DOMAIN results[p] : Compile(p, k)
  \/ JoinCompiles \/ ReplaceSingle \/ Benchmark \/ EndTurn

Next == Apply \/ Pass \/ NextModule \/ NextProgram \/ Crash

Spec == Init /\ [][Next]_compileVars

(* The pass runs on; threads that compile come to an end. *)
FairSpec == Spec /\ WF_compileVars(Pass)

Caches ==
  {c \in [Problems -> {Absent, Null} \cup Nat] :
     \A q \in Problems : c[q] \in {Absent, Null} \cup 1..Solutions[q]}

TypeOK ==
  /\ problem \in [Plans -> Problems \cup {Untuned}]
  /\ cache \in Caches /\ file \in Caches /\ before \in Caches
  /\ pc \in {"idle", "add", "compile", "replace", "done", "thrown"}
  /\ turn \in {1, 2} /\ at \in 1..(Ops + 1) /\ cps \subseteq Plans
  /\ results \in [Plans -> Seq([sol : Nat, out : Outcomes])]
  /\ code \in [Plans -> Nat \cup {Precompile}]
  /\ modules \in 0..MaxModules

-----------------------------------------------------------------------------
(***************************************************************************)
(* After the pass no precompile op is left, also where several ops share a *)
(* problem and only one of them is benchmarked: assert(cm.cps.empty()).    *)
(***************************************************************************)
AllCompiled == pc = "done" => \A p \in Plans : code[p] # Precompile

(***************************************************************************)
(* With two solutions or more in every config, the ops left are those of   *)
(* problems whose mark was in the cache before the module was begun: ops   *)
(* that wait for the benchmark of another op of the module get it.         *)
(***************************************************************************)
OnlyMarkedLeft ==
  pc = "done" =>
    \A p \in Plans : code[p] = Precompile =>
                        problem[p] # Untuned /\ before[problem[p]] = Null

(***************************************************************************)
(* Ops of a module with the same problem run the same solution, whichever  *)
(* of them was benchmarked and in which turn the others were compiled.     *)
(***************************************************************************)
SameProblemSameCode ==
  \A p, r \in Plans :
    /\ pc = "done" /\ problem[p] = problem[r] /\ problem[p] # Untuned
    /\ code[p] # Precompile /\ code[r] # Precompile
    => code[p] = code[r]

(***************************************************************************)
(* Tuning is not repeated: a solution once in the cache stays, through     *)
(* later modules, programs and processes, until it is lost in a crash.     *)
(***************************************************************************)
SolutionsStay ==
  [][\A q \in Problems : Cached(q) => cache'[q] \in {cache[q], file[q]}]_compileVars

(* A problem is benchmarked for one plan of a module at a time. *)
BenchmarkedOnce ==
  \A p, r \in Plans :
    /\ pc \in {"compile", "replace"} /\ p # r /\ problem[p] = problem[r]
    => Len(results[p]) <= 1 \/ Len(results[r]) <= 1

(* The pass ends on every module, with its ops compiled or an exception. *)
PassEnds == (pc = "add") ~> (pc \notin {"add", "compile", "replace"})
=============================================================================

---------------------------- MODULE PassManager ----------------------------
(***************************************************************************)
(* run_passes: every pass of a list runs on each module, submodules before *)
(* the modules they hang off, and then on the program.  optimize_module    *)
(* and simplify_algebra repeat other passes while the module changes.  The *)
(* modules of the passes are EXTENDed; `running` says whose turn it is.    *)
(***************************************************************************)
EXTENDS CommonSubexpression, InlineModule

CONSTANT Pipelines  \* the lists of passes, of targets

VARIABLES
  passes,    \* the list run
  at,        \* the pass of the list
  stage,     \* "next", "modules" or "program", or "done"
  todoMods,  \* modules the pass has still to run on
  frames,    \* the loops being run, the innermost last: [pass, left, at]
  running,   \* the pass that runs on Head(todoMods), or "none"
  unused,    \* modules remove_unused_modules has still to remove
  clean      \* modules whose last pass in this round was dead_code_elimination

driver == <<passes, at, stage, todoMods, frames, running, unused, clean>>
vars   == <<graph, walk, inline, stack, constVars, driver>>

-----------------------------------------------------------------------------
(* What a pass repeats, and how often at most (repeat_while_changes).      *)
Loops == {"optimize_module", "optimize", "simplify_algebra"}

Body(p) ==
  CASE p = "optimize_module"  -> <<"optimize", "eliminate_common_subexpression",
                                   "dead_code_elimination", "propagate_constant",
                                   "dead_code_elimination">>
    [] p = "optimize"         -> <<"dead_code_elimination", "simplify_algebra">>
    [] p = "simplify_algebra" -> <<"find_unit_ops", "dead_code_elimination">>
    [] p = "run_pass"         -> <<passes[at]>>

Rounds(p) ==
  CASE p = "optimize_module" -> 2 [] p = "optimize" -> 4 [] p = "simplify_algebra" -> 8
    [] OTHER                 -> 1

Loop(p) == [pass |-> p, left |-> Rounds(p), at |-> 1]

Mod     == Head(todoMods)
Inner   == Last(frames)
Round   == Body(Inner.pass)
Current == Round[Inner.at]
Advance(fs) == [fs EXCEPT ![Len(fs)].at = @ + 1]

-----------------------------------------------------------------------------
Init ==
  /\ GraphInit /\ WalkIdle /\ InlineIdle /\ stack = <<>> /\ ConstIdle
  /\ passes \in Pipelines
  /\ at = 1 /\ stage = "next" /\ todoMods = <<>> /\ frames = <<>>
  /\ running = "none" /\ unused = {} /\ clean = {}

(* Main and its submodules, each behind what hangs off it: one of these    *)
(* orders is the reverse of get_sub_modules that the code runs passes in.  *)
ModuleOrders ==
  {order \in SetToSeqs(UsedModules) :
     \A k \in DOMAIN order : \A x \in ToSet(list[order[k]]) :
       ToSet(subs[x]) \subseteq {order[l] : l \in 1..(k - 1)}}

NextPass ==
  /\ stage = "next"
  /\ clean' = {}
  /\ IF at <= Len(passes)
       THEN /\ stage' = "modules" /\ todoMods' \in ModuleOrders
            /\ frames' = <<Loop("run_pass")>>
       ELSE stage' = "done" /\ UNCHANGED <<todoMods, frames>>
  /\ UNCHANGED <<graph, walk, inline, stack, constVars, passes, at, running, unused>>

(* changed.subscribe(), and the first round *)
Subscribe ==
  /\ running = "none" /\ frames # <<>> /\ Inner.at <= Len(Round) /\ Current \in Loops
  /\ frames' = Append(frames, Loop(Current))
  /\ slots' = Append(slots, FALSE)
  /\ UNCHANGED <<modules, list, op, args, subs, outs, meaning, walk, inline, stack, constVars,
                 passes, at, stage, todoMods, running, unused, clean>>

RunPass ==
  /\ running = "none" /\ frames # <<>> /\ Inner.at <= Len(Round) /\ Current \notin Loops
  /\ running' = Current /\ clean' = clean \ {Mod}
  /\ CASE Current = "eliminate_common_subexpression" ->
            CseStart(Mod) /\ UNCHANGED <<walk, constVars>>
       [] Current = "propagate_constant" ->
            ConstStart(Mod) /\ UNCHANGED <<walk, stack>>
       [] OTHER -> WalkStart(Mod) /\ UNCHANGED <<stack, constVars>>
  /\ UNCHANGED <<graph, inline, passes, at, stage, todoMods, frames, unused>>

(***************************************************************************)
(* find_unit_ops, at every instruction of the module: x * 1 is x.          *)
(***************************************************************************)
IsOne(i) == op[i] = <<"@literal", One>>

UnitOf(i) ==
  IF Name(i) # "mul" \/ Len(args[i]) # 2 THEN End
  ELSE IF IsOne(args[i][1]) THEN args[i][2]
  ELSE IF IsOne(args[i][2]) THEN args[i][1]
  ELSE End

UnitTurn ==
  /\ turn = "next" /\ cursor # End
  /\ IF UnitOf(cursor) = End THEN UNCHANGED graph
     ELSE ReplaceInstruction(Mod, cursor, UnitOf(cursor)) /\ Notify
          /\ UNCHANGED <<modules, list, meaning>>
  /\ cursor' = NextOf(Mod, cursor)
  /\ UNCHANGED <<last, leaves, visited, turn>>

PassStep ==
  /\ \/ /\ running = "dead_code_elimination" /\ DeadNext(Mod)
        /\ UNCHANGED <<inline, stack, constVars>>
     \/ /\ running = "eliminate_identity" /\ IdentityNext(Mod)
        /\ UNCHANGED <<inline, stack, constVars>>
     \/ /\ running = "find_unit_ops" /\ UnitTurn
        /\ UNCHANGED <<inline, stack, constVars>>
     \/ /\ running = "inline_module" /\ InlineNext(Mod)
        /\ UNCHANGED <<stack, constVars>>
     \/ /\ running = "promote_literals" /\ PromoteNext(Mod)
        /\ UNCHANGED <<stack, constVars>>
     \/ /\ running = "eliminate_common_subexpression" /\ CseNext(Mod)
        /\ UNCHANGED <<walk, inline, constVars>>
     \/ /\ running = "propagate_constant" /\ ConstNext(Mod)
        /\ UNCHANGED <<walk, inline, stack>>
  /\ UNCHANGED driver

Over ==
  CASE running \in {"dead_code_elimination", "eliminate_identity"} -> turn = "removed"
    [] running \in {"find_unit_ops", "inline_module", "promote_literals"} -> cursor = End
    [] running = "eliminate_common_subexpression" -> CseOver
    [] running = "propagate_constant" -> ConstOver
    [] OTHER -> FALSE

PassReturns ==
  /\ running # "none" /\ Over
  /\ running' = "none" /\ frames' = Advance(frames)
  /\ clean' = IF running = "dead_code_elimination" THEN clean \cup {Mod} ELSE clean
  /\ WalkReset /\ stack' = <<>>
  /\ step' = "idle" /\ const_instrs' = <<>> /\ literals' = <<>> /\ next' = 1
  /\ size' = 0 /\ threadsize' = 0 /\ work' = 0 /\ threads' = <<>> /\ calls' = <<>>
  /\ UNCHANGED <<graph, inline, passes, at, stage, todoMods, unused>>

(* The slot of the innermost loop: the pass itself has none. *)
Changed == slots # <<>> /\ Last(slots)

LastRound == Inner.left = 1 \/ ~ Changed

RoundEnds ==
  /\ running = "none" /\ frames # <<>> /\ Inner.at > Len(Round)
  /\ IF ~ LastRound
       THEN /\ frames' = [frames EXCEPT ![Len(frames)] =
                            [pass |-> Inner.pass, left |-> Inner.left - 1, at |-> 1]]
            /\ UNCHANGED <<slots, todoMods, stage>>
     ELSE IF Len(frames) > 1
       THEN /\ frames' = Advance(Front(frames)) /\ slots' = Front(slots)
            /\ UNCHANGED <<todoMods, stage>>
     ELSE /\ todoMods' = Tail(todoMods)
          /\ frames' = IF Tail(todoMods) = <<>> THEN <<>> ELSE <<Loop("run_pass")>>
          /\ stage' = IF Tail(todoMods) = <<>> THEN "program" ELSE stage
          /\ UNCHANGED slots
  /\ UNCHANGED <<modules, list, op, args, subs, outs, meaning, walk, inline, stack, constVars,
                 passes, at, running, unused, clean>>

(* dead_code_elimination::apply(program&): the modules nothing hangs off   *)
(* go, in the order of a hash table.                                       *)
RunOnProgram ==
  /\ stage = "program"
  /\ IF passes[at] = "dead_code_elimination" THEN unused' = modules \ UsedModules
     ELSE UNCHANGED unused
  /\ stage' = "removing"
  /\ UNCHANGED <<graph, walk, inline, stack, constVars, passes, at, todoMods, frames, running, clean>>

RemoveUnused(m) ==
  /\ stage = "removing" /\ m \in unused
  /\ RemoveModule(m)
  /\ unused' = unused \ {m}
  /\ UNCHANGED <<op, slots, meaning, walk, inline, stack, constVars,
                 passes, at, stage, todoMods, frames, running, clean>>

ProgramDone ==
  /\ stage = "removing" /\ unused = {}
  /\ stage' = "next" /\ at' = at + 1
  /\ UNCHANGED <<graph, walk, inline, stack, constVars, passes, todoMods, frames, running, unused, clean>>

Next ==
  \/ NextPass \/ Subscribe \/ RunPass \/ PassStep \/ PassReturns \/ RoundEnds
  \/ RunOnProgram \/ (\E m \in Modules : RemoveUnused(m)) \/ ProgramDone

Spec == Init /\ [][Next]_vars

(* The compiling thread and the threads it starts all get to run. *)
FairSpec == Spec /\ WF_vars(Next)

-----------------------------------------------------------------------------
(***************************************************************************)
(* After every pass, nested ones included, the program returns what it     *)
(* returned before all of them, and performs the effects nothing used.     *)
(***************************************************************************)
MeaningKept ==
  running = "none" => Meaning[1] = meaning[1] /\ meaning[2] \subseteq Meaning[2]

(***************************************************************************)
(* Whatever dead_code_elimination has just been through has nothing dead   *)
(* left, though it moves instructions behind the end while it walks the    *)
(* list and looks at the one before its iterator.  What it does to other   *)
(* modules afterwards makes nothing dead there again; what the removal of  *)
(* unused modules, with which the pass ends, does is not looked at.        *)
(***************************************************************************)
CleanAfterElimination ==
  stage = "modules" /\ running = "none" => \A m \in clean : NothingDead(m)

(***************************************************************************)
(* After eliminate_common_subexpression no two instructions in use compute *)
(* the same from the same inputs.                                          *)
(***************************************************************************)
MergedAfterCse ==
  running = "eliminate_common_subexpression" /\ CseOver => NoneTwice(Mod)

(***************************************************************************)
(* Nothing changes without a sign: whatever a pass does to a module is     *)
(* seen by every loop being run on it (repeat_while_changes), the inner    *)
(* loops and the outer ones, so a loop that ends early ends at a module    *)
(* its last round left as it was.                                          *)
(***************************************************************************)
ChangesSeen ==
  [][<<list, op, args>>' # <<list, op, args>> =>
       \A k \in DOMAIN slots : slots'[k]]_vars

(* Every list of passes comes to its end on every program. *)
PassesEnd == <>(stage = "done")
=============================================================================

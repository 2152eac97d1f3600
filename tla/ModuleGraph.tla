---------------------------- MODULE ModuleGraph ----------------------------
(***************************************************************************)
(* A program under compilation: its modules, each a list of instructions   *)
(* (module_impl), and the instructions with their operator, inputs,        *)
(* submodules and use list (instruction).  The operators below are the     *)
(* calls passes change it with; each is one call, complete with the        *)
(* updates of use lists and the notification of change signals.            *)
(*                                                                         *)
(* An operator is a pair <<name, data>>: the data is the value of a        *)
(* literal and the name of a parameter.  Shapes are left out, except that  *)
(* operators in EmptyShape have a shape without elements.                  *)
(***************************************************************************)
EXTENDS Naturals, FiniteSets, SequencesExt

CONSTANTS
  Ins,         \* addresses of instructions
  End,         \* the end of a list
  Modules,     \* names
  Main,        \* "main"
  Programs,    \* the programs compiled: [list, op, args, subs]
  EmptyShape,  \* names of operators whose shape has no elements
  One,         \* the data of a literal of ones
  No           \* the data of a literal that is false

ASSUME InsAssumption == IsFiniteSet(Ins)
ASSUME EndAssumption == End \notin Ins
ASSUME MainAssumption == Main \in Modules
ASSUME ModulesAssumption == IsFiniteSet(Modules)

-----------------------------------------------------------------------------
(* In list l, j comes before i. *)
Earlier(l, j, i) == \E b \in DOMAIN l : l[b] = i /\ \E a \in 1..(b - 1) : l[a] = j

(***************************************************************************)
(* S has the modules evaluation may enter before it has evaluated j: main, *)
(* and what hangs off instructions there that are not behind j.            *)
(***************************************************************************)
Reached(lists, mods, j, S) ==
  /\ Main \in S
  /\ \A h \in S : \A x \in ToSet(lists[h]) :
       ToSet(mods[x]) \subseteq S \/ Earlier(lists[h], j, x)

EnteredBefore(lists, mods, j) ==
  {m \in Modules : \A S \in SUBSET Modules : Reached(lists, mods, j, S) => m \in S}

(* At every instruction each input is in front of it or, if it belongs to  *)
(* another module, evaluated whenever this one is entered.                 *)
Available(lists, mods, m, i, j) ==
  Earlier(lists[m], j, i) \/ m \notin EnteredBefore(lists, mods, j)

InOrder(lists, inputs, mods) ==
  \A m \in Modules : \A i \in ToSet(lists[m]) : \A j \in ToSet(inputs[i]) :
    Available(lists, mods, m, i, j)

(* No instruction is in two places. *)
OneHome(lists) ==
  /\ \A m \in Modules : lists[m] \in Seq(Ins) /\ IsInjective(lists[m])
  /\ \A m, n \in Modules : m # n => ToSet(lists[m]) \cap ToSet(lists[n]) = {}

(* get_sub_modules, deep, and main: what hangs off nothing is unused. *)
Used(lists, mods) == EnteredBefore(lists, mods, End)

(***************************************************************************)
(* The programs compiled are valid (module::validate): what is in no list  *)
(* is free, what is in one uses nothing that is, inputs come first, what   *)
(* hangs off an instruction is a module of the program, the last           *)
(* instruction of a module is what it returns; parameters have no inputs.  *)
(***************************************************************************)
ASSUME ProgramsAssumption ==
  \A p \in Programs :
    LET live == UNION {ToSet(p.list[m]) : m \in Modules}
    IN /\ p.list \in [Modules -> Seq(Ins)] /\ OneHome(p.list)
       /\ p.args \in [Ins -> Seq(Ins)] /\ p.subs \in [Ins -> Seq(Modules)]
       /\ DOMAIN p.op = Ins
       /\ \A i \in Ins : p.op[i][1] = "@param" => p.args[i] = <<>>
       /\ \A i \in Ins : IF i \in live THEN ToSet(p.args[i]) \subseteq live
                         ELSE p.args[i] = <<>> /\ p.subs[i] = <<>>
       /\ InOrder(p.list, p.args, p.subs)
       /\ \A m \in Used(p.list, p.subs) :
            p.list[m] # <<>> /\ \A i \in Ins : Last(p.list[m]) \notin ToSet(p.args[i])

VARIABLES
  modules,   \* names of the modules in the program
  list,      \* list[m]: the instructions of m
  op,
  args,      \* args[i]: inputs
  subs,      \* subs[i]: module inputs
  outs,      \* outs[i]: the instructions that use i
  slots,     \* change signals in use, the oldest first: notified since allocated?
  meaning    \* what the program computes; never changes

graph == <<modules, list, op, args, subs, outs, slots, meaning>>

ArgsOf(i) == ToSet(args[i])
Name(i)   == op[i][1]

HasInstruction(m, i) == i \in ToSet(list[m])
FirstOf(m) == Head(list[m])
LastOf(m)  == Last(list[m])

(* std::next and std::prev *)
Position(m, i) == CHOOSE k \in DOMAIN list[m] : list[m][k] = i
NextOf(m, i) ==
  IF i = LastOf(m) THEN End ELSE list[m][Position(m, i) + 1]
PrevOf(m, i) ==
  IF i = End THEN LastOf(m) ELSE list[m][Position(m, i) - 1]

Home(i) == {m \in modules : HasInstruction(m, i)}
Live    == {i \in Ins : Home(i) # {}}

-----------------------------------------------------------------------------
(* The branch of an `if` with a condition of this value. *)
Branch(i, cond) == IF cond = No THEN subs[i][2] ELSE subs[i][1]

(***************************************************************************)
(* What an instruction computes, as a term over parameters and literals.   *)
(* An `if` of known condition is what its branch returns.                  *)
(***************************************************************************)
Value ==
  LET v[i \in Ins] ==
        LET in   == [k \in DOMAIN args[i] |-> v[args[i][k]]]
            end  == LastOf(Branch(i, in[1]))
            term == <<Name(i), in, [k \in DOMAIN subs[i] |-> v[LastOf(subs[i][k])]]>>
        IN CASE Name(i) \in {"@literal", "@param"}                      -> op[i][2]
             [] Name(i) = "identity"                                    -> in[1]
             [] Name(i) = "mul" /\ in[1] = One                          -> in[2]
             [] Name(i) = "mul" /\ in[1] # One /\ in[2] = One           -> in[1]
             [] Name(i) = "if" /\ in[1] \in {One, No}                   ->
                  IF Name(end) = "@return" THEN v[end] ELSE <<"@return", <<v[end]>>>>
             [] Name(i) = "get_tuple_elem" /\ in[1][1] = "@return"      -> in[1][2][op[i][2]]
             [] OTHER                                                   -> term
  IN v

(***************************************************************************)
(* The last instruction of main is what the program returns; instructions  *)
(* without elements are there for their effect.                            *)
(***************************************************************************)
Effects == {i \in ToSet(list[Main]) : Name(i) \in EmptyShape /\ outs[i] = {}}

Meaning == <<Value[LastOf(Main)], {Value[i] : i \in Effects}>>

GraphInit ==
  \E p \in Programs :
    /\ list = p.list /\ op = p.op /\ args = p.args /\ subs = p.subs
    /\ modules = {m \in Modules : list[m] # <<>>}
    /\ outs = [j \in Ins |-> {i \in Ins : j \in ArgsOf(i)}]
    /\ slots = <<>>
    /\ meaning = Meaning

-----------------------------------------------------------------------------
(* Mutant: a change is seen by the innermost loop alone. *)
NotifyInner == slots' = [k \in DOMAIN slots |-> k = Len(slots) \/ slots[k]]

(* changed.notify() *)
Notify == slots' = [k \in DOMAIN slots |-> TRUE]

(* Mutant: only the first input forgets i. *)
WithoutFirstUse(S) ==
  [j \in Ins |-> outs[j] \ {i \in S : args[i] # <<>> /\ j = args[i][1]}]

(* remove_output for every input of the instructions in S *)
WithoutUses(S) == [j \in Ins |-> outs[j] \ {i \in S : j \in ArgsOf(i)}]

(* clear_arguments of all in S *)
ClearArguments(S) ==
  /\ args' = [i \in Ins |-> IF i \in S THEN <<>> ELSE args[i]]
  /\ subs' = [i \in Ins |-> IF i \in S THEN <<>> ELSE subs[i]]
  /\ outs' = WithoutUses(S)

MoveToEnd(m, i) == list' = [list EXCEPT ![m] = Append(RemoveAt(@, Position(m, i)), i)]

(* replace_instruction(ins, op, args) *)
ReplaceOperation(i, o, a) ==
  /\ op' = [op EXCEPT ![i] = o]
  /\ args' = [args EXCEPT ![i] = a]
  /\ subs' = [subs EXCEPT ![i] = <<>>]
  /\ outs' = [j \in Ins |-> (WithoutUses({i})[j]) \cup (IF j \in ToSet(a) THEN {i} ELSE {})]

(* instruction::replace_argument(user, i, rep), for all of these users *)
ReplaceArgumentIn(users, i, rep) ==
  /\ args' = [u \in Ins |-> IF u \in users THEN ReplaceAll(args[u], i, rep) ELSE args[u]]
  /\ outs' = [j \in Ins |-> IF j = i THEN outs[i] \ users
                            ELSE IF j = rep THEN outs[rep] \cup users
                            ELSE outs[j]]

(* In every user but the replacement itself. *)
ReplaceArgument(i, rep) == ReplaceArgumentIn(outs[i] \ {rep}, i, rep)

(***************************************************************************)
(* replace_instruction(ins, rep): the last instruction becomes an identity *)
(* of rep, the users of any other one use rep.  It asserts that ins is in  *)
(* the module, and is not rep.                                             *)
(***************************************************************************)
ReplaceInstruction(m, i, rep) ==
  /\ HasInstruction(m, i) /\ i # rep
  /\ IF i = LastOf(m) THEN ReplaceOperation(i, <<"identity", End>>, <<rep>>)
     ELSE ReplaceArgument(i, rep) /\ UNCHANGED <<op, subs>>

(* The address of a new instruction: allocators hand out freed ones again, *)
(* and there is one as long as Ins is not exhausted.                       *)
NewIns == CHOOSE i \in Ins : i \notin Live

(* add_literal, add_parameter: in front of everything, without inputs *)
AddFirst(m, i, o) ==
  /\ i \in Ins \ Live
  /\ list' = [list EXCEPT ![m] = <<i>> \o @]
  /\ op' = [op EXCEPT ![i] = o]
  /\ args' = [args EXCEPT ![i] = <<>>] /\ subs' = [subs EXCEPT ![i] = <<>>]
  /\ UNCHANGED outs /\ Notify

AddLiteral(m, i, data) == AddFirst(m, i, <<"@literal", data>>)

(* A new instruction is given its inputs, and these their user. *)
InsertUses(i, a) ==
  /\ args' = [args EXCEPT ![i] = a]
  /\ outs' = [j \in Ins |-> outs[j] \cup (IF j \in ToSet(a) THEN {i} ELSE {})]

(* insert_instruction(before, op, args, module_args) *)
InsertInstruction(m, before, i, o, a, s) ==
  /\ i \in Ins \ Live
  /\ list' = [list EXCEPT ![m] = InsertAt(@, Position(m, before), i)]
  /\ op' = [op EXCEPT ![i] = o] /\ subs' = [subs EXCEPT ![i] = s]
  /\ InsertUses(i, a) /\ Notify

-----------------------------------------------------------------------------
UsedModules == Used(list, subs)

(***************************************************************************)
(* remove_module: the inputs that are in other modules forget their users, *)
(* and the module goes, with its instructions.  It asserts that no other   *)
(* module uses these.                                                      *)
(***************************************************************************)
RemoveModule(m) ==
  /\ \A i \in ToSet(list[m]) : outs[i] \subseteq ToSet(list[m])
  /\ ClearArguments(ToSet(list[m]))
  /\ modules' = modules \ {m}
  /\ list' = [list EXCEPT ![m] = <<>>]

(***************************************************************************)
(* What any pass may do: between two states it makes at most one call that *)
(* changes inputs, on the terms of the assertions in module.cpp.           *)
(***************************************************************************)
CallClear ==
  LET S == {i \in Ins : <<args'[i], subs'[i]>> # <<args[i], subs[i]>>}
  IN ClearArguments(S) /\ UNCHANGED op

CallReplaceOperation ==
  \E i \in Live : ReplaceOperation(i, op'[i], args'[i]) /\ args'[i] \in Seq(Live \ {i})

CallReplaceArgument ==
  \E i, rep \in Live :
    LET users == {u \in outs[i] : args'[u] # args[u]}
    IN i # rep /\ ReplaceArgumentIn(users, i, rep) /\ UNCHANGED <<op, subs>>

CallInsert ==
  \E i \in Live' \ Live : InsertUses(i, args'[i]) /\ args'[i] \in Seq(Live)

(* Instructions are freed when nothing uses them and they use nothing      *)
(* (remove_instructions, remove_module).                                   *)
FreedUnused == \A i \in Live \ Live' : outs'[i] = {} /\ args'[i] = <<>>

Call ==
  /\ FreedUnused
  /\ \/ UNCHANGED <<args, subs, outs>>
     \/ CallClear \/ CallReplaceArgument \/ CallReplaceOperation \/ CallInsert

(***************************************************************************)
(* The use list of an instruction holds exactly the instructions that      *)
(* have it among their inputs (instruction::valid), whatever sequence of   *)
(* calls changed the graph; passes decide by it what is dead.              *)
(***************************************************************************)
UseListsExact == \A i, j \in Ins : i \in outs[j] <=> j \in ArgsOf(i)

(***************************************************************************)
(* Every input has been evaluated before an instruction that uses it, in   *)
(* its own module and in the ones it hangs off (module::validate, and      *)
(* results.find(i) in generic_eval): reordering, sharing and moving behind *)
(* the end never put a use before its definition.                          *)
(***************************************************************************)
InputsEvaluated == InOrder(list, args, subs)

(***************************************************************************)
(* A pass changes a program by calls of the module graph alone, and never  *)
(* against their assertions: nothing is freed that is used, nothing is     *)
(* replaced by itself, and what it is replaced by is still there.          *)
(***************************************************************************)
OnlyCalls == [][Call]_graph
=============================================================================

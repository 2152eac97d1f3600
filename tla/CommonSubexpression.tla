------------------------ MODULE CommonSubexpression ------------------------
(***************************************************************************)
(* eliminate_common_subexpression: cse_range over the list of a module,    *)
(* and, for every instruction replaced, over the users of what replaced    *)
(* it.  Every call has tables of its own; it is a frame of the stack.      *)
(***************************************************************************)
EXTENDS ModuleGraph

(* A call is a record [todo, ins, found, instructions, processed_ins]: its *)
(* range is taken in the order of the list, which cse does not change.     *)
VARIABLE stack  \* the calls, the innermost last

Top == Last(stack)

Frame(range) ==
  [todo |-> range, ins |-> End, found |-> {}, instructions |-> {}, processed_ins |-> {}]

SetTop(c) == stack' = Append(Front(stack), c)

CseStart(m) == stack' = <<Frame(ToSet(list[m]))>>

(* Mutant: the submodules are not compared. *)
SameButModules(i, j) == args[i] = args[j] /\ op[i] = op[j]

(* operator== of two instructions; the shape follows from the rest. *)
SameInstruction(i, j) == args[i] = args[j] /\ op[i] = op[j] /\ subs[i] = subs[j]

(* The next of the range: std::sort puts users by the distance from eq. *)
IsFirst(m, i) == \A j \in Top.todo : ~ Earlier(list[m], j, i)

(* Dead instructions are skipped. *)
CseTake(m) ==
  /\ Top.ins = End
  /\ \E i \in Top.todo :
       /\ IsFirst(m, i)
       /\ SetTop(IF outs[i] = {} THEN [Top EXCEPT !.todo = @ \ {i}]
                 ELSE [Top EXCEPT !.todo = @ \ {i}, !.ins = i,
                                  !.found = {j \in Top.instructions : Name(j) = Name(i)}])
  /\ UNCHANGED graph

(* Mutant: literals are left as they are. *)
MatchesUsers(eq) == args[eq] # <<>> /\ SameInstruction(eq, Top.ins)

Matches(eq) == eq \notin Top.processed_ins /\ SameInstruction(eq, Top.ins)

(* One of the instructions of the same name, in whatever order the table   *)
(* has them; the loop goes on after a match.                               *)
CseMatch(m, eq) ==
  /\ Top.ins # End /\ eq \in Top.found /\ Matches(eq)
  /\ ReplaceInstruction(m, Top.ins, eq) /\ Notify
  /\ stack' = Front(stack)
        \o << [Top EXCEPT !.found = @ \ {eq}, !.processed_ins = @ \cup {Top.ins}],
              Frame(outs'[eq] \cap ToSet(list[m])) >>
  /\ UNCHANGED <<modules, list, meaning>>

CseAdd ==
  /\ Top.ins # End /\ \A eq \in Top.found : ~ Matches(eq)
  /\ SetTop([Top EXCEPT !.ins = End, !.found = {}, !.instructions = @ \cup {Top.ins}])
  /\ UNCHANGED graph

(* The innermost call returns. *)
CseReturn ==
  /\ Top.ins = End /\ Top.todo = {} /\ Len(stack) > 1
  /\ stack' = Front(stack)
  /\ UNCHANGED graph

CseNext(m) ==
  \/ CseTake(m)
  \/ \E eq \in Top.found : CseMatch(m, eq)
  \/ CseAdd
  \/ CseReturn

CseOver == Len(stack) = 1 /\ Top.ins = End /\ Top.todo = {}

(***************************************************************************)
(* Nothing in the module that is used computes the same from the same      *)
(* inputs as something else there: one sweep, with its recursion over the  *)
(* users of what it merged, finds them all.                                *)
(***************************************************************************)
NoneTwice(m) ==
  \A i, j \in ToSet(list[m]) :
    SameInstruction(i, j) /\ outs[i] # {} /\ outs[j] # {} => i = j
=============================================================================

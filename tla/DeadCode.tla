------------------------------ MODULE DeadCode ------------------------------
(***************************************************************************)
(* dead_code_elimination::apply(module&) and eliminate_identity::apply:    *)
(* both walk the list with an iterator, look at the instruction before it, *)
(* and move what is to go behind the end while they walk.                  *)
(***************************************************************************)
EXTENDS ModuleGraph

VARIABLES
  cursor,   \* ins of the loop, End after it
  last,     \* the last instruction before the pass
  leaves,   \* leaves the recursion still has to visit
  visited,
  turn      \* "next", "visit" or "move" within the loop, "removed" after it, or "idle"

walk == <<cursor, last, leaves, visited, turn>>

WalkIdle == cursor = End /\ last = End /\ leaves = {} /\ visited = {} /\ turn = "idle"

WalkReset ==
  /\ cursor' = End /\ last' = End /\ leaves' = {} /\ visited' = {} /\ turn' = "idle"

WalkStart(m) ==
  /\ cursor' = FirstOf(m) /\ last' = LastOf(m) /\ turn' = "next"
  /\ UNCHANGED <<leaves, visited>>

-----------------------------------------------------------------------------
(* A dead instruction the loop leaves alone. *)
Skipped(i) == Name(i) \in EmptyShape

(* Mutant: the loop goes on into what it has moved behind the end. *)
NotLast(i) == FALSE

AtLast(i) == i = last

(* One turn of the loop, up to the recursion. *)
DeadTurn(m) ==
  /\ turn = "next" /\ cursor # End
  /\ IF cursor = FirstOf(m) THEN cursor' = NextOf(m, cursor) /\ UNCHANGED <<leaves, visited, turn>>
     ELSE LET i == PrevOf(m, cursor) IN
       IF AtLast(i) THEN cursor' = End /\ UNCHANGED <<leaves, visited, turn>>
       ELSE IF Skipped(i) THEN cursor' = NextOf(m, cursor) /\ UNCHANGED <<leaves, visited, turn>>
       ELSE leaves' = {i} /\ visited' = {} /\ turn' = "visit" /\ UNCHANGED cursor
  /\ UNCHANGED <<graph, last>>

(* Mutant: an instruction is dead when its own module does not use it. *)
UnusedHere(m, leaf) ==
  /\ HasInstruction(m, leaf) /\ outs[leaf] \cap ToSet(list[m]) = {} /\ leaf \notin visited

(* Mutant: the inputs of a dead instruction are not looked at. *)
DeadItself(m, leaf) == HasInstruction(m, leaf) /\ outs[leaf] = {} /\ visited = {}

(* The recursion goes no further than the module. *)
IsDead(m, leaf) ==
  HasInstruction(m, leaf) /\ outs[leaf] = {} /\ leaf \notin visited

(* The recursion visits a leaf: a dead one loses its inputs, moves behind  *)
(* the end and makes its inputs leaves.                                    *)
DeadVisit(m, leaf) ==
  /\ turn = "visit" /\ leaf \in leaves
  /\ IF IsDead(m, leaf)
       THEN /\ visited' = visited \cup {leaf}
            /\ leaves' = (leaves \ {leaf}) \cup ArgsOf(leaf)
            /\ ClearArguments({leaf})
            /\ IF Name(leaf) # "@param" THEN MoveToEnd(m, leaf) /\ Notify
               ELSE UNCHANGED <<list, slots>>
       ELSE /\ leaves' = leaves \ {leaf}
            /\ UNCHANGED <<visited, args, subs, outs, list, slots>>
  /\ UNCHANGED <<modules, op, meaning, cursor, last, turn>>

(* ++ins *)
DeadAdvance(m) ==
  /\ turn = "visit" /\ leaves = {}
  /\ cursor' = NextOf(m, cursor) /\ turn' = "next"
  /\ UNCHANGED <<graph, last, leaves, visited>>

(* remove_instructions(std::next(last), m.end()) *)
RemoveMoved(m) ==
  LET kept == SubSeq(list[m], 1, Position(m, last))
  IN /\ turn = "next" /\ cursor = End
     /\ IF last = LastOf(m) THEN UNCHANGED <<list, args, subs, outs, slots>>
        ELSE /\ ClearArguments(ToSet(list[m]) \ ToSet(kept))
             /\ list' = [list EXCEPT ![m] = kept]
             /\ Notify
     /\ turn' = "removed"
     /\ UNCHANGED <<modules, op, meaning, cursor, last, leaves, visited>>

DeadNext(m) ==
  \/ DeadTurn(m)
  \/ \E leaf \in leaves : DeadVisit(m, leaf)
  \/ DeadAdvance(m)
  \/ RemoveMoved(m)

-----------------------------------------------------------------------------
(* An identity has an input, until it is dead and loses it. *)
IsIdentity(i) == Name(i) = "identity" /\ args[i] # <<>>

(* The loop of eliminate_identity: the users of an identity use its input. *)
IdentityTurn(m) ==
  /\ turn = "next" /\ cursor # End
  /\ IF cursor = FirstOf(m)
       THEN /\ cursor' = NextOf(m, cursor)
            /\ UNCHANGED <<graph, turn>>
       ELSE LET i == PrevOf(m, cursor) IN
            /\ turn' = "move"
            /\ IF IsIdentity(i)
                 THEN /\ ReplaceInstruction(m, i, args[i][1])
                      /\ MoveToEnd(m, i) /\ Notify
                      /\ UNCHANGED <<modules, meaning>>
                 ELSE UNCHANGED graph
            /\ UNCHANGED cursor
  /\ UNCHANGED <<last, leaves, visited>>

(***************************************************************************)
(* The end of the turn.  Where the last instruction is an identity and the *)
(* only use of its input, the input takes its place: move_instruction      *)
(* asserts that it is in the module.                                       *)
(***************************************************************************)
TakesPlace ==
  /\ cursor = last /\ IsIdentity(last)
  /\ Cardinality(outs[args[last][1]]) = 1

IdentityMove(m) ==
  /\ turn = "move"
  /\ turn' = "next"
  /\ cursor' = IF cursor = last THEN End ELSE NextOf(m, cursor)
  /\ IF TakesPlace
       THEN LET input == args[last][1]
                rest  == RemoveAt(list[m], Position(m, input))
            IN /\ HasInstruction(m, input)
               /\ list' = [list EXCEPT ![m] = InsertAt(rest, Position(m, last) - 1, input)]
               /\ last' = input /\ Notify
       ELSE UNCHANGED <<list, last, slots>>
  /\ UNCHANGED <<modules, op, args, subs, outs, meaning, leaves, visited>>

IdentityNext(m) == IdentityTurn(m) \/ IdentityMove(m) \/ RemoveMoved(m)

-----------------------------------------------------------------------------
(***************************************************************************)
(* After dead_code_elimination nothing dead is left in the module: what    *)
(* has no use is its last instruction, a parameter or kept for its effect. *)
(***************************************************************************)
NothingDead(m) ==
  \A i \in ToSet(list[m]) :
    outs[i] = {} => i = LastOf(m) \/ Name(i) = "@param" \/ Skipped(i)
=============================================================================

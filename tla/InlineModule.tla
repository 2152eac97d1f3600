---------------------------- MODULE InlineModule ----------------------------
(***************************************************************************)
(* inline_module: an `if` whose condition can be evaluated is replaced by  *)
(* a copy of the branch taken (insert_instructions), and the users of its  *)
(* results by what the branch returns.  promote_literals: the literals of  *)
(* a submodule are used from copies in main.  Both walk with DeadCode's    *)
(* iterator and insert into the list they walk, or into another one.       *)
(***************************************************************************)
EXTENDS DeadCode, PropagateConstant

VARIABLES
  rest,    \* instructions of the branch still to copy
  copy,    \* map_ins: the copy of an instruction, End without one
  users,   \* users still to replace the result in
  results  \* mod_outputs, or the new literal

inline == <<rest, copy, users, results>>

NoCopies == [i \in Ins |-> End]

InlineIdle == rest = <<>> /\ copy = NoCopies /\ users = {} /\ results = <<>>

(* eval() of the condition gives a value. *)
Decided(i) ==
  /\ Name(i) = "if" /\ args[i] # <<>> /\ Len(subs[i]) = 2
  /\ CanEval[args[i][1]]

(* Copies keep their submodules: the model is of branches whose            *)
(* instructions are used in no module below.                               *)
IsLeaf(b) == \A i \in ToSet(list[b]) : outs[i] \subseteq ToSet(list[b])

(* Mutant: copies use the instructions of the branch. *)
AsInBranch(j) == j

(* What a copy uses: the copies, and what was outside of the branch. *)
Copied(j) == IF copy[j] = End THEN j ELSE copy[j]

InlineTurn(m) ==
  /\ turn = "next" /\ cursor # End
  /\ IF Decided(cursor)
       THEN LET b == Branch(cursor, Value[args[cursor][1]])
            IN IsLeaf(b) /\ rest' = list[b] /\ turn' = "copy" /\ UNCHANGED cursor
       ELSE /\ cursor' = NextOf(m, cursor)
            /\ UNCHANGED <<rest, turn>>
  /\ UNCHANGED <<graph, last, leaves, visited, copy, users, results>>

(* One turn of insert_instructions: literals and parameters go to the      *)
(* front of m.                                                             *)
InlineCopy(m) ==
  /\ turn = "copy" /\ rest # <<>> /\ Name(Head(rest)) # "@return"
  /\ LET i == Head(rest) IN
       /\ IF Name(i) \in {"@literal", "@param"}
            THEN AddFirst(m, NewIns, op[i])
            ELSE InsertInstruction(m, cursor, NewIns, op[i],
                                   [k \in DOMAIN args[i] |-> Copied(args[i][k])], subs[i])
       /\ copy' = [copy EXCEPT ![i] = NewIns]
       /\ results' = <<NewIns>>
  /\ rest' = Tail(rest)
  /\ UNCHANGED <<modules, meaning, walk, users>>

(* @return names the results; without one it is the last copy. *)
InlineResults(m) ==
  /\ turn = "copy" /\ (rest # <<>> => Name(Head(rest)) = "@return")
  /\ results' = IF rest = <<>> THEN results
                ELSE [k \in DOMAIN args[Head(rest)] |-> Copied(args[Head(rest)][k])]
  /\ users' = outs[cursor] /\ rest' = <<>> /\ turn' = "replace"
  /\ UNCHANGED <<graph, cursor, last, leaves, visited, copy>>

(* A user of the `if` takes one of its results; mod_outputs.at throws if   *)
(* there is none of that number.                                           *)
InlineReplace(m, user) ==
  /\ turn = "replace" /\ user \in users
  /\ op[user][2] \in DOMAIN results
  /\ ReplaceInstruction(m, user, results[op[user][2]]) /\ Notify
  /\ users' = users \ {user}
  /\ UNCHANGED <<modules, list, meaning, walk, rest, copy, results>>

InlineAdvance(m) ==
  /\ turn = "replace" /\ users = {}
  /\ cursor' = NextOf(m, cursor) /\ turn' = "next"
  /\ copy' = NoCopies /\ results' = <<>>
  /\ UNCHANGED <<graph, last, leaves, visited, rest, users>>

InlineNext(m) ==
  \/ InlineTurn(m)
  \/ InlineCopy(m)
  \/ InlineResults(m)
  \/ \E user \in users : InlineReplace(m, user)
  \/ InlineAdvance(m)

-----------------------------------------------------------------------------
PromoteTurn(m) ==
  /\ turn = "next" /\ cursor # End
  /\ IF Name(cursor) = "@literal" /\ m # Main
       THEN /\ AddLiteral(Main, NewIns, op[cursor][2])
            /\ results' = <<NewIns>> /\ users' = outs[cursor] /\ turn' = "replace"
            /\ UNCHANGED <<modules, meaning, cursor>>
       ELSE /\ cursor' = IF m = Main THEN End ELSE NextOf(m, cursor)
            /\ UNCHANGED <<graph, results, users, turn>>
  /\ UNCHANGED <<last, leaves, visited, rest, copy>>

PromoteReplace(user) ==
  /\ turn = "replace" /\ user \in users
  /\ ReplaceArgumentIn({user}, cursor, results[1])
  /\ users' = users \ {user}
  /\ UNCHANGED <<modules, list, op, subs, slots, meaning, walk, rest, copy, results>>

PromoteNext(m) ==
  \/ PromoteTurn(m)
  \/ \E user \in users : PromoteReplace(user)
  \/ InlineAdvance(m)
=============================================================================

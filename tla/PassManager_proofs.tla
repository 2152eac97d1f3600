------------------------- MODULE PassManager_proofs -------------------------
(***************************************************************************)
(* What holds of every program under compilation, whatever the list of     *)
(* passes.                                                                 *)
(*                                                                         *)
(* Use lists hold exactly the users, whatever calls change a program, and  *)
(* nothing in a module uses a freed instruction.                           *)
(*                                                                         *)
(* The parallel loop of propagate_constant: every step of the pass manager *)
(* is a step of the loop, or leaves it alone, so the invariant of          *)
(* simple_par_for carries over.                                            *)
(*                                                                         *)
(* Change signals: whatever a pass changes is seen by all loops around it. *)
(*                                                                         *)
(* Every input is evaluated before its users, and passes change programs   *)
(* by calls of the module graph alone, on the terms of its assertions.     *)
(*                                                                         *)
(* What passes are for: eliminate_common_subexpression leaves nothing      *)
(* twice and dead_code_elimination nothing dead, in one walk each.         *)
(*                                                                         *)
(* Orders of lists come first, then those of programs, the calls, the      *)
(* passes one by one, and the pass manager.                                *)
(***************************************************************************)
EXTENDS PassManager, TLAPS, FiniteSetTheorems, SequenceTheorems

-----------------------------------------------------------------------------
(* Instructions that are in a module use only such instructions. *)
NothingDangles == \A i \in Live : ArgsOf(i) \subseteq Live

GraphTypeOK == args \in [Ins -> Seq(Ins)] /\ outs \in [Ins -> SUBSET Ins]

FreeUseNothing == \A i \in Ins \ Live : args[i] = <<>>

GraphInv == GraphTypeOK /\ UseListsExact /\ FreeUseNothing /\ NothingDangles

-----------------------------------------------------------------------------
(* What replace_if leaves of a list of inputs. *)
LEMMA ReplacedInputs ==
  ASSUME NEW S, NEW s \in Seq(S), NEW i \in S, NEW rep \in S
  PROVE  /\ ReplaceAll(s, i, rep) \in Seq(S)
         /\ i # rep => i \notin ToSet(ReplaceAll(s, i, rep))
         /\ \A j : j # i /\ j # rep => (j \in ToSet(ReplaceAll(s, i, rep)) <=> j \in ToSet(s))
         /\ i \in ToSet(s) => rep \in ToSet(ReplaceAll(s, i, rep))
<1> DEFINE r == [k \in 1..Len(s) |-> IF s[k] = i THEN rep ELSE s[k]]
<1>1. ReplaceAll(s, i, rep) = r /\ r \in Seq(S) /\ DOMAIN r = DOMAIN s /\ DOMAIN s = 1..Len(s)
  BY DEF ReplaceAll
<1>2. \A k \in DOMAIN s : r[k] = IF s[k] = i THEN rep ELSE s[k]
  BY <1>1
<1>3. \A j : j \in ToSet(s) <=> \E k \in DOMAIN s : s[k] = j
  BY DEF ToSet
<1>4. \A j : j \in ToSet(r) <=> \E k \in DOMAIN s : r[k] = j
  BY <1>1 DEF ToSet
<1> HIDE DEF r
<1>5. i # rep => i \notin ToSet(r)
  BY <1>2, <1>4
<1>6. \A j : j # i /\ j # rep => (j \in ToSet(r) <=> j \in ToSet(s))
  BY <1>2, <1>3, <1>4
<1>7. i \in ToSet(s) => rep \in ToSet(r)
  BY <1>2, <1>3, <1>4
<1> QED BY <1>1, <1>5, <1>6, <1>7

(* The inputs of a typed list are instructions. *)
LEMMA InputsAreInstructions ==
  ASSUME NEW S, NEW s \in Seq(S) PROVE ToSet(s) \subseteq S /\ (s = <<>> => ToSet(s) = {})
BY DEF ToSet

-----------------------------------------------------------------------------
(* clear_arguments of any instructions *)
LEMMA ClearKeepsLists ==
  ASSUME GraphTypeOK, UseListsExact, NEW S \in SUBSET Ins, ClearArguments(S)
  PROVE  /\ GraphTypeOK' /\ UseListsExact'
         /\ \A i \in Ins : args'[i] = IF i \in S THEN <<>> ELSE args[i]
<1>1. /\ args' = [i \in Ins |-> IF i \in S THEN <<>> ELSE args[i]]
      /\ outs' = [j \in Ins |-> outs[j] \ {i \in S : j \in ArgsOf(i)}]
  BY DEF ClearArguments, WithoutUses
<1>2. <<>> \in Seq(Ins) /\ ToSet(<<>>) = {}
  BY DEF ToSet
<1>3. GraphTypeOK'
  BY <1>1, <1>2 DEF GraphTypeOK
<1>4. ASSUME NEW i \in Ins, NEW j \in Ins
      PROVE  (i \in outs[j] <=> j \in ArgsOf(i))'
  <2>1. i \in outs[j] <=> j \in ArgsOf(i)
    BY DEF UseListsExact
  <2>2. outs'[j] = outs[j] \ {x \in S : j \in ArgsOf(x)}
    BY <1>1
  <2>3. (ArgsOf(i))' = IF i \in S THEN {} ELSE ArgsOf(i)
    BY <1>1, <1>2 DEF ArgsOf
  <2> QED BY <2>1, <2>2, <2>3
<1> QED BY <1>1, <1>3, <1>4 DEF UseListsExact

(* replace_instruction(i, o, a) *)
LEMMA ReplaceOperationKeepsLists ==
  ASSUME GraphTypeOK, UseListsExact, NEW i \in Ins, NEW o, NEW a \in Seq(Ins),
         ReplaceOperation(i, o, a)
  PROVE  /\ GraphTypeOK' /\ UseListsExact'
         /\ \A k \in Ins : args'[k] = IF k = i THEN a ELSE args[k]
<1>1. /\ args' = [args EXCEPT ![i] = a]
      /\ outs' = [j \in Ins |-> (WithoutUses({i})[j]) \cup (IF j \in ToSet(a) THEN {i} ELSE {})]
  BY DEF ReplaceOperation
<1>2. \A j \in Ins : outs'[j] = (outs[j] \ {x \in {i} : j \in ArgsOf(x)})
                                  \cup (IF j \in ToSet(a) THEN {i} ELSE {})
  BY <1>1 DEF WithoutUses
<1>3. GraphTypeOK'
  <2>1. \A j \in Ins : outs'[j] \in SUBSET Ins
    BY <1>2 DEF GraphTypeOK
  <2> QED BY <1>1, <2>1 DEF GraphTypeOK
<1>4. \A k \in Ins : args'[k] = IF k = i THEN a ELSE args[k]
  BY <1>1 DEF GraphTypeOK
<1>5. ASSUME NEW k \in Ins, NEW j \in Ins
      PROVE  (k \in outs[j] <=> j \in ArgsOf(k))'
  <2>1. k \in outs[j] <=> j \in ArgsOf(k)
    BY DEF UseListsExact
  <2>2. (ArgsOf(k))' = IF k = i THEN ToSet(a) ELSE ArgsOf(k)
    BY <1>4 DEF ArgsOf
  <2>3. CASE k = i
    BY <1>2, <2>1, <2>2, <2>3
  <2>4. CASE k # i
    BY <1>2, <2>1, <2>2, <2>4
  <2> QED BY <2>3, <2>4
<1> QED BY <1>3, <1>4, <1>5 DEF UseListsExact

(* replace_argument in some or all users *)
LEMMA ReplaceArgumentKeepsLists ==
  ASSUME GraphTypeOK, UseListsExact, NEW i \in Ins, NEW rep \in Ins, i # rep,
         NEW changed \in SUBSET outs[i], ReplaceArgumentIn(changed, i, rep)
  PROVE  /\ GraphTypeOK' /\ UseListsExact'
         /\ \A u \in Ins : IF u \in changed THEN args'[u] = ReplaceAll(args[u], i, rep)
                           ELSE args'[u] = args[u]
<1>1. /\ args' = [u \in Ins |-> IF u \in changed THEN ReplaceAll(args[u], i, rep) ELSE args[u]]
      /\ outs' = [j \in Ins |-> IF j = i THEN outs[i] \ changed
                                ELSE IF j = rep THEN outs[rep] \cup changed ELSE outs[j]]
  BY DEF ReplaceArgumentIn
<1>2. \A u \in Ins : IF u \in changed THEN args'[u] = ReplaceAll(args[u], i, rep)
                     ELSE args'[u] = args[u]
  BY <1>1
<1>3. \A j \in Ins : outs'[j] = IF j = i THEN outs[i] \ changed
                                ELSE IF j = rep THEN outs[rep] \cup changed ELSE outs[j]
  BY <1>1
<1>4. \A u \in Ins : args[u] \in Seq(Ins)
  BY DEF GraphTypeOK
<1>5. \A u \in Ins : ReplaceAll(args[u], i, rep) \in Seq(Ins)
  BY <1>4, ReplacedInputs
<1>6. changed \subseteq Ins
  BY DEF GraphTypeOK
<1>7. GraphTypeOK'
  <2>1. \A j \in Ins : outs'[j] \in SUBSET Ins
    BY <1>3, <1>6 DEF GraphTypeOK
  <2>2. \A u \in Ins : args'[u] \in Seq(Ins)
    BY <1>2, <1>4, <1>5
  <2> QED BY <1>1, <2>1, <2>2 DEF GraphTypeOK
<1>8. ASSUME NEW u \in Ins, NEW j \in Ins
      PROVE  (u \in outs[j] <=> j \in ArgsOf(u))'
  <2>1. /\ u \in outs[j] <=> j \in ArgsOf(u)
        /\ u \in outs[i] <=> i \in ArgsOf(u)
    BY DEF UseListsExact
  <2>2. CASE u \in changed
    <3> DEFINE new == ReplaceAll(args[u], i, rep)
    <3>1. (ArgsOf(u))' = ToSet(new)
      BY <1>2, <2>2 DEF ArgsOf
    <3>2. i \in ToSet(args[u])
      BY <2>1, <2>2 DEF ArgsOf
    <3>3. /\ i \notin ToSet(new) /\ rep \in ToSet(new)
          /\ j # i /\ j # rep => (j \in ToSet(new) <=> j \in ToSet(args[u]))
      BY <1>4, <3>2, ReplacedInputs
    <3> HIDE DEF new
    <3>4. CASE j = i
      BY <1>3, <2>2, <3>1, <3>3, <3>4
    <3>5. CASE j = rep
      BY <1>3, <2>2, <3>1, <3>3, <3>5
    <3>6. CASE j # i /\ j # rep
      BY <1>3, <2>1, <3>1, <3>3, <3>6 DEF ArgsOf
    <3> QED BY <3>4, <3>5, <3>6
  <2>3. CASE u \notin changed
    <3>1. (ArgsOf(u))' = ArgsOf(u)
      BY <1>2, <2>3 DEF ArgsOf
    <3>2. u \in outs'[j] <=> u \in outs[j]
      BY <1>3, <2>3
    <3> QED BY <2>1, <3>1, <3>2
  <2> QED BY <2>2, <2>3
<1> QED BY <1>2, <1>7, <1>8 DEF UseListsExact

(* insert_instruction: what is inserted was free, so nothing uses it. *)
LEMMA InsertKeepsLists ==
  ASSUME GraphInv, NEW i \in Ins \ Live, NEW a \in Seq(Live), InsertUses(i, a)
  PROVE  /\ GraphTypeOK' /\ UseListsExact' /\ ToSet(a) \subseteq Live
         /\ \A k \in Ins : args'[k] = IF k = i THEN a ELSE args[k]
<1>1. Live \subseteq Ins /\ ToSet(a) \subseteq Live
  <2>1. DOMAIN a = 1..Len(a) /\ \A k \in DOMAIN a : a[k] \in Live
    OBVIOUS
  <2> QED BY <2>1 DEF ToSet, Live
<1>2. a \in Seq(Ins)
  BY <1>1
<1>3. args \in [Ins -> Seq(Ins)] /\ outs \in [Ins -> SUBSET Ins] /\ args[i] = <<>>
  BY DEF GraphInv, GraphTypeOK, FreeUseNothing
<1>4. \A k \in Ins : args'[k] = IF k = i THEN a ELSE args[k]
  BY <1>3 DEF InsertUses
<1>5. \A j \in Ins : outs'[j] = outs[j] \cup (IF j \in ToSet(a) THEN {i} ELSE {})
  BY DEF InsertUses
<1>6. GraphTypeOK'
  <2>1. args' \in [Ins -> Seq(Ins)]
    BY <1>2, <1>3 DEF InsertUses
  <2>2. \A j \in Ins : outs'[j] \in SUBSET Ins
    BY <1>3, <1>5
  <2>3. outs' \in [Ins -> SUBSET Ins]
    BY <2>2 DEF InsertUses
  <2> QED BY <2>1, <2>3 DEF GraphTypeOK
<1>7. ASSUME NEW k \in Ins, NEW j \in Ins
      PROVE  (k \in outs[j] <=> j \in ArgsOf(k))'
  <2>1. k \in outs[j] <=> j \in ToSet(args[k])
    BY DEF GraphInv, UseListsExact, ArgsOf
  <2>2. (ArgsOf(k))' = IF k = i THEN ToSet(a) ELSE ToSet(args[k])
    BY <1>4 DEF ArgsOf
  <2>3. CASE k = i
    <3>1. k \notin outs[j]
      <4>1. ToSet(<<>>) = {}
        BY DEF ToSet
      <4> QED BY <1>3, <2>1, <2>3, <4>1
    <3> QED BY <1>5, <2>2, <2>3, <3>1
  <2>4. CASE k # i
    BY <1>5, <2>1, <2>2, <2>4
  <2> QED BY <2>3, <2>4
<1> QED BY <1>1, <1>4, <1>6, <1>7 DEF UseListsExact

-----------------------------------------------------------------------------
LEMMA InitGraphInv ==
  ASSUME GraphInit PROVE GraphInv
<1>1. PICK p \in Programs :
        /\ list = p.list /\ args = p.args
        /\ modules = {m \in Modules : list[m] # <<>>}
        /\ outs = [j \in Ins |-> {i \in Ins : j \in ArgsOf(i)}]
  BY DEF GraphInit
<1> DEFINE live == UNION {ToSet(p.list[m]) : m \in Modules}
<1>2. p.args \in [Ins -> Seq(Ins)]
  BY ProgramsAssumption
<1>3. \A i \in Ins : IF i \in live THEN ToSet(p.args[i]) \subseteq live ELSE p.args[i] = <<>>
  BY ProgramsAssumption
<1>4. \A i \in Ins : i \in Live <=> i \in live
  <2>1. \A m \in Modules : list[m] = <<>> => ToSet(list[m]) = {}
    BY DEF ToSet
  <2>2. \A i \in Ins : i \in Live <=> \E m \in modules : i \in ToSet(list[m])
    BY DEF Live, Home, HasInstruction
  <2> QED BY <1>1, <2>1, <2>2
<1> HIDE DEF live
<1>5. GraphTypeOK
  BY <1>1, <1>2 DEF GraphTypeOK
<1>6. UseListsExact
  BY <1>1 DEF UseListsExact
<1>7. FreeUseNothing
  BY <1>1, <1>3, <1>4 DEF FreeUseNothing
<1>8. NothingDangles
  <2> SUFFICES ASSUME NEW i \in Live PROVE ArgsOf(i) \subseteq Live
    BY DEF NothingDangles
  <2>1. i \in Ins /\ args[i] \in Seq(Ins)
    BY <1>5 DEF Live, GraphTypeOK
  <2>2. ArgsOf(i) \subseteq Ins
    BY <2>1, InputsAreInstructions DEF ArgsOf
  <2>3. ArgsOf(i) \subseteq live
    BY <1>1, <1>3, <1>4, <2>1 DEF ArgsOf
  <2> QED BY <1>4, <2>2, <2>3
<1> QED BY <1>5, <1>6, <1>7, <1>8 DEF GraphInv

(* The inputs an instruction has after a call it had before, or they are   *)
(* in a module; a free instruction gets none.                              *)
InputsKnown ==
  \A i \in Ins : /\ ToSet(args'[i]) \subseteq ArgsOf(i) \cup Live
                 /\ i \notin Live /\ i \notin Live' => args'[i] = <<>>

LEMMA CallKeepsLists ==
  ASSUME GraphInv, Call
  PROVE  GraphTypeOK' /\ UseListsExact' /\ InputsKnown
<1>1. GraphTypeOK /\ UseListsExact /\ NothingDangles /\ Live \subseteq Ins
  BY DEF GraphInv, Live
<1>2. \A i \in Ins : i \notin Live => args[i] = <<>>
  BY DEF GraphInv, FreeUseNothing
<1>3. ToSet(<<>>) = {}
  BY DEF ToSet
<1>4. CASE UNCHANGED <<args, subs, outs>>
  BY <1>1, <1>2, <1>4 DEF GraphTypeOK, UseListsExact, InputsKnown, ArgsOf
<1>5. CASE CallClear
  <2>1. PICK S \in SUBSET Ins : ClearArguments(S)
    BY <1>5 DEF CallClear
  <2>2. /\ GraphTypeOK' /\ UseListsExact'
        /\ \A i \in Ins : args'[i] = IF i \in S THEN <<>> ELSE args[i]
    BY <1>1, <2>1, ClearKeepsLists
  <2> QED BY <1>2, <1>3, <2>2 DEF InputsKnown, ArgsOf
<1>6. CASE CallReplaceOperation
  <2>1. PICK i \in Live : ReplaceOperation(i, op'[i], args'[i]) /\ args'[i] \in Seq(Live \ {i})
    BY <1>6 DEF CallReplaceOperation
  <2>2. args'[i] \in Seq(Ins) /\ ToSet(args'[i]) \subseteq Live
    <3>1. DOMAIN args'[i] = 1..Len(args'[i]) /\ \A k \in DOMAIN args'[i] : args'[i][k] \in Live
      BY <2>1
    <3>2. args'[i] \in Seq(Ins)
      BY <1>1, <2>1, <3>1
    <3> QED BY <3>1, <3>2 DEF ToSet
  <2>3. /\ GraphTypeOK' /\ UseListsExact'
        /\ \A k \in Ins : args'[k] = IF k = i THEN args'[i] ELSE args[k]
    BY <1>1, <2>1, <2>2, ReplaceOperationKeepsLists
  <2> QED BY <1>2, <2>1, <2>2, <2>3 DEF InputsKnown, ArgsOf
<1>7. CASE CallReplaceArgument
  <2>1. PICK i \in Live, rep \in Live :
          i # rep /\ ReplaceArgumentIn({u \in outs[i] : args'[u] # args[u]}, i, rep)
    BY <1>7 DEF CallReplaceArgument
  <2>2. PICK changed \in SUBSET outs[i] : ReplaceArgumentIn(changed, i, rep)
    BY <2>1
  <2>3. /\ GraphTypeOK' /\ UseListsExact'
        /\ \A u \in Ins : IF u \in changed THEN args'[u] = ReplaceAll(args[u], i, rep)
                          ELSE args'[u] = args[u]
    BY <1>1, <2>1, <2>2, ReplaceArgumentKeepsLists
  <2>4. ASSUME NEW u \in Ins
        PROVE  /\ ToSet(args'[u]) \subseteq ArgsOf(u) \cup Live
               /\ u \notin Live => args'[u] = <<>>
    <3>1. CASE u \in changed
      <4>1. i \in ToSet(args[u])
        BY <1>1, <2>1, <2>2, <3>1 DEF UseListsExact, ArgsOf
      <4>2. args[u] \in Seq(Ins) /\ i \in Ins /\ rep \in Ins
        BY <1>1, <2>1 DEF GraphTypeOK
      <4>3. u \in Live
        BY <1>2, <1>3, <4>1
      <4>4. args'[u] = ReplaceAll(args[u], i, rep)
        BY <2>3, <3>1
      <4>5. \A j : j \in ToSet(args'[u]) => j = rep \/ j \in ToSet(args[u])
        BY <2>1, <4>2, <4>4, ReplacedInputs
      <4> QED BY <2>1, <4>3, <4>5 DEF ArgsOf
    <3>2. CASE u \notin changed
      BY <1>2, <2>3, <3>2 DEF ArgsOf
    <3> QED BY <3>1, <3>2
  <2> QED BY <2>3, <2>4 DEF InputsKnown
<1>8. CASE CallInsert
  <2>1. PICK i \in Live' \ Live : InsertUses(i, args'[i]) /\ args'[i] \in Seq(Live)
    BY <1>8 DEF CallInsert
  <2>2. i \in Ins \ Live
    BY <2>1 DEF Live
  <2>3. /\ GraphTypeOK' /\ UseListsExact' /\ ToSet(args'[i]) \subseteq Live
        /\ \A k \in Ins : args'[k] = IF k = i THEN args'[i] ELSE args[k]
    BY <2>1, <2>2, InsertKeepsLists
  <2> QED BY <1>2, <2>1, <2>3 DEF InputsKnown, ArgsOf
<1> QED BY <1>4, <1>5, <1>6, <1>7, <1>8 DEF Call

LEMMA CallKeepsInv ==
  ASSUME GraphInv, Call PROVE GraphInv'
<1>1. GraphTypeOK' /\ UseListsExact' /\ InputsKnown
  BY CallKeepsLists
<1>2. Live \subseteq Ins /\ Live' \subseteq Ins
  BY DEF Live
<1>3. \A i \in Live \ Live' : outs'[i] = {} /\ args'[i] = <<>>
  BY DEF Call, FreedUnused
<1>4. FreeUseNothing'
  <2> SUFFICES ASSUME NEW i \in Ins, i \notin Live' PROVE args'[i] = <<>>
    BY DEF FreeUseNothing
  <2>1. CASE i \in Live
    BY <1>3, <2>1
  <2>2. CASE i \notin Live
    BY <1>1, <2>2 DEF InputsKnown
  <2> QED BY <2>1, <2>2
<1>5. NothingDangles'
  <2> SUFFICES ASSUME NEW i \in Live', NEW j \in (ArgsOf(i))' PROVE j \in Live'
    BY DEF NothingDangles
  <2>1. i \in Ins /\ (ArgsOf(i))' = ToSet(args'[i]) /\ args'[i] \in Seq(Ins)
    BY <1>1, <1>2 DEF ArgsOf, GraphTypeOK
  <2>2. j \in Ins
    BY <2>1, InputsAreInstructions
  <2>3. j \in Live
    <3>1. CASE i \in Live
      BY <1>1, <2>1, <3>1 DEF GraphInv, NothingDangles, InputsKnown
    <3>2. CASE i \notin Live
      <4>1. ToSet(args[i]) = {}
        <5>1. ToSet(<<>>) = {}
          BY DEF ToSet
        <5> QED BY <2>1, <3>2, <5>1 DEF GraphInv, FreeUseNothing
      <4> QED BY <1>1, <2>1, <4>1 DEF InputsKnown, ArgsOf
    <3> QED BY <3>1, <3>2
  <2>4. i \in outs'[j]
    BY <1>1, <2>1, <2>2 DEF UseListsExact
  <2> QED BY <1>3, <2>3, <2>4
<1> QED BY <1>1, <1>4, <1>5 DEF GraphInv

-----------------------------------------------------------------------------
(* Use lists and inputs are inverse, and nothing dangles, after every      *)
(* sequence of calls.                                                      *)
LEMMA GraphInvHolds == GraphInit /\ OnlyCalls => []GraphInv
<1>1. GraphInv /\ UNCHANGED graph => GraphInv'
  BY DEF GraphInv, GraphTypeOK, UseListsExact, FreeUseNothing, NothingDangles, ArgsOf,
         Live, Home, HasInstruction, graph
<1>2. GraphInv /\ [Call]_graph => GraphInv'
  BY <1>1, CallKeepsInv
<1> QED BY <1>2, InitGraphInv, PTL DEF OnlyCalls

(***************************************************************************)
(* instruction::valid after any calls: the use list of an instruction      *)
(* holds exactly the instructions that have it among their inputs.         *)
(***************************************************************************)
THEOREM UseListsStayExact == GraphInit /\ OnlyCalls => []UseListsExact
BY GraphInvHolds, PTL DEF GraphInv

(***************************************************************************)
(* No instruction of a module ever has a freed one among its inputs,       *)
(* although what is freed is decided by use lists alone.                   *)
(***************************************************************************)
THEOREM NothingFreedIsUsed == GraphInit /\ OnlyCalls => []NothingDangles
BY GraphInvHolds, PTL DEF GraphInv

-----------------------------------------------------------------------------
(* simple_par_for: it runs every index once, for every number of indices,  *)
(* of threads and every schedule of the threads.                           *)

Pending(x) == \E t \in DOMAIN threads : threads[t].i <= x /\ x < threads[t].last

ParTypeOK ==
  /\ size \in Nat /\ threadsize \in Nat /\ work \in Nat
  /\ threads \in Seq([i : Nat, last : Nat])
  /\ calls \in [0..(size - 1) -> Nat]

(* Ranges follow one another, and none goes past what was handed out. *)
Ranges ==
  /\ \A t \in DOMAIN threads : threads[t].last <= work /\ threads[t].last <= size
  /\ \A t, u \in DOMAIN threads : t < u => threads[t].last <= threads[u].i

(* An index has been run unless it is still pending in a thread, or not    *)
(* handed out yet.                                                         *)
CallsInv ==
  \A x \in 0..(size - 1) : calls[x] = IF x >= work \/ Pending(x) THEN 0 ELSE 1

WorkInv ==
  IF threadsize <= 1 THEN work = size
  ELSE work = Len(threads) * GrainSize(size, threadsize)

ParInv == ParTypeOK /\ Ranges /\ CallsInv /\ WorkInv

(* What a program does with its threads: it starts a loop, starts threads, *)
(* runs them, and forgets them when the loop is over.                      *)
ParIdle == size = 0 /\ threadsize = 0 /\ work = 0 /\ threads = <<>> /\ calls = <<>>

ParAny ==
  \/ \E n, grain \in Nat : ParStart(n, grain)
  \/ ParSpawn
  \/ \E t \in DOMAIN threads : ParRun(t)
  \/ ParIdle'

-----------------------------------------------------------------------------
LEMMA ThreadType ==
  ASSUME NEW th \in Seq([i : Nat, last : Nat])
  PROVE  /\ DOMAIN th = 1..Len(th) /\ Len(th) \in Nat
         /\ \A t \in DOMAIN th : /\ th[t] \in [i : Nat, last : Nat] /\ t \in Nat
                                 /\ th[t].i \in Nat /\ th[t].last \in Nat
<1>1. DOMAIN th = 1..Len(th) /\ Len(th) \in Nat
  OBVIOUS
<1>2. ASSUME NEW t \in DOMAIN th
      PROVE  th[t] \in [i : Nat, last : Nat] /\ t \in Nat
  <2>1. th[t] \in [i : Nat, last : Nat]
    <3> DEFINE S == [i : Nat, last : Nat]
    <3>1. th \in Seq(S) /\ t \in 1..Len(th)
      BY <1>1
    <3> HIDE DEF S
    <3>2. th[t] \in S
      BY <3>1
    <3> QED BY <3>2 DEF S
  <2> QED BY <1>1, <2>1
<1> QED BY <1>1, <1>2

(* std::ceil(n / k) ranges of that length reach n. *)
LEMMA CeilReaches ==
  ASSUME NEW n \in Nat, NEW k \in Nat \ {0}
  PROVE  GrainSize(n, k) \in Nat /\ k * GrainSize(n, k) >= n
<1> DEFINE a == n + k - 1
           q == a \div k
<1>1. a \in Nat /\ k \in Nat /\ k > 0
  OBVIOUS
<1>2. q \in Nat /\ a < k * q + k
  <2>1. a = k * (a \div k) + (a % k) /\ a % k \in 0..(k - 1) /\ a \div k \in Int
    BY <1>1
  <2>2. q \in Int /\ a < k * q + k
    BY <1>1, <2>1
  <2>3. q >= 0
    <3> SUFFICES ASSUME q <= -1 PROVE FALSE
      BY <2>2
    <3> HIDE DEF q
    <3>1. k * q <= k * (-1)
      BY <1>1, <2>2
    <3> QED BY <1>1, <2>2, <3>1
  <2> QED BY <2>2, <2>3
<1> HIDE DEF q
<1>3. n + k - 1 < k * q + k
  BY <1>2
<1>4. k * q \in Nat
  BY <1>1, <1>2
<1>5. n <= k * q
  BY <1>1, <1>3, <1>4
<1> QED BY <1>2, <1>5 DEF GrainSize, q

LEMMA StartKeeps ==
  ASSUME NEW n \in Nat, NEW grain \in Nat, ParStart(n, grain)
  PROVE  ParInv'
<1>1. ThreadSize(n, grain) \in Nat
  <2>1. AtLeastOne(grain) \in Nat \ {0}
    BY DEF AtLeastOne
  <2>2. n \div AtLeastOne(grain) \in Nat
    BY <2>1
  <2> QED BY <2>2, ConcurrencyAssumption DEF ThreadSize, Least
<1>2. /\ size' = n /\ threadsize' \in Nat
      /\ calls' = [i \in 0..(n - 1) |-> 0]
      /\ IF threadsize' <= 1 THEN work' = n /\ threads' = <<[i |-> 0, last |-> n]>>
         ELSE work' = 0 /\ threads' = <<>>
  BY <1>1 DEF ParStart
<1>3. CASE threadsize' <= 1
  <2> DEFINE r == [i |-> 0, last |-> n]
  <2>0. r \in [i : Nat, last : Nat] /\ r.i = 0 /\ r.last = n
    OBVIOUS
  <2>5. threads' = <<r>> /\ work' = n
    BY <1>2, <1>3
  <2> HIDE DEF r
  <2>1. /\ DOMAIN threads' = {1} /\ threads'[1].i = 0 /\ threads'[1].last = n
        /\ threads' \in Seq([i : Nat, last : Nat]) /\ work' = n
    BY <2>0, <2>5
  <2>2. ParTypeOK'
    BY <1>2, <2>1 DEF ParTypeOK
  <2>3. Ranges'
    BY <1>2, <2>1 DEF Ranges
  <2>4. CallsInv'
    <3> SUFFICES ASSUME NEW x \in 0..(n - 1) PROVE calls'[x] = 0 /\ (Pending(x))'
      BY <1>2 DEF CallsInv
    <3> QED BY <1>2, <2>1 DEF Pending
  <2> QED BY <1>2, <1>3, <2>1, <2>2, <2>3, <2>4 DEF ParInv, WorkInv
<1>4. CASE ~ (threadsize' <= 1)
  <2>1. work' = 0 /\ threads' = <<>> /\ DOMAIN threads' = {} /\ Len(threads') = 0
    BY <1>2, <1>4
  <2>2. ParTypeOK'
    BY <1>2, <2>1 DEF ParTypeOK
  <2>3. Ranges' /\ CallsInv'
    BY <1>2, <2>1 DEF Ranges, CallsInv
  <2>4. GrainSize(size', threadsize') \in Nat
    BY <1>2, <1>4, CeilReaches
  <2>5. WorkInv'
    BY <1>4, <2>1, <2>4 DEF WorkInv
  <2> QED BY <2>2, <2>3, <2>5 DEF ParInv
<1> QED BY <1>3, <1>4

LEMMA SpawnKeeps == ASSUME ParInv, ParSpawn PROVE ParInv'
<1> DEFINE G == GrainSize(size, threadsize)
           th == [i |-> work, last |-> Least(size, work + G)]
<1>1. /\ threads' = Append(threads, th) /\ work' = work + G
      /\ threadsize > 1 /\ UNCHANGED <<size, threadsize, calls>>
  BY DEF ParSpawn
<1>2. /\ size \in Nat /\ threadsize \in Nat /\ work \in Nat /\ calls \in [0..(size - 1) -> Nat]
      /\ threads \in Seq([i : Nat, last : Nat])
  BY DEF ParInv, ParTypeOK
<1>3. G \in Nat
  BY <1>1, <1>2, CeilReaches
<1> HIDE DEF G
<1>4. th.i = work /\ th.last \in Nat /\ th.last <= work + G /\ th.last <= size /\ th \in [i : Nat, last : Nat]
      /\ \A x \in 0..(size - 1) : x < work + G => x < th.last
  BY <1>2, <1>3 DEF Least
<1> HIDE DEF th
<1>5. /\ DOMAIN threads' = 1..(Len(threads) + 1) /\ DOMAIN threads = 1..Len(threads)
      /\ Len(threads') = Len(threads) + 1 /\ Len(threads) \in Nat
      /\ threads'[Len(threads) + 1] = th
      /\ \A t \in DOMAIN threads : threads'[t] = threads[t]
      /\ threads' \in Seq([i : Nat, last : Nat])
  BY <1>1, <1>2, <1>4
<1>6. \A t \in DOMAIN threads : threads[t].i \in Nat /\ threads[t].last \in Nat
  BY <1>2, ThreadType
<1>7. ParTypeOK'
  BY <1>1, <1>2, <1>3, <1>5 DEF ParTypeOK
<1>8. Ranges'
  <2>1. ASSUME NEW t \in DOMAIN threads'
        PROVE  threads'[t].last <= work' /\ threads'[t].last <= size'
    <3>1. CASE t \in DOMAIN threads
      <4>1. threads[t].last <= work /\ threads[t].last <= size /\ threads[t].last \in Nat
        BY <1>6, <3>1 DEF ParInv, Ranges
      <4>2. threads'[t].last = threads[t].last
        BY <1>5, <3>1
      <4> QED BY <1>1, <1>2, <1>3, <4>1, <4>2
    <3>2. CASE t = Len(threads) + 1
      BY <1>1, <1>4, <1>5, <3>2
    <3> QED BY <1>5, <3>1, <3>2
  <2>2. ASSUME NEW t \in DOMAIN threads', NEW u \in DOMAIN threads', t < u
        PROVE  threads'[t].last <= threads'[u].i
    <3>1. t \in DOMAIN threads
      BY <1>5, <2>2
    <3>2. threads'[t].last = threads[t].last
      BY <1>5, <3>1
    <3>3. CASE u \in DOMAIN threads
      <4>1. threads[t].last <= threads[u].i
        BY <2>2, <3>1, <3>3 DEF ParInv, Ranges
      <4>2. threads'[u].i = threads[u].i
        BY <1>5, <3>3
      <4> QED BY <3>2, <4>1, <4>2
    <3>4. CASE u = Len(threads) + 1
      <4>1. threads[t].last <= work
        BY <3>1 DEF ParInv, Ranges
      <4>2. threads'[u].i = work
        BY <1>4, <1>5, <3>4
      <4> QED BY <3>2, <4>1, <4>2
    <3> QED BY <1>5, <3>3, <3>4
  <2> QED BY <2>1, <2>2 DEF Ranges
<1>9. CallsInv'
  <2> SUFFICES ASSUME NEW x \in 0..(size - 1)
               PROVE  calls[x] = IF x >= work' \/ (Pending(x))' THEN 0 ELSE 1
    BY <1>1 DEF CallsInv
  <2>1. calls[x] = IF x >= work \/ Pending(x) THEN 0 ELSE 1
    BY DEF ParInv, CallsInv
  <2>2. (Pending(x))' <=> Pending(x) \/ (work <= x /\ x < th.last)
    <3>1. (Pending(x))' <=> \E t \in DOMAIN threads' : threads'[t].i <= x /\ x < threads'[t].last
      BY DEF Pending
    <3>2. DOMAIN threads' = DOMAIN threads \cup {Len(threads) + 1}
      BY <1>5
    <3>3. threads'[Len(threads) + 1].i = work /\ threads'[Len(threads) + 1].last = th.last
      BY <1>4, <1>5
    <3>4. ASSUME NEW t \in DOMAIN threads
          PROVE  threads'[t].i = threads[t].i /\ threads'[t].last = threads[t].last
      BY <1>5
    <3> QED BY <3>1, <3>2, <3>3, <3>4 DEF Pending
  <2>3. Pending(x) => x < work
    <3> SUFFICES ASSUME NEW t \in DOMAIN threads, threads[t].i <= x, x < threads[t].last
                 PROVE  x < work
      BY DEF Pending
    <3>1. threads[t].last <= work /\ threads[t].last \in Nat
      BY <1>6 DEF ParInv, Ranges
    <3> QED BY <1>2, <3>1
  <2> QED BY <1>1, <1>2, <1>3, <1>4, <2>1, <2>2, <2>3
<1>10. WorkInv'
  <2>1. work = Len(threads) * G
    BY <1>1, <1>2 DEF ParInv, WorkInv, G
  <2>2. (Len(threads) + 1) * G = Len(threads) * G + G
    BY <1>3, <1>5
  <2>3. work' = Len(threads') * G
    BY <1>1, <1>5, <2>1, <2>2
  <2> QED BY <1>1, <1>2, <2>3 DEF WorkInv, G
<1> QED BY <1>7, <1>8, <1>9, <1>10 DEF ParInv

LEMMA RunKeeps == ASSUME ParInv, NEW t \in DOMAIN threads, ParRun(t) PROVE ParInv'
<1>1. /\ threads[t].i < threads[t].last
      /\ calls' = [calls EXCEPT ![threads[t].i] = @ + 1]
      /\ threads' = [threads EXCEPT ![t] = [i |-> @.i + 1, last |-> @.last]]
      /\ UNCHANGED <<size, threadsize, work>>
  BY DEF ParRun, Busy
<1>2. /\ size \in Nat /\ threadsize \in Nat /\ work \in Nat /\ calls \in [0..(size - 1) -> Nat]
      /\ threads \in Seq([i : Nat, last : Nat])
  BY DEF ParInv, ParTypeOK
<1>3. \A u \in DOMAIN threads : threads[u].i \in Nat /\ threads[u].last \in Nat /\ u \in Nat
  BY <1>2, ThreadType
<1>4. /\ DOMAIN threads' = DOMAIN threads /\ Len(threads') = Len(threads)
      /\ threads' \in Seq([i : Nat, last : Nat])
  <2>1. [i |-> threads[t].i + 1, last |-> threads[t].last] \in [i : Nat, last : Nat]
    BY <1>3
  <2> QED BY <1>1, <1>2, <2>1
<1>5. \A u \in DOMAIN threads : /\ threads'[u].last = threads[u].last
                                /\ threads'[u].i = IF u = t THEN threads[u].i + 1 ELSE threads[u].i
  BY <1>1, <1>2, <1>3
<1>6. Ranges'
  <2>1. ASSUME NEW u \in DOMAIN threads'
        PROVE  threads'[u].last <= work' /\ threads'[u].last <= size'
    <3>1. threads[u].last <= work /\ threads[u].last <= size
      BY <1>4 DEF ParInv, Ranges
    <3> QED BY <1>1, <1>4, <1>5, <3>1
  <2>2. ASSUME NEW u \in DOMAIN threads', NEW v \in DOMAIN threads', u < v
        PROVE  threads'[u].last <= threads'[v].i
    <3>1. threads[u].last <= threads[v].i
      BY <1>4, <2>2 DEF ParInv, Ranges
    <3>2. threads'[u].last = threads[u].last
      BY <1>4, <1>5
    <3>3. threads'[v].i >= threads[v].i /\ threads'[v].i \in Nat
      <4>1. threads[v].i \in Nat
        BY <1>3, <1>4
      <4>2. threads'[v].i = IF v = t THEN threads[v].i + 1 ELSE threads[v].i
        BY <1>4, <1>5
      <4> QED BY <4>1, <4>2
    <3> QED BY <1>3, <1>4, <3>1, <3>2, <3>3
  <2> QED BY <2>1, <2>2 DEF Ranges
<1> DEFINE k == threads[t].i
<1>10. k \in 0..(size - 1) /\ k < work
  <2>1. threads[t].last <= size /\ threads[t].last <= work
    BY DEF ParInv, Ranges
  <2> QED BY <1>1, <1>2, <1>3, <2>1
<1>11. calls' = [calls EXCEPT ![k] = @ + 1]
  BY <1>1
<1>12. k \in Nat /\ k < threads[t].last
  BY <1>1, <1>3
<1> HIDE DEF k
<1>7. ParTypeOK'
  <2>1. calls' \in [0..(size - 1) -> Nat]
    BY <1>2, <1>10, <1>11
  <2> QED BY <1>1, <1>2, <1>4, <2>1 DEF ParTypeOK
<1>8. CallsInv'
  <2> SUFFICES ASSUME NEW x \in 0..(size - 1)
               PROVE  calls'[x] = IF x >= work \/ (Pending(x))' THEN 0 ELSE 1
    BY <1>1 DEF CallsInv
  <2>1. calls[x] = IF x >= work \/ Pending(x) THEN 0 ELSE 1
    BY DEF ParInv, CallsInv
  <2>2. (Pending(x))' <=> \E u \in DOMAIN threads : threads'[u].i <= x /\ x < threads[u].last
    <3>1. (Pending(x))' <=> \E u \in DOMAIN threads' : threads'[u].i <= x /\ x < threads'[u].last
      BY DEF Pending
    <3> QED BY <1>4, <1>5, <3>1
  <2>3. CASE x = k
    <3>1. Pending(x)
      BY <1>12, <2>3 DEF Pending, k
    <3>2. ~ (Pending(x))'
      <4> SUFFICES ASSUME NEW u \in DOMAIN threads, threads'[u].i <= x, x < threads[u].last
                   PROVE  FALSE
        BY <2>2
      <4>1. CASE u = t
        BY <1>3, <1>5, <2>3, <4>1 DEF k
      <4>2. CASE u < t
        <5>1. threads[u].last <= k
          BY <4>2 DEF ParInv, Ranges, k
        <5> QED BY <1>3, <1>12, <2>3, <5>1
      <4>3. CASE t < u
        <5>1. threads[t].last <= threads[u].i
          BY <4>3 DEF ParInv, Ranges
        <5>2. threads'[u].i = threads[u].i
          BY <1>3, <1>5, <4>3
        <5> QED BY <1>3, <1>12, <2>3, <5>1, <5>2
      <4> QED BY <1>3, <4>1, <4>2, <4>3
    <3>3. calls'[x] = calls[x] + 1
      BY <1>2, <1>10, <1>11, <2>3
    <3>4. x < work
      BY <1>10, <2>3
    <3>5. ~ (x >= work)
      BY <1>2, <3>4
    <3> QED BY <2>1, <3>1, <3>2, <3>3, <3>5
  <2>4. CASE x # k
    <3>1. ASSUME NEW u \in DOMAIN threads
          PROVE  threads'[u].i <= x <=> threads[u].i <= x
      BY <1>3, <1>5, <2>4 DEF k
    <3>2. (Pending(x))' <=> Pending(x)
      BY <2>2, <3>1 DEF Pending
    <3>3. calls'[x] = calls[x]
      BY <1>2, <1>10, <1>11, <2>4
    <3> QED BY <2>1, <3>2, <3>3
  <2> QED BY <2>3, <2>4
<1>9. WorkInv'
  BY <1>1, <1>4 DEF ParInv, WorkInv
<1> QED BY <1>6, <1>7, <1>8, <1>9 DEF ParInv

LEMMA IdleKeeps == ParIdle => ParInv
<1> SUFFICES ASSUME ParIdle PROVE ParInv
  OBVIOUS
<1>1. size = 0 /\ threadsize = 0 /\ work = 0 /\ threads = <<>> /\ calls = <<>>
  BY DEF ParIdle
<1>2. 0..(size - 1) = {} /\ DOMAIN threads = {} /\ threads \in Seq([i : Nat, last : Nat])
  BY <1>1
<1>3. calls \in [0..(size - 1) -> Nat]
  BY <1>1, <1>2
<1> QED BY <1>1, <1>2, <1>3 DEF ParInv, ParTypeOK, Ranges, CallsInv, WorkInv

LEMMA AnyKeeps == ASSUME ParInv, [ParAny]_parVars PROVE ParInv'
<1>1. CASE UNCHANGED parVars
  BY <1>1 DEF parVars, ParInv, ParTypeOK, Ranges, CallsInv, WorkInv, Pending
<1>2. ASSUME ParIdle' PROVE ParInv'
  BY <1>2, IdleKeeps, PTL
<1> QED BY <1>1, <1>2, StartKeeps, SpawnKeeps, RunKeeps DEF ParAny

(* When all threads are joined no index is left. *)
LEMMA ParInvSuffices == ParInv => EveryIndexOnce
<1> SUFFICES ASSUME ParInv PROVE EveryIndexOnce
  OBVIOUS
<1>1. /\ size \in Nat /\ threadsize \in Nat /\ work \in Nat /\ DOMAIN calls = 0..(size - 1)
      /\ threads \in Seq([i : Nat, last : Nat])
  BY DEF ParInv, ParTypeOK
<1>2. \A x \in 0..(size - 1) : calls[x] = IF x >= work \/ Pending(x) THEN 0 ELSE 1
  BY DEF ParInv, CallsInv
<1>3. ASSUME ParOver, NEW x \in 0..(size - 1) PROVE calls[x] = 1
  <2>1. ~ Pending(x)
    <3>1. \A t \in DOMAIN threads : threads[t].i \in Nat /\ threads[t].last \in Nat
      BY <1>1, ThreadType
    <3> QED BY <1>3, <3>1 DEF ParOver, Busy, Pending
  <2>2. work >= size
    <3>1. CASE threadsize <= 1
      BY <1>1, <3>1 DEF ParInv, WorkInv
    <3>2. CASE threadsize > 1
      <4>1. Len(threads) = threadsize
        BY <1>1, <1>3, <3>2 DEF ParOver, AtLeastOne
      <4>2. work = threadsize * GrainSize(size, threadsize)
        BY <1>1, <3>2, <4>1 DEF ParInv, WorkInv
      <4>3. threadsize * GrainSize(size, threadsize) >= size
        BY <1>1, <3>2, CeilReaches
      <4> QED BY <4>2, <4>3
    <3> QED BY <1>1, <3>1, <3>2
  <2> QED BY <1>1, <1>2, <2>1, <2>2
<1>4. \A x \in 0..(size - 1) : calls[x] <= 1
  BY <1>2
<1> QED BY <1>1, <1>3, <1>4 DEF EveryIndexOnce

-----------------------------------------------------------------------------
(* However the constants of a module are ordered, there are finitely many. *)
LEMMA OrderedConstants ==
  ASSUME NEW m, NEW s \in SetToSeqs(ConstInstrs(m)) PROVE Len(s) \in Nat
<1> DEFINE S == ConstInstrs(m)
           n == Cardinality(S)
<1>1. S \subseteq Ins
  BY DEF ConstInstrs
<1>2. n \in Nat
  BY <1>1, InsAssumption, FS_Subset, FS_CardinalityType
<1>3. s \in [1..n -> S]
  BY DEF SetToSeqs
<1> HIDE DEF S, n
<1>4. Len(s) = n
  BY <1>2, <1>3
<1> QED BY <1>2, <1>4

LEMMA StartsIdle == Init => ParIdle
BY DEF Init, ConstIdle, ParIdle

LEMMA StepsOfTheLoop == [Next]_vars => [ParAny]_parVars
<1> SUFFICES ASSUME [Next]_vars PROVE ParAny \/ UNCHANGED parVars
  OBVIOUS
<1> DEFINE Same == UNCHANGED parVars
<1>1. CASE UNCHANGED vars
  BY <1>1 DEF vars, constVars, parVars
<1>2. UNCHANGED constVars => Same
  BY DEF constVars, parVars
<1> HIDE DEF Same
<1>3. CASE NextPass \/ Subscribe \/ RoundEnds \/ RunOnProgram \/ ProgramDone
  <2>1. UNCHANGED constVars
    BY <1>3 DEF NextPass, Subscribe, RoundEnds, RunOnProgram, ProgramDone
  <2> QED BY <1>2, <2>1 DEF Same
<1>4. ASSUME NEW m \in Modules, RemoveUnused(m) PROVE Same
  BY <1>2, <1>4 DEF RemoveUnused
<1>5. CASE RunPass
  <2>1. UNCHANGED constVars \/ ConstStart(Mod)
    BY <1>5 DEF RunPass
  <2>2. ASSUME ConstStart(Mod) PROVE ParAny
    <3>1. Len(const_instrs') \in Nat /\ ParStart(Len(const_instrs'), 1)
      BY <2>2, OrderedConstants DEF ConstStart
    <3> QED BY <3>1 DEF ParAny
  <2> QED BY <1>2, <2>1, <2>2 DEF Same
<1>6. CASE PassStep
  <2>1. UNCHANGED constVars \/ ConstNext(Mod)
    BY <1>6 DEF PassStep
  <2>2. ASSUME ConstNext(Mod) PROVE ParAny \/ Same
    <3>1. CASE ConstSpawn
      BY <3>1 DEF ConstSpawn, ParAny
    <3>2. ASSUME NEW t \in DOMAIN threads, ConstEval(t) PROVE ParAny
      BY <3>2 DEF ConstEval, ParAny
    <3>3. CASE ConstJoin \/ ConstAdd(Mod) \/ ConstReplace(Mod)
      BY <3>3 DEF ConstJoin, ConstAdd, ConstReplace, Same
    <3> QED BY <2>2, <3>1, <3>2, <3>3 DEF ConstNext
  <2> QED BY <1>2, <2>1, <2>2 DEF Same
<1>7. CASE PassReturns
  BY <1>7 DEF PassReturns, ParAny, ParIdle
<1>8. CASE Next
  BY <1>3, <1>4, <1>5, <1>6, <1>7, <1>8 DEF Next, Same
<1> QED BY <1>1, <1>8

(***************************************************************************)
(* EveryIndexOnce for all programs, pipelines and numbers of threads: when *)
(* propagate_constant joins its threads, each constant has been evaluated, *)
(* and at no time twice (simple_par_for_impl).                             *)
(***************************************************************************)
THEOREM EveryIndexRunOnce == Spec => []EveryIndexOnce
<1>1. Init => ParInv
  BY StartsIdle, IdleKeeps
<1>2. ParInv /\ [Next]_vars => ParInv'
  BY StepsOfTheLoop, AnyKeeps
<1>3. ParInv => EveryIndexOnce
  BY ParInvSuffices
<1> QED BY <1>1, <1>2, <1>3, PTL DEF Spec

-----------------------------------------------------------------------------
(***************************************************************************)
(* Change signals.  A slot per loop being run, and none for the pass that  *)
(* run_passes itself runs: only such a pass, promote_literals, replaces an *)
(* input without a sign.                                                   *)
(***************************************************************************)
FrameType == [pass : Loops \cup {"run_pass"}, left : Nat \ {0}, at : Nat \ {0}]

FramesInv ==
  /\ frames \in Seq(FrameType)
  /\ \A k \in DOMAIN frames : frames[k].pass = "run_pass" <=> k = 1
  /\ stage # "modules" => frames = <<>>
  /\ running # "none" => frames # <<>> /\ Inner.at <= Len(Round) /\ running = Current

SlotsInv ==
  /\ slots \in Seq(BOOLEAN)
  /\ IF frames = <<>> THEN slots = <<>> ELSE Len(slots) = Len(frames) - 1

(* Parameters have no inputs: a dead one that is kept has none to lose. *)
ParamInv ==
  /\ DOMAIN op = Ins /\ args = [i \in Ins |-> args[i]]
  /\ \A i \in Ins : Name(i) = "@param" => args[i] = <<>>

SignalInv == FramesInv /\ SlotsInv /\ ParamInv

Quiet == UNCHANGED <<list, op, args, slots>>

-----------------------------------------------------------------------------
LEMMA NothingToReplace ==
  ASSUME NEW i, NEW rep PROVE ReplaceAll(<<>>, i, rep) = <<>>
<1> DEFINE r == [k \in 1..Len(<<>>) |-> IF <<>>[k] = i THEN rep ELSE <<>>[k]]
<1>1. ReplaceAll(<<>>, i, rep) = r
  BY DEF ReplaceAll
<1>2. 1..Len(<<>>) = {}
  OBVIOUS
<1>3. DOMAIN r = {} /\ r = [k \in DOMAIN r |-> r[k]]
  BY <1>2
<1> HIDE DEF r
<1>4. r = <<>>
  BY <1>3
<1> QED BY <1>1, <1>4

LEMMA ReplaceArgumentParams ==
  ASSUME ParamInv, NEW U, NEW i, NEW rep, ReplaceArgumentIn(U, i, rep), UNCHANGED op
  PROVE  ParamInv'
<1>1. args' = [u \in Ins |-> IF u \in U THEN ReplaceAll(args[u], i, rep) ELSE args[u]]
  BY DEF ReplaceArgumentIn
<1>2. ASSUME NEW u \in Ins, Name(u) = "@param" PROVE args'[u] = <<>>
  <2>1. args[u] = <<>>
    BY <1>2 DEF ParamInv
  <2>2. args'[u] = IF u \in U THEN ReplaceAll(args[u], i, rep) ELSE args[u]
    BY <1>1
  <2> QED BY <2>1, <2>2, NothingToReplace
<1> QED BY <1>1, <1>2 DEF ParamInv, Name

LEMMA ReplaceOperationParams ==
  ASSUME ParamInv, NEW i, NEW o, NEW a, ReplaceOperation(i, o, a), o[1] # "@param"
  PROVE  ParamInv'
<1>1. op' = [op EXCEPT ![i] = o] /\ args' = [args EXCEPT ![i] = a]
  BY DEF ReplaceOperation
<1> QED BY <1>1 DEF ParamInv, Name

LEMMA ReplaceInstructionParams ==
  ASSUME ParamInv, NEW m, NEW i, NEW rep, ReplaceInstruction(m, i, rep) PROVE ParamInv'
<1>1. CASE i = LastOf(m)
  <2>1. ReplaceOperation(i, <<"identity", End>>, <<rep>>)
    BY <1>1 DEF ReplaceInstruction
  <2>2. <<"identity", End>>[1] # "@param"
    OBVIOUS
  <2> QED BY <2>1, <2>2, ReplaceOperationParams
<1>2. CASE i # LastOf(m)
  <2>1. ReplaceArgumentIn(outs[i] \ {rep}, i, rep) /\ UNCHANGED op
    BY <1>2 DEF ReplaceInstruction, ReplaceArgument
  <2> QED BY <2>1, ReplaceArgumentParams
<1> QED BY <1>1, <1>2

LEMMA ClearParams ==
  ASSUME ParamInv, NEW S, ClearArguments(S), UNCHANGED op PROVE ParamInv'
<1>1. args' = [i \in Ins |-> IF i \in S THEN <<>> ELSE args[i]]
  BY DEF ClearArguments
<1> QED BY <1>1 DEF ParamInv, Name

LEMMA AddFirstParams ==
  ASSUME ParamInv, NEW m, NEW i, NEW o, AddFirst(m, i, o) PROVE ParamInv'
<1>1. op' = [op EXCEPT ![i] = o] /\ args' = [args EXCEPT ![i] = <<>>]
  BY DEF AddFirst
<1> QED BY <1>1 DEF ParamInv, Name

LEMMA InsertParams ==
  ASSUME ParamInv, NEW m, NEW b, NEW i, NEW o, NEW a, NEW s, o[1] # "@param",
         InsertInstruction(m, b, i, o, a, s)
  PROVE  ParamInv'
<1>1. op' = [op EXCEPT ![i] = o] /\ args' = [args EXCEPT ![i] = a]
  BY DEF InsertInstruction, InsertUses
<1> QED BY <1>1 DEF ParamInv, Name

LEMMA SameParams == ASSUME ParamInv, UNCHANGED <<op, args>> PROVE ParamInv'
BY DEF ParamInv, Name

-----------------------------------------------------------------------------
(* What the step of a pass does: it changes nothing, gives a sign, or has  *)
(* nothing but an input replaced by promote_literals.                      *)
Signalled ==
  \/ Quiet
  \/ Notify /\ ParamInv'
  \/ running = "promote_literals" /\ UNCHANGED slots /\ ParamInv'

LEMMA DeadSignals ==
  ASSUME ParamInv, NEW m, DeadNext(m) PROVE Quiet \/ (Notify /\ ParamInv')
<1>1. CASE DeadTurn(m) \/ DeadAdvance(m)
  BY <1>1 DEF DeadTurn, DeadAdvance, graph, Quiet
<1>2. ASSUME NEW leaf \in leaves, DeadVisit(m, leaf) PROVE Quiet \/ (Notify /\ ParamInv')
  <2>1. CASE ~ IsDead(m, leaf)
    BY <1>2, <2>1 DEF DeadVisit, Quiet
  <2>2. CASE IsDead(m, leaf)
    <3>1. ClearArguments({leaf}) /\ UNCHANGED op
      BY <1>2, <2>2 DEF DeadVisit
    <3>2. ParamInv'
      BY <3>1, ClearParams
    <3>3. CASE Name(leaf) # "@param"
      BY <1>2, <2>2, <3>2, <3>3 DEF DeadVisit
    <3>4. CASE Name(leaf) = "@param"
      <4>1. UNCHANGED <<list, slots, op>>
        BY <1>2, <2>2, <3>4 DEF DeadVisit
      <4>2. args' = [i \in Ins |-> IF i \in {leaf} THEN <<>> ELSE args[i]]
        BY <3>1 DEF ClearArguments
      <4>3. \A i \in Ins : args'[i] = args[i]
        BY <3>4, <4>2 DEF ParamInv, Name
      <4>4. args' = args
        BY <4>2, <4>3 DEF ParamInv
      <4> QED BY <4>1, <4>4 DEF Quiet
    <3> QED BY <3>3, <3>4
  <2> QED BY <2>1, <2>2
<1>3. CASE RemoveMoved(m)
  <2>1. CASE last = LastOf(m)
    BY <1>3, <2>1 DEF RemoveMoved, Quiet
  <2>2. CASE last # LastOf(m)
    <3>1. PICK S : ClearArguments(S) /\ Notify /\ UNCHANGED op
      BY <1>3, <2>2 DEF RemoveMoved
    <3> QED BY <3>1, ClearParams
  <2> QED BY <2>1, <2>2
<1> QED BY <1>1, <1>2, <1>3 DEF DeadNext

LEMMA IdentitySignals ==
  ASSUME ParamInv, NEW m, IdentityNext(m) PROVE Quiet \/ (Notify /\ ParamInv')
<1>1. CASE IdentityTurn(m)
  <2>1. CASE UNCHANGED graph
    BY <2>1 DEF graph, Quiet
  <2>2. CASE ~ UNCHANGED graph
    <3>1. PICK i, rep : ReplaceInstruction(m, i, rep) /\ Notify
      BY <1>1, <2>2 DEF IdentityTurn
    <3> QED BY <3>1, ReplaceInstructionParams
  <2> QED BY <2>1, <2>2
<1>2. CASE IdentityMove(m)
  <2>1. UNCHANGED <<op, args>> /\ (Notify \/ UNCHANGED <<list, slots>>)
    BY <1>2 DEF IdentityMove
  <2> QED BY <2>1, SameParams DEF Quiet
<1>3. CASE RemoveMoved(m)
  BY <1>3, DeadSignals DEF DeadNext
<1> QED BY <1>1, <1>2, <1>3 DEF IdentityNext

LEMMA UnitSignals == ASSUME ParamInv, UnitTurn PROVE Quiet \/ (Notify /\ ParamInv')
<1>1. CASE UNCHANGED graph
  BY <1>1 DEF graph, Quiet
<1>2. CASE ~ UNCHANGED graph
  BY <1>2, ReplaceInstructionParams DEF UnitTurn
<1> QED BY <1>1, <1>2

LEMMA CseSignals == ASSUME ParamInv, NEW m, CseNext(m) PROVE Quiet \/ (Notify /\ ParamInv')
<1>1. CASE CseTake(m) \/ CseAdd \/ CseReturn
  BY <1>1 DEF CseTake, CseAdd, CseReturn, graph, Quiet
<1>2. ASSUME NEW eq \in Top.found, CseMatch(m, eq) PROVE Notify /\ ParamInv'
  BY <1>2, ReplaceInstructionParams DEF CseMatch
<1> QED BY <1>1, <1>2 DEF CseNext

LEMMA ConstSignals == ASSUME ParamInv, NEW m, ConstNext(m) PROVE Quiet \/ (Notify /\ ParamInv')
<1>1. CASE ConstSpawn \/ (\E t \in DOMAIN threads : ConstEval(t)) \/ ConstJoin
  BY <1>1 DEF ConstSpawn, ConstEval, ConstJoin, graph, Quiet
<1>2. CASE ConstAdd(m)
  <2>1. AddFirst(m, NewIns, <<"@literal", LiteralOf>>)
    BY <1>2 DEF ConstAdd, AddLiteral
  <2> QED BY <2>1, AddFirstParams DEF AddFirst
<1>3. CASE ConstReplace(m)
  BY <1>3, ReplaceInstructionParams DEF ConstReplace
<1> QED BY <1>1, <1>2, <1>3 DEF ConstNext

LEMMA InlineSignals == ASSUME ParamInv, NEW m, InlineNext(m) PROVE Quiet \/ (Notify /\ ParamInv')
<1>1. CASE InlineTurn(m) \/ InlineResults(m) \/ InlineAdvance(m)
  BY <1>1 DEF InlineTurn, InlineResults, InlineAdvance, graph, Quiet
<1>2. CASE InlineCopy(m)
  <2> DEFINE i == Head(rest)
             in == [k \in DOMAIN args[i] |-> Copied(args[i][k])]
  <2>1. CASE Name(i) \in {"@literal", "@param"}
    <3>1. AddFirst(m, NewIns, op[i])
      BY <1>2, <2>1 DEF InlineCopy
    <3> QED BY <3>1, AddFirstParams DEF AddFirst
  <2>2. CASE Name(i) \notin {"@literal", "@param"}
    <3>1. InsertInstruction(m, cursor, NewIns, op[i], in, subs[i])
      BY <1>2, <2>2 DEF InlineCopy
    <3>2. op[i][1] # "@param"
      BY <2>2 DEF Name
    <3> HIDE DEF i, in
    <3> QED BY <3>1, <3>2, InsertParams DEF InsertInstruction
  <2> QED BY <2>1, <2>2
<1>3. ASSUME NEW user \in users, InlineReplace(m, user) PROVE Notify /\ ParamInv'
  BY <1>3, ReplaceInstructionParams DEF InlineReplace
<1> QED BY <1>1, <1>2, <1>3 DEF InlineNext

LEMMA PromoteSignals ==
  ASSUME ParamInv, NEW m, PromoteNext(m)
  PROVE  Quiet \/ (Notify /\ ParamInv') \/ (UNCHANGED slots /\ ParamInv')
<1>1. CASE PromoteTurn(m)
  <2>1. CASE UNCHANGED graph
    BY <2>1 DEF graph, Quiet
  <2>2. CASE ~ UNCHANGED graph
    <3>1. AddFirst(Main, NewIns, <<"@literal", op[cursor][2]>>)
      BY <1>1, <2>2 DEF PromoteTurn, AddLiteral
    <3> QED BY <3>1, AddFirstParams DEF AddFirst
  <2> QED BY <2>1, <2>2
<1>2. ASSUME NEW user \in users, PromoteReplace(user) PROVE UNCHANGED slots /\ ParamInv'
  BY <1>2, ReplaceArgumentParams DEF PromoteReplace
<1>3. CASE InlineAdvance(m)
  BY <1>3 DEF InlineAdvance, graph, Quiet
<1> QED BY <1>1, <1>2, <1>3 DEF PromoteNext

LEMMA StepSignals == ASSUME ParamInv, PassStep PROVE Signalled
BY DeadSignals, IdentitySignals, UnitSignals, CseSignals, ConstSignals, InlineSignals,
   PromoteSignals DEF PassStep, Signalled

-----------------------------------------------------------------------------
LEMMA NotifyType ==
  ASSUME slots \in Seq(BOOLEAN), Notify
  PROVE  /\ slots' \in Seq(BOOLEAN) /\ Len(slots') = Len(slots)
         /\ \A k \in DOMAIN slots : slots'[k]
<1>1. slots' = [k \in 1..Len(slots) |-> TRUE] /\ Len(slots) \in Nat /\ DOMAIN slots = 1..Len(slots)
  BY DEF Notify
<1> QED BY <1>1

(* Slots are as many as before a pass changes the graph. *)
LEMMA NotifySlots == ASSUME SlotsInv, Notify, UNCHANGED frames PROVE SlotsInv'
<1>1. slots \in Seq(BOOLEAN)
  BY DEF SlotsInv
<1>2. slots' \in Seq(BOOLEAN) /\ Len(slots') = Len(slots)
  BY <1>1, NotifyType
<1>3. slots = <<>> => slots' = <<>>
  BY <1>2
<1> QED BY <1>2, <1>3 DEF SlotsInv

LEMMA LoopIsFrame == \A p \in Loops \cup {"run_pass"} : Loop(p) \in FrameType /\ Loop(p).pass = p
<1> SUFFICES ASSUME NEW p \in Loops \cup {"run_pass"} PROVE Loop(p) \in FrameType /\ Loop(p).pass = p
  OBVIOUS
<1>1. Rounds(p) \in Nat \ {0}
  BY DEF Rounds
<1> QED BY <1>1 DEF Loop, FrameType

LEMMA Advanced ==
  ASSUME NEW fs \in Seq(FrameType), fs # <<>>
  PROVE  /\ Advance(fs) \in Seq(FrameType) /\ Len(Advance(fs)) = Len(fs)
         /\ \A k \in DOMAIN fs : Advance(fs)[k].pass = fs[k].pass
<1> DEFINE n == Len(fs)
           f == [fs[n] EXCEPT !.at = @ + 1]
<1>1. n \in DOMAIN fs /\ DOMAIN fs = 1..n /\ n \in Nat /\ fs[n] \in FrameType
  OBVIOUS
<1>2. f \in FrameType /\ f.pass = fs[n].pass
  BY <1>1 DEF FrameType
<1>3. Advance(fs) = [fs EXCEPT ![n] = f]
  BY DEF Advance
<1> HIDE DEF f, n
<1>4. Advance(fs) \in Seq(FrameType) /\ Len(Advance(fs)) = Len(fs)
  BY <1>1, <1>2, <1>3
<1>5. \A k \in DOMAIN fs : Advance(fs)[k].pass = fs[k].pass
  BY <1>1, <1>2, <1>3
<1> QED BY <1>4, <1>5

(* Only what run_passes runs itself is outside of the loops. *)
LEMMA PromoteIsOutermost ==
  ASSUME FramesInv, SlotsInv, running = "promote_literals" PROVE slots = <<>>
<1> DEFINE n == Len(frames)
<1>1. frames # <<>> /\ frames \in Seq(FrameType) /\ Inner.at <= Len(Round)
      /\ Current = "promote_literals"
  BY DEF FramesInv
<1>2. n \in DOMAIN frames /\ n \in Nat \ {0} /\ Inner = frames[n]
  BY <1>1 DEF Inner, Last
<1>3. Inner \in FrameType
  BY <1>1, <1>2
<1>4. Inner.pass = "run_pass"
  <2> SUFFICES ASSUME Inner.pass \in Loops PROVE FALSE
    BY <1>3 DEF FrameType
  <2>1. Inner.at \in Nat \ {0}
    BY <1>3 DEF FrameType
  <2>2. CASE Inner.pass = "optimize_module"
    <3>1. Round = <<"optimize", "eliminate_common_subexpression", "dead_code_elimination",
                    "propagate_constant", "dead_code_elimination">>
      BY <2>2 DEF Round, Body
    <3>2. Inner.at \in 1..5
      BY <1>1, <2>1, <3>1
    <3> QED BY <1>1, <3>1, <3>2 DEF Current
  <2>3. CASE Inner.pass = "optimize"
    <3>1. Round = <<"dead_code_elimination", "simplify_algebra">>
      BY <2>3 DEF Round, Body
    <3>2. Inner.at \in 1..2
      BY <1>1, <2>1, <3>1
    <3> QED BY <1>1, <3>1, <3>2 DEF Current
  <2>4. CASE Inner.pass = "simplify_algebra"
    <3>1. Round = <<"find_unit_ops", "dead_code_elimination">>
      BY <2>4 DEF Round, Body
    <3>2. Inner.at \in 1..2
      BY <1>1, <2>1, <3>1
    <3> QED BY <1>1, <3>1, <3>2 DEF Current
  <2> QED BY <2>2, <2>3, <2>4 DEF Loops
<1>5. n = 1
  BY <1>2, <1>4 DEF FramesInv
<1>6. Len(slots) = 0 /\ slots \in Seq(BOOLEAN)
  BY <1>1, <1>5 DEF SlotsInv
<1> QED BY <1>6

-----------------------------------------------------------------------------
LEMMA SignalInit == Init => SignalInv
<1> SUFFICES ASSUME Init PROVE SignalInv
  OBVIOUS
<1>1. frames = <<>> /\ slots = <<>> /\ running = "none"
  BY DEF Init, GraphInit
<1>2. ParamInv
  <2>1. PICK p \in Programs : op = p.op /\ args = p.args
    BY DEF Init, GraphInit
  <2> QED BY <2>1, ProgramsAssumption DEF ParamInv, Name
<1>3. FramesInv
  BY <1>1 DEF FramesInv
<1>4. SlotsInv
  BY <1>1 DEF SlotsInv
<1> QED BY <1>2, <1>3, <1>4 DEF SignalInv

LEMMA SubscribeSignals == ASSUME SignalInv, Subscribe PROVE FramesInv' /\ SlotsInv'
<1>1. /\ running = "none" /\ frames # <<>> /\ Current \in Loops
      /\ frames' = Append(frames, Loop(Current)) /\ slots' = Append(slots, FALSE)
      /\ UNCHANGED <<stage, running>>
  BY DEF Subscribe
<1>2. frames \in Seq(FrameType) /\ slots \in Seq(BOOLEAN) /\ Len(slots) = Len(frames) - 1
      /\ stage = "modules"
  BY <1>1 DEF SignalInv, FramesInv, SlotsInv
<1>3. Loop(Current) \in FrameType /\ Loop(Current).pass \in Loops
  BY <1>1, LoopIsFrame
<1>4. Len(frames) \in Nat \ {0} /\ DOMAIN frames = 1..Len(frames)
  BY <1>1, <1>2
<1> DEFINE l == Loop(Current)
<1> HIDE DEF l
<1>5. frames' = Append(frames, l) /\ l \in FrameType /\ l.pass # "run_pass"
  BY <1>1, <1>3 DEF l, Loops
<1>6. /\ frames' \in Seq(FrameType) /\ frames' # <<>> /\ Len(frames') = Len(frames) + 1
      /\ slots' \in Seq(BOOLEAN) /\ Len(slots') = Len(slots) + 1
      /\ DOMAIN frames' = 1..(Len(frames) + 1)
  BY <1>1, <1>2, <1>4, <1>5
<1>7. \A k \in DOMAIN frames' : frames'[k].pass = "run_pass" <=> k = 1
  <2> SUFFICES ASSUME NEW k \in 1..(Len(frames) + 1) PROVE frames'[k].pass = "run_pass" <=> k = 1
    BY <1>6
  <2>1. CASE k = Len(frames) + 1
    BY <1>2, <1>4, <1>5, <2>1
  <2>2. CASE k # Len(frames) + 1
    <3>1. k \in DOMAIN frames /\ frames'[k] = frames[k]
      BY <1>2, <1>4, <1>5, <2>2
    <3> QED BY <3>1 DEF SignalInv, FramesInv
  <2> QED BY <2>1, <2>2
<1>8. FramesInv'
  BY <1>1, <1>2, <1>6, <1>7 DEF FramesInv
<1>9. SlotsInv'
  BY <1>2, <1>4, <1>6 DEF SlotsInv
<1> QED BY <1>8, <1>9

(* A frame more or less: the outermost stays the one of run_passes. *)
LEMMA FramesKept ==
  ASSUME FramesInv, frames # <<>>, frames' \in Seq(FrameType), frames' # <<>>,
         Len(frames') <= Len(frames), \A k \in DOMAIN frames' : frames'[k].pass = frames[k].pass,
         running' = "none", UNCHANGED stage
  PROVE  FramesInv'
<1>1. /\ DOMAIN frames' = 1..Len(frames') /\ DOMAIN frames = 1..Len(frames)
      /\ Len(frames') \in Nat /\ Len(frames) \in Nat
  BY DEF FramesInv
<1>2. DOMAIN frames' \subseteq DOMAIN frames
  BY <1>1
<1>3. \A k \in DOMAIN frames' : frames'[k].pass = "run_pass" <=> k = 1
  BY <1>2 DEF FramesInv
<1> QED BY <1>3 DEF FramesInv

LEMMA RoundSignals == ASSUME SignalInv, RoundEnds PROVE FramesInv' /\ SlotsInv'
<1>1. /\ running = "none" /\ frames # <<>> /\ UNCHANGED running
  BY DEF RoundEnds
<1> DEFINE n == Len(frames)
<1>2. /\ frames \in Seq(FrameType) /\ slots \in Seq(BOOLEAN) /\ Len(slots) = n - 1
      /\ stage = "modules" /\ n \in Nat \ {0} /\ DOMAIN frames = 1..n
      /\ Inner = frames[n] /\ Inner \in FrameType
  BY <1>1 DEF SignalInv, FramesInv, SlotsInv, Inner, Last
<1>3. CASE ~ LastRound
  <2> DEFINE f == [pass |-> Inner.pass, left |-> Inner.left - 1, at |-> 1]
  <2>1. Inner.left # 1 /\ Inner.left \in Nat \ {0} /\ Inner.pass \in Loops \cup {"run_pass"}
    BY <1>2, <1>3 DEF LastRound, FrameType
  <2>2. f \in FrameType /\ f.pass = frames[n].pass
    BY <1>2, <2>1 DEF FrameType
  <2>3. frames' = [frames EXCEPT ![n] = f] /\ UNCHANGED <<slots, stage>>
    BY <1>3 DEF RoundEnds
  <2> HIDE DEF f
  <2>4. /\ frames' \in Seq(FrameType) /\ Len(frames') = n
        /\ \A k \in DOMAIN frames : frames'[k].pass = frames[k].pass
    BY <1>2, <2>2, <2>3
  <2>5. FramesInv'
    <3>1. DOMAIN frames' = DOMAIN frames /\ frames' # <<>>
      BY <1>2, <2>4
    <3>2. Len(frames') <= Len(frames)
      BY <1>2, <2>4
    <3> QED BY <1>1, <2>3, <2>4, <3>1, <3>2, FramesKept DEF SignalInv
  <2>6. SlotsInv'
    BY <1>2, <2>3, <2>4 DEF SlotsInv
  <2> QED BY <2>5, <2>6
<1>4. CASE LastRound /\ n > 1
  <2> DEFINE up == Front(frames)
  <2>1. frames' = Advance(up) /\ slots' = Front(slots) /\ UNCHANGED stage
    BY <1>4 DEF RoundEnds
  <2>2. /\ up \in Seq(FrameType) /\ Len(up) = n - 1 /\ up # <<>>
        /\ \A k \in 1..(n - 1) : up[k] = frames[k]
    <3>1. n - 1 \in 1..n /\ up = SubSeq(frames, 1, n - 1)
      BY <1>2, <1>4 DEF Front
    <3>2. Len(up) = n - 1 /\ \A k \in 1..(n - 1) : up[k] = frames[k]
      BY <1>2, <3>1
    <3>3. up \in Seq(FrameType)
      BY <1>2, <3>1
    <3> HIDE DEF up
    <3>4. Len(up) # 0
      BY <3>1, <3>2
    <3>5. up # <<>>
      BY <3>4
    <3> QED BY <3>2, <3>3, <3>5
  <2> HIDE DEF up
  <2>3. /\ frames' \in Seq(FrameType) /\ Len(frames') = n - 1
        /\ \A k \in DOMAIN up : frames'[k].pass = up[k].pass
    BY <2>1, <2>2, Advanced
  <2>4. slots' \in Seq(BOOLEAN) /\ Len(slots') = n - 2
    <3> DEFINE k == n - 2
    <3>1. slots' = SubSeq(slots, 1, k) /\ k \in 0..Len(slots) /\ Len(slots) \in Nat
      <4>1. Len(slots) - 1 = k /\ k \in 0..Len(slots)
        BY <1>2, <1>4
      <4> QED BY <1>2, <2>1, <4>1 DEF Front
    <3> HIDE DEF k
    <3>2. Len(slots') = k /\ slots' \in Seq(BOOLEAN)
      BY <1>2, <3>1
    <3> QED BY <3>2 DEF k
  <2>5. FramesInv'
    <3>1. DOMAIN frames' = 1..(n - 1) /\ DOMAIN up = 1..(n - 1) /\ frames' # <<>>
      BY <1>2, <1>4, <2>2, <2>3
    <3>2. \A k \in DOMAIN frames' : frames'[k].pass = frames[k].pass
      BY <2>2, <2>3, <3>1
    <3>3. Len(frames') <= Len(frames)
      BY <1>2, <2>3
    <3> QED BY <1>1, <2>1, <2>3, <3>1, <3>2, <3>3, FramesKept DEF SignalInv
  <2>6. SlotsInv'
    BY <1>2, <1>4, <2>3, <2>4 DEF SlotsInv
  <2> QED BY <2>5, <2>6
<1>5. CASE LastRound /\ ~ (n > 1)
  <2>1. /\ frames' = IF Tail(todoMods) = <<>> THEN <<>> ELSE <<Loop("run_pass")>>
        /\ stage' = IF Tail(todoMods) = <<>> THEN "program" ELSE stage
        /\ UNCHANGED slots
    BY <1>5 DEF RoundEnds
  <2>2. slots = <<>> /\ n = 1
    BY <1>2, <1>5
  <2> DEFINE l == Loop("run_pass")
  <2>3. l \in FrameType /\ l.pass = "run_pass"
    BY LoopIsFrame
  <2> HIDE DEF l
  <2>4. frames' = <<>> \/ frames' = <<l>>
    BY <2>1 DEF l
  <2>5. CASE frames' = <<>>
    BY <1>1, <2>1, <2>2, <2>5 DEF FramesInv, SlotsInv
  <2>6. CASE frames' = <<l>>
    <3>1. /\ frames' \in Seq(FrameType) /\ DOMAIN frames' = {1} /\ frames'[1] = l
          /\ Len(frames') = 1 /\ frames' # <<>>
      BY <2>3, <2>6
    <3>2. stage' = "modules"
      BY <1>2, <2>1, <3>1
    <3>3. FramesInv'
      BY <1>1, <2>3, <3>1, <3>2 DEF FramesInv
    <3> QED BY <2>1, <2>2, <3>1, <3>3 DEF SlotsInv
  <2> QED BY <2>4, <2>5, <2>6
<1> QED BY <1>2, <1>3, <1>4, <1>5

LEMMA StepOfPassSignals ==
  ASSUME SignalInv, PassStep
  PROVE  SignalInv' /\ (UNCHANGED <<list, op, args>> \/ \A k \in DOMAIN slots : slots'[k])
<1>1. FramesInv /\ SlotsInv /\ ParamInv
  BY DEF SignalInv
<1>2. UNCHANGED <<frames, running, stage, passes, at>>
  BY DEF PassStep, driver
<1>3. FramesInv'
  BY <1>1, <1>2 DEF FramesInv, Current, Round, Inner, Body
<1>4. CASE Quiet
  BY <1>1, <1>2, <1>3, <1>4, SameParams DEF Quiet, SlotsInv, SignalInv
<1>5. CASE Notify /\ ParamInv'
  <2>1. SlotsInv'
    BY <1>1, <1>2, <1>5, NotifySlots
  <2>2. \A k \in DOMAIN slots : slots'[k]
    BY <1>1, <1>5, NotifyType DEF SlotsInv
  <2> QED BY <1>3, <1>5, <2>1, <2>2 DEF SignalInv
<1>6. CASE running = "promote_literals" /\ UNCHANGED slots /\ ParamInv'
  <2>1. slots = <<>>
    BY <1>1, <1>6, PromoteIsOutermost
  <2>2. SlotsInv'
    BY <1>1, <1>2, <1>6 DEF SlotsInv
  <2> QED BY <1>3, <1>6, <2>1, <2>2 DEF SignalInv
<1> QED BY <1>1, <1>4, <1>5, <1>6, StepSignals DEF Signalled

LEMMA SignalStep ==
  ASSUME SignalInv, [Next]_vars
  PROVE  SignalInv' /\ (UNCHANGED <<list, op, args>> \/ \A k \in DOMAIN slots : slots'[k])
<1>1. FramesInv /\ SlotsInv /\ ParamInv
  BY DEF SignalInv
<1> DEFINE Same == UNCHANGED <<list, op, args>>
<1>2. CASE UNCHANGED vars
  BY <1>1, <1>2 DEF vars, driver, graph, SignalInv, FramesInv, SlotsInv, ParamInv, Name,
                    Current, Round, Inner, Body
<1>3. CASE NextPass
  <2>1. UNCHANGED <<list, op, args, slots, running>> /\ stage = "next"
    BY <1>3 DEF NextPass, graph
  <2>2. frames = <<>> /\ slots = <<>> /\ running = "none"
    BY <1>1, <2>1 DEF FramesInv, SlotsInv
  <2>3. CASE at <= Len(passes)
    <3> DEFINE l == Loop("run_pass")
    <3>1. frames' = <<l>> /\ stage' = "modules"
      BY <1>3, <2>3 DEF NextPass
    <3>2. l \in FrameType /\ l.pass = "run_pass"
      BY LoopIsFrame
    <3> HIDE DEF l
    <3>3. /\ frames' \in Seq(FrameType) /\ DOMAIN frames' = {1} /\ frames'[1] = l
          /\ Len(frames') = 1 /\ frames' # <<>>
      BY <3>1, <3>2
    <3>4. FramesInv'
      BY <2>1, <2>2, <3>1, <3>2, <3>3 DEF FramesInv
    <3>5. SlotsInv'
      BY <2>1, <2>2, <3>3 DEF SlotsInv
    <3> QED BY <1>1, <2>1, <3>4, <3>5, SameParams DEF SignalInv
  <2>4. CASE ~ (at <= Len(passes))
    <3>1. frames' = <<>> /\ stage' = "done"
      BY <1>3, <2>2, <2>4 DEF NextPass
    <3>2. FramesInv' /\ SlotsInv'
      BY <2>1, <2>2, <3>1 DEF FramesInv, SlotsInv
    <3> QED BY <1>1, <2>1, <3>2, SameParams DEF SignalInv
  <2> QED BY <2>3, <2>4
<1>4. CASE Subscribe
  BY <1>1, <1>4, SubscribeSignals, SameParams DEF Subscribe, SignalInv
<1>5. CASE RoundEnds
  BY <1>1, <1>5, RoundSignals, SameParams DEF RoundEnds, SignalInv
<1>6. CASE RunPass
  <2>1. /\ UNCHANGED <<list, op, args, slots, frames, stage, passes, at>>
        /\ running' = Current /\ frames # <<>> /\ Inner.at <= Len(Round)
    BY <1>6 DEF RunPass, graph
  <2>2. FramesInv' /\ SlotsInv'
    BY <1>1, <2>1 DEF FramesInv, SlotsInv, Current, Round, Inner, Body
  <2> QED BY <1>1, <2>1, <2>2, SameParams DEF SignalInv
<1>7. CASE PassStep
  BY <1>7, StepOfPassSignals
<1>8. CASE PassReturns
  <2>1. /\ UNCHANGED <<list, op, args, slots, stage>> /\ running' = "none"
        /\ frames' = Advance(frames) /\ running # "none"
    BY <1>8 DEF PassReturns, graph
  <2>2. frames # <<>> /\ frames \in Seq(FrameType)
    BY <1>1, <2>1 DEF FramesInv
  <2>3. /\ frames' \in Seq(FrameType) /\ Len(frames') = Len(frames)
        /\ \A k \in DOMAIN frames : frames'[k].pass = frames[k].pass
    BY <2>1, <2>2, Advanced
  <2>4. DOMAIN frames' = DOMAIN frames /\ frames' # <<>> /\ Len(frames') <= Len(frames)
    BY <2>2, <2>3
  <2>5. FramesInv'
    BY <1>1, <2>1, <2>2, <2>3, <2>4, FramesKept
  <2>6. SlotsInv'
    BY <1>1, <2>1, <2>2, <2>3, <2>4 DEF SlotsInv
  <2> QED BY <1>1, <2>1, <2>5, <2>6, SameParams DEF SignalInv
<1>9. CASE RunOnProgram \/ ProgramDone
  <2>1. /\ UNCHANGED <<list, op, args, slots, frames, running>>
        /\ stage # "modules" /\ stage' # "modules"
    BY <1>9 DEF RunOnProgram, ProgramDone, graph
  <2>2. FramesInv' /\ SlotsInv'
    BY <1>1, <2>1 DEF FramesInv, SlotsInv
  <2> QED BY <1>1, <2>1, <2>2, SameParams DEF SignalInv
<1>10. ASSUME NEW m \in Modules, RemoveUnused(m)
       PROVE  SignalInv' /\ \A k \in DOMAIN slots : slots'[k]
  <2>1. /\ UNCHANGED <<op, slots, frames, running, stage>> /\ stage = "removing"
        /\ ClearArguments(ToSet(list[m]))
    BY <1>10 DEF RemoveUnused, RemoveModule
  <2>2. frames = <<>> /\ slots = <<>> /\ running = "none" /\ DOMAIN slots = {}
    BY <1>1, <2>1 DEF FramesInv, SlotsInv
  <2>3. FramesInv' /\ SlotsInv'
    BY <1>1, <2>1, <2>2 DEF FramesInv, SlotsInv
  <2>4. ParamInv'
    BY <1>1, <2>1, ClearParams
  <2> QED BY <2>2, <2>3, <2>4 DEF SignalInv
<1> QED BY <1>2, <1>3, <1>4, <1>5, <1>6, <1>7, <1>8, <1>9, <1>10 DEF Next

(***************************************************************************)
(* No change goes unseen, whatever programs and lists of passes: each one  *)
(* raises the signal of every loop being run on the module, the inner and  *)
(* the outer ones (repeat_while_changes over nested pass managers).        *)
(***************************************************************************)
THEOREM EveryChangeSeen == Spec => ChangesSeen
<1>1. Init => SignalInv
  BY SignalInit
<1>2. SignalInv /\ [Next]_vars => SignalInv'
  BY SignalStep
<1>3. SignalInv /\ [Next]_vars =>
        [<<list, op, args>>' # <<list, op, args>> => \A k \in DOMAIN slots : slots'[k]]_vars
  BY SignalStep
<1> QED BY <1>1, <1>2, <1>3, PTL DEF Spec, ChangesSeen

-----------------------------------------------------------------------------
(***************************************************************************)
(* Lists in which nothing is twice: the order of the elements, once one is *)
(* removed, inserted, put behind or in front, or the list is cut off.      *)
(***************************************************************************)

(* In a list without duplicates the order is that of the positions. *)
LEMMA EarlierAt ==
  ASSUME NEW S, NEW l \in Seq(S), IsInjective(l), NEW a \in DOMAIN l, NEW b \in DOMAIN l
  PROVE  Earlier(l, l[a], l[b]) <=> a < b
<1>1. DOMAIN l = 1..Len(l) /\ Len(l) \in Nat
  OBVIOUS
<1>2. ASSUME Earlier(l, l[a], l[b]) PROVE a < b
  <2>1. PICK d \in DOMAIN l : l[d] = l[b] /\ \E c \in 1..(d - 1) : l[c] = l[a]
    BY <1>2 DEF Earlier
  <2>2. PICK c \in 1..(d - 1) : l[c] = l[a]
    BY <2>1
  <2>3. d = b /\ c \in DOMAIN l
    BY <1>1, <2>1, <2>2 DEF IsInjective
  <2>4. c = a
    BY <2>2, <2>3 DEF IsInjective
  <2> QED BY <1>1, <2>2, <2>3, <2>4
<1>3. ASSUME a < b PROVE Earlier(l, l[a], l[b])
  <2>1. a \in 1..(b - 1)
    BY <1>1, <1>3
  <2> QED BY <2>1 DEF Earlier
<1> QED BY <1>2, <1>3

LEMMA EarlierIn ==
  ASSUME NEW S, NEW l \in Seq(S), NEW j, NEW i, Earlier(l, j, i)
  PROVE  /\ j \in ToSet(l) /\ i \in ToSet(l)
         /\ \E a, b \in DOMAIN l : l[a] = j /\ l[b] = i /\ a < b
<1>1. DOMAIN l = 1..Len(l) /\ Len(l) \in Nat
  OBVIOUS
<1>2. PICK b \in DOMAIN l : l[b] = i /\ \E c \in 1..(b - 1) : l[c] = j
  BY DEF Earlier
<1>3. PICK a \in 1..(b - 1) : l[a] = j
  BY <1>2
<1>4. a \in DOMAIN l /\ a < b
  BY <1>1, <1>3
<1> QED BY <1>2, <1>3, <1>4 DEF ToSet

LEMMA InList ==
  ASSUME NEW l, NEW i \in ToSet(l) PROVE \E a \in DOMAIN l : l[a] = i
BY DEF ToSet

(* A strict total order. *)
LEMMA EarlierOrder ==
  ASSUME NEW S, NEW l \in Seq(S), IsInjective(l)
  PROVE  /\ \A i : ~ Earlier(l, i, i)
         /\ \A i, j, k : Earlier(l, i, j) /\ Earlier(l, j, k) => Earlier(l, i, k)
         /\ \A i, j : Earlier(l, i, j) => ~ Earlier(l, j, i)
         /\ \A i, j \in ToSet(l) : i = j \/ Earlier(l, i, j) \/ Earlier(l, j, i)
         /\ \A i, j : Earlier(l, i, j) => i \in ToSet(l) /\ j \in ToSet(l)
<1>1. DOMAIN l = 1..Len(l) /\ Len(l) \in Nat
  OBVIOUS
<1>2. \A a, b \in DOMAIN l : Earlier(l, l[a], l[b]) <=> a < b
  BY EarlierAt
<1>3. \A i, j : Earlier(l, i, j) => \E a, b \in DOMAIN l : l[a] = i /\ l[b] = j /\ a < b
  BY EarlierIn
<1>4. \A i \in ToSet(l) : \E a \in DOMAIN l : l[a] = i
  BY InList
<1>5. \A a, b \in DOMAIN l : l[a] = l[b] => a = b
  BY DEF IsInjective
<1>6. \A i : ~ Earlier(l, i, i)
  BY <1>1, <1>3, <1>5
<1>7. ASSUME NEW i, NEW j, NEW k, Earlier(l, i, j), Earlier(l, j, k) PROVE Earlier(l, i, k)
  <2>1. PICK a \in DOMAIN l, b \in DOMAIN l : l[a] = i /\ l[b] = j /\ a < b
    BY <1>3, <1>7
  <2>2. PICK c \in DOMAIN l, d \in DOMAIN l : l[c] = j /\ l[d] = k /\ c < d
    BY <1>3, <1>7
  <2>3. b = c
    BY <1>5, <2>1, <2>2
  <2>4. a < d
    BY <1>1, <2>1, <2>2, <2>3
  <2> QED BY <1>2, <2>1, <2>2, <2>4
<1>8. \A i, j \in ToSet(l) : i = j \/ Earlier(l, i, j) \/ Earlier(l, j, i)
  <2> SUFFICES ASSUME NEW i \in ToSet(l), NEW j \in ToSet(l), i # j
               PROVE  Earlier(l, i, j) \/ Earlier(l, j, i)
    OBVIOUS
  <2>1. PICK a \in DOMAIN l : l[a] = i
    BY <1>4
  <2>2. PICK b \in DOMAIN l : l[b] = j
    BY <1>4
  <2>3. a < b \/ b < a
    BY <1>1, <2>1, <2>2
  <2> QED BY <1>2, <2>1, <2>2, <2>3
<1>9. \A i, j : Earlier(l, i, j) => i \in ToSet(l) /\ j \in ToSet(l)
  BY EarlierIn
<1> QED BY <1>6, <1>7, <1>8, <1>9

(* Elements and order of a list are all that is used of it below. *)
LEMMA EndsOf ==
  ASSUME NEW S, NEW l \in Seq(S), IsInjective(l), l # <<>>
  PROVE  /\ Head(l) \in ToSet(l) /\ \A i : ~ Earlier(l, i, Head(l))
         /\ Last(l) \in ToSet(l) /\ \A i : ~ Earlier(l, Last(l), i)
         /\ Last(l) \in S /\ Head(l) \in S
<1>1. DOMAIN l = 1..Len(l) /\ Len(l) \in Nat /\ Len(l) >= 1
  OBVIOUS
<1>2. Head(l) = l[1] /\ 1 \in DOMAIN l /\ Last(l) = l[Len(l)] /\ Len(l) \in DOMAIN l
  BY <1>1 DEF Last
<1>3. Head(l) \in ToSet(l) /\ Last(l) \in ToSet(l)
  BY <1>2 DEF ToSet
<1>4. Last(l) \in S /\ Head(l) \in S
  BY <1>2
<1>5. \A i, j : Earlier(l, i, j) => \E a, b \in DOMAIN l : l[a] = i /\ l[b] = j /\ a < b
  BY EarlierIn
<1>6. \A a, b \in DOMAIN l : l[a] = l[b] => a = b
  BY DEF IsInjective
<1>7. ASSUME NEW i, Earlier(l, i, Head(l)) PROVE FALSE
  <2>1. PICK a \in DOMAIN l, b \in DOMAIN l : l[a] = i /\ l[b] = Head(l) /\ a < b
    BY <1>5, <1>7
  <2>2. b = 1
    BY <1>2, <1>6, <2>1
  <2> QED BY <1>1, <2>1, <2>2
<1>8. ASSUME NEW i, Earlier(l, Last(l), i) PROVE FALSE
  <2>1. PICK a \in DOMAIN l, b \in DOMAIN l : l[a] = Last(l) /\ l[b] = i /\ a < b
    BY <1>5, <1>8
  <2>2. a = Len(l)
    BY <1>2, <1>6, <2>1
  <2> QED BY <1>1, <2>1, <2>2
<1> QED BY <1>3, <1>4, <1>7, <1>8

LEMMA Removed ==
  ASSUME NEW S, NEW l \in Seq(S), IsInjective(l), NEW k \in DOMAIN l
  PROVE  LET r == RemoveAt(l, k)
         IN /\ r \in Seq(S) /\ IsInjective(r) /\ ToSet(r) = ToSet(l) \ {l[k]}
            /\ \A i, j : Earlier(r, j, i) <=> Earlier(l, j, i) /\ j # l[k] /\ i # l[k]
            /\ \A q \in DOMAIN l : k < q => q - 1 \in DOMAIN r /\ r[q - 1] = l[q]
<1> DEFINE r == RemoveAt(l, k)
           p(c) == IF c < k THEN c ELSE c + 1
<1>1. DOMAIN l = 1..Len(l) /\ Len(l) \in Nat /\ k \in Nat
  OBVIOUS
<1>p. PICK u, v : u = SubSeq(l, 1, k - 1) /\ v = SubSeq(l, k + 1, Len(l))
  OBVIOUS
<1>u. u \in Seq(S) /\ Len(u) = k - 1 /\ \A c \in 1..(k - 1) : u[c] = l[c]
  BY <1>1, <1>p
<1>v. v \in Seq(S) /\ Len(v) = Len(l) - k /\ \A c \in 1..(Len(l) - k) : v[c] = l[k + c]
  BY <1>1, <1>p
<1>r. r = u \o v
  BY <1>p DEF RemoveAt
<1>w. /\ r \in Seq(S) /\ Len(r) = Len(u) + Len(v)
      /\ \A c \in 1..(Len(u) + Len(v)) : r[c] = IF c <= Len(u) THEN u[c] ELSE v[c - Len(u)]
  BY <1>u, <1>v, <1>r, ConcatProperties
<1> HIDE DEF r
<1>2. r \in Seq(S) /\ Len(r) = Len(l) - 1 /\ DOMAIN r = 1..(Len(l) - 1)
  BY <1>1, <1>u, <1>v, <1>w
<1>3. \A c \in DOMAIN r : p(c) \in DOMAIN l /\ p(c) # k /\ r[c] = l[p(c)]
  <2> SUFFICES ASSUME NEW c \in DOMAIN r
               PROVE  p(c) \in DOMAIN l /\ p(c) # k /\ r[c] = l[p(c)]
    OBVIOUS
  <2>1. CASE c < k
    BY <1>1, <1>2, <1>u, <1>v, <1>w, <2>1
  <2>2. CASE ~ (c < k)
    <3>0. c \in Nat /\ c <= Len(l) - 1 /\ c >= k
      BY <1>1, <1>2, <2>2
    <3>1. c - Len(u) \in 1..(Len(l) - k) /\ k + (c - Len(u)) = c + 1
      BY <1>1, <1>u, <3>0
    <3>3. c \in 1..(Len(u) + Len(v)) /\ ~ (c <= Len(u))
      BY <1>1, <1>u, <1>v, <3>0
    <3>4. r[c] = v[c - Len(u)]
      BY <1>w, <3>3
    <3>2. r[c] = l[c + 1]
      BY <1>v, <3>1, <3>4
    <3> QED BY <1>1, <1>2, <2>2, <3>2
  <2> QED BY <2>1, <2>2
<1>4. \A c, d \in DOMAIN r : (c < d <=> p(c) < p(d)) /\ (p(c) = p(d) => c = d)
  BY <1>1, <1>2
<1>5. \A q \in DOMAIN l : q # k => \E c \in DOMAIN r : p(c) = q
  <2> SUFFICES ASSUME NEW q \in DOMAIN l, q # k PROVE \E c \in DOMAIN r : p(c) = q
    OBVIOUS
  <2>1. CASE q < k
    <3>1. q \in DOMAIN r /\ p(q) = q
      BY <1>1, <1>2, <2>1
    <3> QED BY <3>1
  <2>2. CASE q > k
    <3>1. q - 1 \in DOMAIN r /\ p(q - 1) = q
      BY <1>1, <1>2, <2>2
    <3> QED BY <3>1
  <2> QED BY <1>1, <2>1, <2>2
<1>6. \A q \in DOMAIN l : k < q => q - 1 \in DOMAIN r /\ r[q - 1] = l[q]
  <2> SUFFICES ASSUME NEW q \in DOMAIN l, k < q PROVE q - 1 \in DOMAIN r /\ r[q - 1] = l[q]
    OBVIOUS
  <2>1. q - 1 \in DOMAIN r /\ p(q - 1) = q
    BY <1>1, <1>2
  <2> QED BY <1>3, <2>1
<1> HIDE DEF r, p
<1>7. \A a, b \in DOMAIN l : l[a] = l[b] => a = b
  BY DEF IsInjective
<1>8. IsInjective(r)
  <2> SUFFICES ASSUME NEW c \in DOMAIN r, NEW d \in DOMAIN r, r[c] = r[d] PROVE c = d
    BY DEF IsInjective
  <2>1. p(c) = p(d)
    BY <1>3, <1>7
  <2> QED BY <1>4, <2>1
<1>9. ToSet(r) = ToSet(l) \ {l[k]}
  <2>1. \A x \in ToSet(r) : x \in ToSet(l) /\ x # l[k]
    BY <1>3, <1>7 DEF ToSet
  <2>2. ASSUME NEW x \in ToSet(l), x # l[k] PROVE x \in ToSet(r)
    <3>1. PICK q \in DOMAIN l : l[q] = x
      BY DEF ToSet
    <3>2. PICK c \in DOMAIN r : p(c) = q
      BY <1>5, <2>2, <3>1
    <3> QED BY <1>3, <3>1, <3>2 DEF ToSet
  <2> QED BY <2>1, <2>2
<1>10. ASSUME NEW i, NEW j
       PROVE  Earlier(r, j, i) <=> Earlier(l, j, i) /\ j # l[k] /\ i # l[k]
  <2>1. ASSUME Earlier(r, j, i) PROVE Earlier(l, j, i) /\ j # l[k] /\ i # l[k]
    <3>1. PICK c \in DOMAIN r, d \in DOMAIN r : r[c] = j /\ r[d] = i /\ c < d
      BY <1>2, <2>1, EarlierIn
    <3>2. l[p(c)] = j /\ l[p(d)] = i /\ p(c) < p(d) /\ p(c) \in DOMAIN l /\ p(d) \in DOMAIN l
      BY <1>3, <1>4, <3>1
    <3>3. Earlier(l, j, i)
      BY <3>2, EarlierAt
    <3>4. j # l[k] /\ i # l[k]
      BY <1>3, <1>7, <3>1
    <3> QED BY <3>3, <3>4
  <2>2. ASSUME Earlier(l, j, i), j # l[k], i # l[k] PROVE Earlier(r, j, i)
    <3>1. PICK a \in DOMAIN l, b \in DOMAIN l : l[a] = j /\ l[b] = i /\ a < b
      BY <2>2, EarlierIn
    <3>2. PICK c \in DOMAIN r : p(c) = a
      BY <1>5, <2>2, <3>1
    <3>3. PICK d \in DOMAIN r : p(d) = b
      BY <1>5, <2>2, <3>1
    <3>4. c < d /\ r[c] = j /\ r[d] = i
      BY <1>3, <1>4, <3>1, <3>2, <3>3
    <3> QED BY <1>2, <1>8, <3>4, EarlierAt
  <2> QED BY <2>1, <2>2
<1> QED BY <1>2, <1>6, <1>8, <1>9, <1>10 DEF r

LEMMA Inserted ==
  ASSUME NEW S, NEW l \in Seq(S), IsInjective(l), NEW k \in DOMAIN l, NEW e \in S, e \notin ToSet(l)
  PROVE  LET r == InsertAt(l, k, e)
         IN /\ r \in Seq(S) /\ IsInjective(r) /\ ToSet(r) = ToSet(l) \cup {e}
            /\ \A i, j \in ToSet(l) : Earlier(r, j, i) <=> Earlier(l, j, i)
            /\ \A i : Earlier(r, e, i) <=> i = l[k] \/ Earlier(l, l[k], i)
            /\ \A j : Earlier(r, j, e) <=> Earlier(l, j, l[k])
<1> DEFINE r == InsertAt(l, k, e)
           p(c) == IF c < k THEN c ELSE c + 1
<1>1. DOMAIN l = 1..Len(l) /\ Len(l) \in Nat /\ k \in Nat
  OBVIOUS
<1>p. PICK u, v : u = SubSeq(l, 1, k - 1) /\ v = SubSeq(l, k, Len(l))
  OBVIOUS
<1>u. u \in Seq(S) /\ Len(u) = k - 1 /\ \A c \in 1..(k - 1) : u[c] = l[c]
  BY <1>1, <1>p
<1>v. v \in Seq(S) /\ Len(v) = Len(l) - k + 1 /\ \A c \in 1..(Len(l) - k + 1) : v[c] = l[k + c - 1]
  BY <1>1, <1>p
<1>r. r = u \o <<e>> \o v
  BY <1>p DEF InsertAt
<1>z. PICK w : w = <<e>>
  OBVIOUS
<1>o. w \in Seq(S) /\ Len(w) = 1 /\ w[1] = e
  BY <1>z
<1>y. PICK t : t = u \o w
  OBVIOUS
<1>w. /\ t \in Seq(S) /\ Len(t) = Len(u) + Len(w)
      /\ \A c \in 1..(Len(u) + Len(w)) : t[c] = IF c <= Len(u) THEN u[c] ELSE w[c - Len(u)]
  BY <1>u, <1>o, <1>y, ConcatProperties
<1>t. t \in Seq(S) /\ Len(t) = k /\ t[k] = e /\ \A c \in 1..(k - 1) : t[c] = l[c]
  <2>1. Len(t) = k
    BY <1>1, <1>u, <1>o, <1>w
  <2>5. k \in 1..(Len(u) + Len(w)) /\ ~ (k <= Len(u)) /\ k - Len(u) = 1
    BY <1>1, <1>u, <1>o
  <2>2. t[k] = w[k - Len(u)] /\ k - Len(u) = 1
    BY <1>w, <2>5
  <2>3. \A c \in 1..(k - 1) : c \in 1..(Len(u) + Len(w)) /\ c <= Len(u)
    BY <1>1, <1>u, <1>o
  <2>4. \A c \in 1..(k - 1) : t[c] = l[c]
    BY <1>u, <1>w, <2>3
  <2> QED BY <1>o, <1>w, <2>1, <2>2, <2>4
<1>s. r = t \o v
  BY <1>r, <1>z, <1>y
<1> HIDE DEF r
<1>x. /\ r \in Seq(S) /\ Len(r) = Len(t) + Len(v)
      /\ \A c \in 1..(Len(t) + Len(v)) : r[c] = IF c <= Len(t) THEN t[c] ELSE v[c - Len(t)]
  BY <1>v, <1>t, <1>s, ConcatProperties
<1>2. r \in Seq(S) /\ Len(r) = Len(l) + 1 /\ DOMAIN r = 1..(Len(l) + 1)
  BY <1>1, <1>v, <1>t, <1>x
<1>3. /\ k \in DOMAIN r /\ r[k] = e
      /\ \A c \in DOMAIN l : p(c) \in DOMAIN r /\ p(c) # k /\ r[p(c)] = l[c]
  <2>0. k \in DOMAIN r /\ k \in 1..(Len(t) + Len(v)) /\ k <= Len(t)
    BY <1>1, <1>2, <1>v, <1>t
  <2>1. k \in DOMAIN r /\ r[k] = e
    BY <1>t, <1>x, <2>0
  <2>2. ASSUME NEW c \in DOMAIN l PROVE p(c) \in DOMAIN r /\ p(c) # k /\ r[p(c)] = l[c]
    <3>1. CASE c < k
      <4>1. c \in DOMAIN r /\ c \in 1..(Len(t) + Len(v)) /\ c <= Len(t) /\ c \in 1..(k - 1) /\ c # k
        BY <1>1, <1>2, <1>v, <1>t, <3>1
      <4>2. r[c] = l[c]
        BY <1>t, <1>x, <4>1
      <4> QED BY <3>1, <4>1, <4>2
    <3>2. CASE ~ (c < k)
      <4>1. /\ c + 1 \in DOMAIN r /\ c + 1 > k /\ c - k + 1 \in 1..(Len(l) - k + 1)
            /\ k + (c - k + 1) - 1 = c /\ (c + 1) - k = c - k + 1
        BY <1>1, <1>2, <3>2
      <4>2. r[c + 1] = v[(c + 1) - k]
        <5>1. c + 1 \in 1..(Len(t) + Len(v)) /\ ~ (c + 1 <= Len(t))
          BY <1>1, <1>2, <1>v, <1>t, <1>x, <3>2
        <5> QED BY <1>t, <1>x, <5>1
      <4>3. r[c + 1] = l[c]
        BY <1>v, <4>1, <4>2
      <4> QED BY <1>1, <3>2, <4>1, <4>3
    <3> QED BY <3>1, <3>2
  <2> QED BY <2>1, <2>2
<1>4. \A c, d \in DOMAIN l : (c < d <=> p(c) < p(d)) /\ (p(c) = p(d) => c = d)
  BY <1>1
<1>5. \A q \in DOMAIN r : q # k => \E c \in DOMAIN l : p(c) = q
  <2> SUFFICES ASSUME NEW q \in DOMAIN r, q # k PROVE \E c \in DOMAIN l : p(c) = q
    OBVIOUS
  <2>1. CASE q < k
    <3>1. q \in DOMAIN l /\ p(q) = q
      BY <1>1, <1>2, <2>1
    <3> QED BY <3>1
  <2>2. CASE q > k
    <3>1. q - 1 \in DOMAIN l /\ p(q - 1) = q
      BY <1>1, <1>2, <2>2
    <3> QED BY <3>1
  <2> QED BY <1>1, <1>2, <2>1, <2>2
<1>6. \A c \in DOMAIN l : (p(c) < k <=> c < k) /\ (k < p(c) <=> c = k \/ k < c)
  BY <1>1
<1> HIDE DEF r, p
<1>7. \A a, b \in DOMAIN l : l[a] = l[b] => a = b
  BY DEF IsInjective
<1>e. \A a \in DOMAIN l : l[a] # e
  BY DEF ToSet
<1>8. IsInjective(r)
  <2> SUFFICES ASSUME NEW c \in DOMAIN r, NEW d \in DOMAIN r, r[c] = r[d] PROVE c = d
    BY DEF IsInjective
  <2>1. CASE c = k /\ d = k
    BY <2>1
  <2>2. CASE c # k
    <3>1. PICK a \in DOMAIN l : p(a) = c
      BY <1>5, <2>2
    <3>2. d # k
      BY <1>3, <1>e, <3>1
    <3>3. PICK b \in DOMAIN l : p(b) = d
      BY <1>5, <3>2
    <3> QED BY <1>3, <1>7, <3>1, <3>3
  <2>3. CASE c = k /\ d # k
    <3>1. PICK b \in DOMAIN l : p(b) = d
      BY <1>5, <2>3
    <3> QED BY <1>3, <1>e, <2>3, <3>1
  <2> QED BY <2>1, <2>2, <2>3
<1>9. ToSet(r) = ToSet(l) \cup {e}
  <2>1. ASSUME NEW x \in ToSet(r) PROVE x \in ToSet(l) \cup {e}
    <3>1. PICK q \in DOMAIN r : r[q] = x
      BY DEF ToSet
    <3>2. CASE q = k
      BY <1>3, <3>1, <3>2
    <3>3. CASE q # k
      <4>1. PICK c \in DOMAIN l : p(c) = q
        BY <1>5, <3>3
      <4> QED BY <1>3, <3>1, <4>1 DEF ToSet
    <3> QED BY <3>2, <3>3
  <2>2. ASSUME NEW x \in ToSet(l) PROVE x \in ToSet(r)
    BY <1>3 DEF ToSet
  <2>3. e \in ToSet(r)
    BY <1>3 DEF ToSet
  <2> QED BY <2>1, <2>2, <2>3
<1>10. \A c, d \in DOMAIN r : Earlier(r, r[c], r[d]) <=> c < d
  BY <1>2, <1>8, EarlierAt
<1>11. \A c, d \in DOMAIN l : Earlier(l, l[c], l[d]) <=> c < d
  BY EarlierAt
<1>12. \A i, j \in ToSet(l) : Earlier(r, j, i) <=> Earlier(l, j, i)
  <2> SUFFICES ASSUME NEW i \in ToSet(l), NEW j \in ToSet(l)
               PROVE  Earlier(r, j, i) <=> Earlier(l, j, i)
    OBVIOUS
  <2>1. PICK c \in DOMAIN l : l[c] = i
    BY DEF ToSet
  <2>2. PICK d \in DOMAIN l : l[d] = j
    BY DEF ToSet
  <2> QED BY <1>3, <1>4, <1>10, <1>11, <2>1, <2>2
<1>13. ASSUME NEW c \in DOMAIN l
       PROVE  /\ Earlier(r, e, l[c]) <=> c = k \/ k < c
              /\ Earlier(r, l[c], e) <=> c < k
  BY <1>3, <1>6, <1>10
<1>14. ASSUME NEW i
       PROVE  /\ Earlier(r, e, i) <=> i = l[k] \/ Earlier(l, l[k], i)
              /\ Earlier(r, i, e) <=> Earlier(l, i, l[k])
  <2>1. CASE i \in ToSet(l)
    <3>1. PICK c \in DOMAIN l : l[c] = i
      BY <2>1 DEF ToSet
    <3>2. l[c] = l[k] <=> c = k
      BY <1>7
    <3> QED BY <1>11, <1>13, <3>1, <3>2
  <2>2. CASE i \notin ToSet(l)
    <3>1. i # l[k] /\ ~ Earlier(l, l[k], i) /\ ~ Earlier(l, i, l[k])
      BY <2>2, EarlierOrder DEF ToSet
    <3>2. ~ Earlier(r, e, i) /\ ~ Earlier(r, i, e)
      BY <1>2, <1>8, <1>9, <2>2, EarlierOrder
    <3> QED BY <3>1, <3>2
  <2> QED BY <2>1, <2>2
<1> QED BY <1>2, <1>8, <1>9, <1>12, <1>14 DEF r

LEMMA Appended ==
  ASSUME NEW S, NEW l \in Seq(S), IsInjective(l), NEW e \in S, e \notin ToSet(l)
  PROVE  LET r == Append(l, e)
         IN /\ r \in Seq(S) /\ IsInjective(r) /\ ToSet(r) = ToSet(l) \cup {e} /\ Last(r) = e
            /\ \A i, j : Earlier(r, j, i) <=> Earlier(l, j, i) \/ (j \in ToSet(l) /\ i = e)
<1> DEFINE r == Append(l, e)
<1>1. DOMAIN l = 1..Len(l) /\ Len(l) \in Nat
  OBVIOUS
<1>2. /\ r \in Seq(S) /\ DOMAIN r = 1..(Len(l) + 1) /\ r[Len(l) + 1] = e /\ Last(r) = e
      /\ \A c \in DOMAIN l : r[c] = l[c]
  BY <1>1 DEF Last
<1> HIDE DEF r
<1>3. \A a, b \in DOMAIN l : l[a] = l[b] => a = b
  BY DEF IsInjective
<1>4. \A a \in DOMAIN l : l[a] # e
  BY DEF ToSet
<1>5. IsInjective(r)
  <2> SUFFICES ASSUME NEW c \in DOMAIN r, NEW d \in DOMAIN r, r[c] = r[d] PROVE c = d
    BY DEF IsInjective
  <2>1. (c \in DOMAIN l \/ c = Len(l) + 1) /\ (d \in DOMAIN l \/ d = Len(l) + 1)
    BY <1>1, <1>2
  <2> QED BY <1>2, <1>3, <1>4, <2>1
<1>6. ToSet(r) = ToSet(l) \cup {e}
  <2>1. \A c \in DOMAIN r : c \in DOMAIN l \/ c = Len(l) + 1
    BY <1>1, <1>2
  <2>2. \A c \in DOMAIN l : c \in DOMAIN r
    BY <1>1, <1>2
  <2>3. Len(l) + 1 \in DOMAIN r
    BY <1>1, <1>2
  <2> QED BY <1>2, <2>1, <2>2, <2>3 DEF ToSet
<1>7. ASSUME NEW i, NEW j
      PROVE  Earlier(r, j, i) <=> Earlier(l, j, i) \/ (j \in ToSet(l) /\ i = e)
  <2>1. ASSUME Earlier(r, j, i) PROVE Earlier(l, j, i) \/ (j \in ToSet(l) /\ i = e)
    <3>1. PICK c \in DOMAIN r, d \in DOMAIN r : r[c] = j /\ r[d] = i /\ c < d
      BY <1>2, <2>1, EarlierIn
    <3>2. c \in DOMAIN l /\ (d \in DOMAIN l \/ d = Len(l) + 1)
      BY <1>1, <1>2, <3>1
    <3>3. j = l[c] /\ j \in ToSet(l)
      BY <1>2, <3>1, <3>2 DEF ToSet
    <3>4. CASE d \in DOMAIN l
      BY <1>2, <3>1, <3>2, <3>3, <3>4, EarlierAt
    <3>5. CASE d = Len(l) + 1
      BY <1>2, <3>1, <3>3, <3>5
    <3> QED BY <3>2, <3>4, <3>5
  <2>2. ASSUME Earlier(l, j, i) PROVE Earlier(r, j, i)
    <3>1. PICK c \in DOMAIN l, d \in DOMAIN l : l[c] = j /\ l[d] = i /\ c < d
      BY <2>2, EarlierIn
    <3>2. c \in DOMAIN r /\ d \in DOMAIN r /\ r[c] = j /\ r[d] = i
      BY <1>1, <1>2, <3>1
    <3> QED BY <1>2, <1>5, <3>1, <3>2, EarlierAt
  <2>3. ASSUME j \in ToSet(l), i = e PROVE Earlier(r, j, i)
    <3>1. PICK c \in DOMAIN l : l[c] = j
      BY <2>3 DEF ToSet
    <3>2. c \in DOMAIN r /\ Len(l) + 1 \in DOMAIN r /\ c < Len(l) + 1 /\ r[c] = j
      BY <1>1, <1>2, <3>1
    <3> QED BY <1>2, <1>5, <2>3, <3>2, EarlierAt
  <2> QED BY <2>1, <2>2, <2>3
<1> QED BY <1>2, <1>5, <1>6, <1>7 DEF r

LEMMA Prepended ==
  ASSUME NEW S, NEW l \in Seq(S), IsInjective(l), NEW e \in S, e \notin ToSet(l)
  PROVE  LET r == <<e>> \o l
         IN /\ r \in Seq(S) /\ IsInjective(r) /\ ToSet(r) = ToSet(l) \cup {e} /\ Head(r) = e
            /\ \A i, j : Earlier(r, j, i) <=> Earlier(l, j, i) \/ (j = e /\ i \in ToSet(l))
<1> DEFINE r == <<e>> \o l
<1>1. DOMAIN l = 1..Len(l) /\ Len(l) \in Nat
  OBVIOUS
<1>2. /\ r \in Seq(S) /\ DOMAIN r = 1..(Len(l) + 1) /\ r[1] = e
      /\ \A c \in DOMAIN l : r[c + 1] = l[c]
  BY <1>1
<1>h. Head(r) = e
  BY <1>1, <1>2
<1> HIDE DEF r
<1>3. \A a, b \in DOMAIN l : l[a] = l[b] => a = b
  BY DEF IsInjective
<1>4. \A a \in DOMAIN l : l[a] # e
  BY DEF ToSet
<1>d. \A c \in DOMAIN r : c = 1 \/ (c - 1 \in DOMAIN l /\ r[c] = l[c - 1])
  <2> SUFFICES ASSUME NEW c \in DOMAIN r, c # 1 PROVE c - 1 \in DOMAIN l /\ r[c] = l[c - 1]
    OBVIOUS
  <2>1. c - 1 \in DOMAIN l /\ (c - 1) + 1 = c
    BY <1>1, <1>2
  <2>2. r[(c - 1) + 1] = l[c - 1]
    BY <1>2, <2>1
  <2> QED BY <2>1, <2>2
<1>5. IsInjective(r)
  <2> SUFFICES ASSUME NEW c \in DOMAIN r, NEW d \in DOMAIN r, r[c] = r[d] PROVE c = d
    BY DEF IsInjective
  <2>0. c \in Nat /\ d \in Nat
    BY <1>1, <1>2
  <2>1. CASE c = 1
    BY <1>2, <1>4, <1>d, <2>1
  <2>2. CASE d = 1
    BY <1>2, <1>4, <1>d, <2>2
  <2>3. CASE c # 1 /\ d # 1
    <3>1. c - 1 = d - 1
      BY <1>3, <1>d, <2>3
    <3> QED BY <2>0, <3>1
  <2> QED BY <2>1, <2>2, <2>3
<1>6. ToSet(r) = ToSet(l) \cup {e}
  <2>1. \A c \in DOMAIN l : c + 1 \in DOMAIN r
    BY <1>1, <1>2
  <2>2. 1 \in DOMAIN r
    BY <1>1, <1>2
  <2>3. \A x \in ToSet(r) : x \in ToSet(l) \cup {e}
    BY <1>2, <1>d DEF ToSet
  <2>4. \A x \in ToSet(l) : x \in ToSet(r)
    <3> SUFFICES ASSUME NEW c \in DOMAIN l PROVE l[c] \in ToSet(r)
      BY DEF ToSet
    <3>1. c + 1 \in DOMAIN r /\ r[c + 1] = l[c]
      BY <1>2, <2>1
    <3> QED BY <3>1 DEF ToSet
  <2>5. e \in ToSet(r)
    BY <1>2, <2>2 DEF ToSet
  <2> QED BY <2>3, <2>4, <2>5
<1>7. ASSUME NEW i, NEW j
      PROVE  Earlier(r, j, i) <=> Earlier(l, j, i) \/ (j = e /\ i \in ToSet(l))
  <2>1. ASSUME Earlier(r, j, i) PROVE Earlier(l, j, i) \/ (j = e /\ i \in ToSet(l))
    <3>1. PICK c \in DOMAIN r, d \in DOMAIN r : r[c] = j /\ r[d] = i /\ c < d
      BY <1>2, <2>1, EarlierIn
    <3>0. c \in Nat /\ d \in Nat /\ d # 1 /\ c >= 1
      BY <1>1, <1>2, <3>1
    <3>2. d - 1 \in DOMAIN l /\ i = l[d - 1]
      BY <1>d, <3>0, <3>1
    <3>4. CASE c = 1
      BY <1>2, <3>1, <3>2, <3>4 DEF ToSet
    <3>5. CASE c # 1
      <4>1. c - 1 \in DOMAIN l /\ j = l[c - 1]
        BY <1>d, <3>1, <3>5
      <4>2. c - 1 < d - 1
        BY <3>0, <3>1
      <4> QED BY <3>2, <4>1, <4>2, EarlierAt
    <3> QED BY <3>4, <3>5
  <2>2. ASSUME Earlier(l, j, i) PROVE Earlier(r, j, i)
    <3>1. PICK c \in DOMAIN l, d \in DOMAIN l : l[c] = j /\ l[d] = i /\ c < d
      BY <2>2, EarlierIn
    <3>2. c + 1 \in DOMAIN r /\ d + 1 \in DOMAIN r /\ r[c + 1] = j /\ r[d + 1] = i /\ c + 1 < d + 1
      BY <1>1, <1>2, <3>1
    <3> QED BY <1>2, <1>5, <3>2, EarlierAt
  <2>3. ASSUME i \in ToSet(l), j = e PROVE Earlier(r, j, i)
    <3>1. PICK d \in DOMAIN l : l[d] = i
      BY <2>3 DEF ToSet
    <3>2. d + 1 \in DOMAIN r /\ 1 \in DOMAIN r /\ 1 < d + 1 /\ r[d + 1] = i
      BY <1>1, <1>2, <3>1
    <3> QED BY <1>2, <1>5, <2>3, <3>2, EarlierAt
  <2> QED BY <2>1, <2>2, <2>3
<1> QED BY <1>2, <1>h, <1>5, <1>6, <1>7 DEF r

LEMMA Truncated ==
  ASSUME NEW S, NEW l \in Seq(S), IsInjective(l), NEW k \in DOMAIN l
  PROVE  LET r == SubSeq(l, 1, k)
         IN /\ r \in Seq(S) /\ IsInjective(r) /\ r # <<>> /\ Last(r) = l[k]
            /\ \A i : i \in ToSet(r) <=> i \in ToSet(l) /\ ~ Earlier(l, l[k], i)
            /\ \A i, j : Earlier(r, j, i) <=> Earlier(l, j, i) /\ i \in ToSet(r)
<1> DEFINE r == SubSeq(l, 1, k)
<1>1. DOMAIN l = 1..Len(l) /\ Len(l) \in Nat /\ k \in Nat /\ k >= 1
  OBVIOUS
<1>2. r \in Seq(S) /\ DOMAIN r = 1..k /\ Len(r) = k /\ \A c \in DOMAIN r : r[c] = l[c] /\ c \in DOMAIN l
  BY <1>1
<1>3. r # <<>> /\ Last(r) = l[k]
  BY <1>1, <1>2 DEF Last
<1> HIDE DEF r
<1>4. \A a, b \in DOMAIN l : l[a] = l[b] => a = b
  BY DEF IsInjective
<1>5. IsInjective(r)
  BY <1>2, <1>4 DEF IsInjective
<1>6. \A a, b \in DOMAIN l : Earlier(l, l[a], l[b]) <=> a < b
  BY EarlierAt
<1>7. ASSUME NEW i PROVE i \in ToSet(r) <=> i \in ToSet(l) /\ ~ Earlier(l, l[k], i)
  <2>1. ASSUME i \in ToSet(r) PROVE i \in ToSet(l) /\ ~ Earlier(l, l[k], i)
    <3>1. PICK c \in DOMAIN r : r[c] = i
      BY <2>1 DEF ToSet
    <3>2. c \in DOMAIN l /\ l[c] = i /\ ~ (k < c)
      BY <1>1, <1>2, <3>1
    <3> QED BY <1>6, <3>2 DEF ToSet
  <2>2. ASSUME i \in ToSet(l), ~ Earlier(l, l[k], i) PROVE i \in ToSet(r)
    <3>1. PICK c \in DOMAIN l : l[c] = i
      BY <2>2 DEF ToSet
    <3>2. ~ (k < c)
      BY <1>6, <2>2, <3>1
    <3>3. c \in DOMAIN r
      BY <1>1, <1>2, <3>1, <3>2
    <3> QED BY <1>2, <3>1, <3>3 DEF ToSet
  <2> QED BY <2>1, <2>2
<1>8. ASSUME NEW i, NEW j PROVE Earlier(r, j, i) <=> Earlier(l, j, i) /\ i \in ToSet(r)
  <2>1. ASSUME Earlier(r, j, i) PROVE Earlier(l, j, i) /\ i \in ToSet(r)
    <3>1. PICK c \in DOMAIN r, d \in DOMAIN r : r[c] = j /\ r[d] = i /\ c < d
      BY <1>2, <2>1, EarlierIn
    <3> QED BY <1>2, <1>6, <3>1 DEF ToSet
  <2>2. ASSUME Earlier(l, j, i), i \in ToSet(r) PROVE Earlier(r, j, i)
    <3>1. PICK c \in DOMAIN l, d \in DOMAIN l : l[c] = j /\ l[d] = i /\ c < d
      BY <2>2, EarlierIn
    <3>2. PICK b \in DOMAIN r : r[b] = i
      BY <2>2 DEF ToSet
    <3>3. b = d
      BY <1>2, <1>4, <3>1, <3>2
    <3>4. c \in DOMAIN r /\ r[c] = j
      BY <1>1, <1>2, <3>1, <3>3
    <3> QED BY <1>2, <1>5, <3>1, <3>2, <3>3, <3>4, EarlierAt
  <2> QED BY <2>1, <2>2
<1> QED BY <1>2, <1>3, <1>5, <1>7, <1>8 DEF r

-----------------------------------------------------------------------------
(***************************************************************************)
(* What is entered before an instruction is evaluated: the order of inputs *)
(* of whole programs, and what of it a change keeps.                       *)
(***************************************************************************)

(* What hangs off instructions is modules. *)
Hung(lists, mods) ==
  \A m \in Modules : \A x \in ToSet(lists[m]) : ToSet(mods[x]) \subseteq Modules

(* The modules entered before j are the least set that Reached describes. *)
LEMMA EnteredLeast ==
  ASSUME NEW lists, NEW mods, NEW j, NEW S \in SUBSET Modules, Reached(lists, mods, j, S)
  PROVE  EnteredBefore(lists, mods, j) \subseteq S
BY DEF EnteredBefore

LEMMA EnteredReached ==
  ASSUME NEW lists, NEW mods, NEW j, Hung(lists, mods)
  PROVE  /\ Reached(lists, mods, j, EnteredBefore(lists, mods, j))
         /\ EnteredBefore(lists, mods, j) \subseteq Modules
         /\ Main \in EnteredBefore(lists, mods, j)
<1> DEFINE E == EnteredBefore(lists, mods, j)
<1>1. E \subseteq Modules
  BY DEF EnteredBefore
<1>2. Main \in E
  BY MainAssumption DEF EnteredBefore, Reached
<1>3. ASSUME NEW h \in E, NEW x \in ToSet(lists[h]), ~ Earlier(lists[h], j, x),
             NEW n \in ToSet(mods[x])
      PROVE  n \in E
  <2>1. n \in Modules
    BY <1>1 DEF Hung
  <2>2. ASSUME NEW S \in SUBSET Modules, Reached(lists, mods, j, S) PROVE n \in S
    <3>1. h \in S
      BY <2>2 DEF EnteredBefore
    <3>2. ToSet(mods[x]) \subseteq S
      BY <1>3, <2>2, <3>1 DEF Reached
    <3> QED BY <3>2
  <2> QED BY <2>1, <2>2 DEF EnteredBefore
<1>4. Reached(lists, mods, j, E)
  BY <1>2, <1>3 DEF Reached
<1> QED BY <1>1, <1>2, <1>4

(* One module after the other: what is entered, off an instruction that is *)
(* not behind j, is entered before j.                                      *)
LEMMA EnteredNext ==
  ASSUME NEW lists, NEW mods, NEW j, Hung(lists, mods),
         NEW h \in EnteredBefore(lists, mods, j), NEW x \in ToSet(lists[h]),
         ~ Earlier(lists[h], j, x)
  PROVE  ToSet(mods[x]) \subseteq EnteredBefore(lists, mods, j)
BY EnteredReached DEF Reached

(* A program with less hung in it, in which j comes before as much as it   *)
(* did, enters no more before j.                                           *)
LEMMA EnteredShrinks ==
  ASSUME NEW lists, NEW mods, NEW lists2, NEW mods2, NEW j, Hung(lists, mods),
         \A h \in EnteredBefore(lists, mods, j) : \A x \in ToSet(lists2[h]) :
           \/ ToSet(mods2[x]) \subseteq EnteredBefore(lists, mods, j)
           \/ Earlier(lists2[h], j, x)
           \/ /\ x \in ToSet(lists[h]) /\ ToSet(mods2[x]) \subseteq ToSet(mods[x])
              /\ ~ Earlier(lists[h], j, x)
  PROVE  EnteredBefore(lists2, mods2, j) \subseteq EnteredBefore(lists, mods, j)
<1> DEFINE E == EnteredBefore(lists, mods, j)
<1>1. Main \in E /\ E \subseteq Modules
  BY EnteredReached
<1>2. ASSUME NEW h \in E, NEW x \in ToSet(lists2[h]), ~ Earlier(lists2[h], j, x)
      PROVE  ToSet(mods2[x]) \subseteq E
  <2>1. CASE x \in ToSet(lists[h]) /\ ToSet(mods2[x]) \subseteq ToSet(mods[x])
              /\ ~ Earlier(lists[h], j, x)
    BY <2>1, EnteredNext
  <2> QED BY <1>2, <2>1
<1>3. Reached(lists2, mods2, j, E)
  BY <1>1, <1>2 DEF Reached
<1> QED BY <1>1, <1>3, EnteredLeast

-----------------------------------------------------------------------------
Ordered(lists, mods) == OneHome(lists) /\ Hung(lists, mods)

(* Each instruction has one home. *)
LEMMA SameHome ==
  ASSUME NEW lists, OneHome(lists), NEW m \in Modules, NEW n \in Modules, NEW i,
         i \in ToSet(lists[m]), i \in ToSet(lists[n])
  PROVE  m = n
BY DEF OneHome

LEMMA EarlierHome ==
  ASSUME NEW lists, OneHome(lists), NEW h \in Modules, NEW i, NEW x, Earlier(lists[h], i, x)
  PROVE  i \in ToSet(lists[h]) /\ x \in ToSet(lists[h])
BY EarlierIn DEF OneHome

(* If m is not entered before j, or j comes before i in m, whatever is     *)
(* entered before j is entered before i.                                   *)
LEMMA EnteredGrows ==
  ASSUME NEW lists, NEW mods, Ordered(lists, mods), NEW m \in Modules, NEW i \in ToSet(lists[m]),
         NEW j, Available(lists, mods, m, i, j)
  PROVE  EnteredBefore(lists, mods, j) \subseteq EnteredBefore(lists, mods, i)
<1> DEFINE F == EnteredBefore(lists, mods, j)
           E == EnteredBefore(lists, mods, i)
<1>1. /\ Main \in E /\ E \subseteq Modules /\ Main \in F /\ F \subseteq Modules
  BY EnteredReached DEF Ordered
<1>2. ASSUME NEW h \in E \cap F, NEW x \in ToSet(lists[h]), ~ Earlier(lists[h], j, x)
      PROVE  ToSet(mods[x]) \subseteq E \cap F
  <2>1. ToSet(mods[x]) \subseteq F
    BY <1>2, EnteredNext DEF Ordered
  <2>2. ~ Earlier(lists[h], i, x)
    <3> SUFFICES ASSUME Earlier(lists[h], i, x) PROVE FALSE
      OBVIOUS
    <3>1. h = m
      BY <1>1, EarlierHome, SameHome DEF Ordered
    <3>2. Earlier(lists[m], j, i)
      BY <3>1 DEF Available
    <3>3. Earlier(lists[m], j, x)
      <4>1. lists[m] \in Seq(Ins) /\ IsInjective(lists[m])
        BY DEF Ordered, OneHome
      <4> QED BY <3>1, <3>2, <4>1, EarlierOrder
    <3> QED BY <1>2, <3>1, <3>3
  <2>3. ToSet(mods[x]) \subseteq E
    BY <1>1, <2>2, EnteredNext DEF Ordered
  <2> QED BY <2>1, <2>3
<1>3. Reached(lists, mods, j, E \cap F)
  BY <1>1, <1>2 DEF Reached
<1>4. F \subseteq E \cap F
  BY <1>1, <1>3, EnteredLeast
<1> QED BY <1>4

(* What is evaluated before i is, before the users of i. *)
LEMMA AvailableTransitive ==
  ASSUME NEW lists, NEW mods, Ordered(lists, mods),
         NEW m \in Modules, NEW i \in ToSet(lists[m]), NEW j, Available(lists, mods, m, i, j),
         NEW n \in Modules, NEW u \in ToSet(lists[n]), Available(lists, mods, n, u, i)
  PROVE  Available(lists, mods, n, u, j)
<1>1. EnteredBefore(lists, mods, j) \subseteq EnteredBefore(lists, mods, i)
  BY EnteredGrows
<1>2. CASE n \notin EnteredBefore(lists, mods, i)
  BY <1>1, <1>2 DEF Available
<1>3. CASE Earlier(lists[n], i, u)
  <2>1. m = n
    BY <1>3, EarlierHome, SameHome DEF Ordered
  <2>2. lists[m] \in Seq(Ins) /\ IsInjective(lists[m])
    BY DEF Ordered, OneHome
  <2>3. CASE Earlier(lists[m], j, i)
    BY <1>3, <2>1, <2>2, <2>3, EarlierOrder DEF Available
  <2>4. CASE m \notin EnteredBefore(lists, mods, j)
    BY <2>1, <2>4 DEF Available
  <2> QED BY <2>3, <2>4 DEF Available
<1> QED BY <1>2, <1>3 DEF Available

(* A module in use is entered before its own instructions are evaluated. *)
LEMMA UsedEntered ==
  ASSUME NEW lists, NEW mods, Ordered(lists, mods), NEW m \in Used(lists, mods),
         NEW i \in ToSet(lists[m])
  PROVE  m \in Modules /\ m \in EnteredBefore(lists, mods, i)
<1> DEFINE E == EnteredBefore(lists, mods, i)
<1>1. Main \in E /\ E \subseteq Modules /\ m \in Modules
  BY EnteredReached DEF Ordered, Used
<1> SUFFICES ASSUME m \notin E PROVE FALSE
  BY <1>1
<1>2. ASSUME NEW h \in E, NEW x \in ToSet(lists[h]) PROVE ToSet(mods[x]) \subseteq E
  <2>1. ~ Earlier(lists[h], i, x)
    BY <1>1, EarlierHome, SameHome DEF Ordered
  <2> QED BY <2>1, EnteredNext DEF Ordered
<1>3. Reached(lists, mods, End, E)
  BY <1>1, <1>2 DEF Reached
<1>4. Used(lists, mods) \subseteq E
  BY <1>1, <1>3, EnteredLeast DEF Used
<1> QED BY <1>4

(* In a module in use nothing is evaluated before itself, and its own      *)
(* instructions are available by their place alone.                        *)
LEMMA NotBeforeItself ==
  ASSUME NEW lists, NEW mods, Ordered(lists, mods), NEW m \in Used(lists, mods),
         NEW i \in ToSet(lists[m]), NEW j \in ToSet(lists[m])
  PROVE  Available(lists, mods, m, i, j) <=> Earlier(lists[m], j, i)
BY UsedEntered DEF Available

(* Two instructions, one of them in a module in use, are not each before   *)
(* the other.                                                              *)
LEMMA NotBothBefore ==
  ASSUME NEW lists, NEW mods, Ordered(lists, mods), NEW m \in Used(lists, mods),
         NEW i \in ToSet(lists[m]), NEW n \in Modules, NEW j \in ToSet(lists[n]),
         Available(lists, mods, m, i, j), Available(lists, mods, n, j, i)
  PROVE  FALSE
<1>1. m \in Modules
  BY UsedEntered
<1>2. Available(lists, mods, m, i, i)
  BY <1>1, AvailableTransitive
<1>3. Earlier(lists[m], i, i)
  BY <1>2, NotBeforeItself
<1> QED BY <1>1, <1>3, EarlierOrder DEF Ordered, OneHome

(* Before the end everything in use is entered, whatever j is. *)
LEMMA EnteredIsUsed ==
  ASSUME NEW lists, NEW mods, Ordered(lists, mods), NEW j
  PROVE  EnteredBefore(lists, mods, j) \subseteq Used(lists, mods)
<1>1. \A h \in Modules : \A x : ~ Earlier(lists[h], End, x)
  <2> SUFFICES ASSUME NEW h \in Modules, NEW x, Earlier(lists[h], End, x) PROVE FALSE
    OBVIOUS
  <2>1. End \in ToSet(lists[h]) /\ lists[h] \in Seq(Ins)
    BY EarlierHome DEF Ordered, OneHome
  <2>2. ToSet(lists[h]) \subseteq Ins
    BY <2>1 DEF ToSet
  <2> QED BY <2>1, <2>2, EndAssumption
<1> DEFINE E == EnteredBefore(lists, mods, End)
<1>2. Main \in E /\ E \subseteq Modules
  BY EnteredReached DEF Ordered
<1>3. \A h \in E : \A x \in ToSet(lists[h]) : ToSet(mods[x]) \subseteq E
  BY <1>1, <1>2, EnteredNext DEF Ordered
<1>4. Reached(lists, mods, j, E)
  BY <1>2, <1>3 DEF Reached
<1> QED BY <1>2, <1>4, EnteredLeast DEF Used

(* The last instruction of a module in use is evaluated before none in a   *)
(* module in use.                                                          *)
LEMMA LastBeforeNone ==
  ASSUME NEW lists, NEW mods, Ordered(lists, mods), NEW m \in Used(lists, mods), lists[m] # <<>>,
         NEW n \in Used(lists, mods), NEW u \in ToSet(lists[n])
  PROVE  ~ Available(lists, mods, n, u, Last(lists[m]))
<1> DEFINE i == Last(lists[m])
           E == EnteredBefore(lists, mods, i)
<1>1. /\ m \in Modules /\ n \in Modules /\ Main \in E /\ E \subseteq Modules
  BY EnteredReached DEF Ordered, Used
<1>2. i \in ToSet(lists[m]) /\ \A x : ~ Earlier(lists[m], i, x)
  BY <1>1, EndsOf DEF Ordered, OneHome
<1>3. \A h \in Modules : \A x : ~ Earlier(lists[h], i, x)
  BY <1>1, <1>2, EarlierHome, SameHome DEF Ordered
<1>4. \A h \in E : \A x \in ToSet(lists[h]) : ToSet(mods[x]) \subseteq E
  BY <1>1, <1>3, EnteredNext DEF Ordered
<1>5. Reached(lists, mods, End, E)
  BY <1>1, <1>4 DEF Reached
<1>6. Used(lists, mods) \subseteq E
  BY <1>1, <1>5, EnteredLeast DEF Used
<1> QED BY <1>1, <1>3, <1>6 DEF Available

-----------------------------------------------------------------------------
(***************************************************************************)
(* Valid programs: every list, the inputs in order, and the last instruction *)
(* of a module in use used by nothing.                                     *)
(***************************************************************************)

(* The ends of a list by its order. *)
LEMMA LastIs ==
  ASSUME NEW S, NEW l \in Seq(S), IsInjective(l), NEW i \in ToSet(l)
  PROVE  /\ i = Last(l) <=> \A j : ~ Earlier(l, i, j)
         /\ i # Last(l) <=> Earlier(l, i, Last(l))
         /\ i = Head(l) <=> \A j : ~ Earlier(l, j, i)
         /\ i # Head(l) <=> Earlier(l, Head(l), i)
         /\ l # <<>>
<1>1. l # <<>>
  BY DEF ToSet
<1>2. /\ Head(l) \in ToSet(l) /\ \A j : ~ Earlier(l, j, Head(l))
      /\ Last(l) \in ToSet(l) /\ \A j : ~ Earlier(l, Last(l), j)
  BY <1>1, EndsOf
<1>3. /\ i = Last(l) \/ Earlier(l, i, Last(l)) \/ Earlier(l, Last(l), i)
      /\ i = Head(l) \/ Earlier(l, i, Head(l)) \/ Earlier(l, Head(l), i)
  BY <1>2, EarlierOrder
<1> QED BY <1>1, <1>2, <1>3

LEMMA TailOf ==
  ASSUME NEW S, NEW l \in Seq(S), IsInjective(l), l # <<>>
  PROVE  /\ Tail(l) \in Seq(S) /\ IsInjective(Tail(l)) /\ ToSet(Tail(l)) = ToSet(l) \ {Head(l)}
         /\ \A i, j : Earlier(Tail(l), j, i) <=> Earlier(l, j, i) /\ j # Head(l)
<1>1. DOMAIN l = 1..Len(l) /\ Len(l) \in Nat /\ Len(l) >= 1 /\ 1 \in DOMAIN l /\ Head(l) = l[1]
  OBVIOUS
<1>2. /\ Tail(l) \in Seq(S) /\ DOMAIN Tail(l) = 1..(Len(l) - 1)
      /\ \A c \in DOMAIN Tail(l) : Tail(l)[c] = l[c + 1]
  BY <1>1
<1> DEFINE t == Tail(l)
<1> HIDE DEF t
<1>3. t \in Seq(S) /\ DOMAIN t = 1..(Len(l) - 1) /\ \A c \in DOMAIN t : t[c] = l[c + 1] /\ c + 1 \in DOMAIN l
  BY <1>1, <1>2 DEF t
<1>4. \A c \in DOMAIN l : c # 1 => c - 1 \in DOMAIN t /\ t[c - 1] = l[c]
  <2> SUFFICES ASSUME NEW c \in DOMAIN l, c # 1 PROVE c - 1 \in DOMAIN t /\ t[c - 1] = l[c]
    OBVIOUS
  <2>1. c - 1 \in DOMAIN t /\ (c - 1) + 1 = c
    BY <1>1, <1>3
  <2> QED BY <1>3, <2>1
<1>5. \A a, b \in DOMAIN l : l[a] = l[b] => a = b
  BY DEF IsInjective
<1>6. IsInjective(t)
  <2> SUFFICES ASSUME NEW c \in DOMAIN t, NEW d \in DOMAIN t, t[c] = t[d] PROVE c = d
    BY DEF IsInjective
  <2>1. c + 1 = d + 1
    BY <1>3, <1>5
  <2> QED BY <1>1, <1>3, <2>1
<1>7. ToSet(t) = ToSet(l) \ {Head(l)}
  <2>1. ASSUME NEW x \in ToSet(t) PROVE x \in ToSet(l) /\ x # Head(l)
    <3>1. PICK c \in DOMAIN t : t[c] = x
      BY DEF ToSet
    <3>2. c + 1 # 1 /\ x = l[c + 1] /\ c + 1 \in DOMAIN l
      BY <1>1, <1>3, <3>1
    <3> QED BY <1>1, <1>5, <3>2 DEF ToSet
  <2>2. ASSUME NEW x \in ToSet(l), x # Head(l) PROVE x \in ToSet(t)
    <3>1. PICK c \in DOMAIN l : l[c] = x
      BY DEF ToSet
    <3> QED BY <1>1, <1>4, <2>2, <3>1 DEF ToSet
  <2> QED BY <2>1, <2>2
<1>8. ASSUME NEW i, NEW j PROVE Earlier(t, j, i) <=> Earlier(l, j, i) /\ j # Head(l)
  <2>1. ASSUME Earlier(t, j, i) PROVE Earlier(l, j, i) /\ j # Head(l)
    <3>1. PICK c \in DOMAIN t, d \in DOMAIN t : t[c] = j /\ t[d] = i /\ c < d
      <4>1. t \in Seq(S)
        BY <1>3
      <4> QED BY <2>1, <4>1, EarlierIn
    <3>5. t[c] = l[c + 1] /\ c + 1 \in DOMAIN l /\ t[d] = l[d + 1] /\ d + 1 \in DOMAIN l
      BY <1>3
    <3>2. l[c + 1] = j /\ l[d + 1] = i /\ c + 1 \in DOMAIN l /\ d + 1 \in DOMAIN l
      BY <3>1, <3>5
    <3>4. c + 1 < d + 1
      BY <1>1, <1>3, <3>1
    <3>3. j \in ToSet(t)
      BY <3>1 DEF ToSet
    <3> QED BY <1>7, <3>2, <3>3, <3>4, EarlierAt
  <2>2. ASSUME Earlier(l, j, i), j # Head(l) PROVE Earlier(t, j, i)
    <3>1. PICK c \in DOMAIN l, d \in DOMAIN l : l[c] = j /\ l[d] = i /\ c < d
      BY <2>2, EarlierIn
    <3>4. c # 1
      BY <1>1, <2>2, <3>1
    <3>5. c \in Nat /\ d \in Nat /\ c >= 1
      BY <1>1, <3>1
    <3>2. c # 1 /\ d # 1 /\ c - 1 < d - 1
      BY <3>1, <3>4, <3>5
    <3>3. c - 1 \in DOMAIN t /\ t[c - 1] = j /\ d - 1 \in DOMAIN t /\ t[d - 1] = i
      BY <1>4, <3>1, <3>2
    <3> QED BY <1>3, <1>6, <3>2, <3>3, EarlierAt
  <2> QED BY <2>1, <2>2
<1> QED BY <1>3, <1>6, <1>7, <1>8 DEF t

-----------------------------------------------------------------------------
(* Modules, lists and hangs are what they are in valid programs. *)
GraphShape ==
  /\ modules \subseteq Modules /\ list \in [Modules -> Seq(Ins)] /\ OneHome(list)
  /\ \A m \in Modules \ modules : list[m] = <<>>
  /\ subs \in [Ins -> Seq(Modules)] /\ DOMAIN op = Ins

(* A module in use returns something, and nothing uses that. *)
Ends == \A m \in UsedModules : list[m] # <<>> /\ outs[LastOf(m)] = {}

ProgramInv == GraphInv /\ GraphShape /\ InputsEvaluated /\ Ends

LEMMA ShapeOrdered ==
  ASSUME GraphShape
  PROVE  /\ Ordered(list, subs)
         /\ \A m \in Modules : list[m] \in Seq(Ins) /\ IsInjective(list[m]) /\ ToSet(list[m]) \subseteq Ins
         /\ UsedModules \subseteq Modules /\ Main \in UsedModules
<1>1. \A m \in Modules : list[m] \in Seq(Ins) /\ IsInjective(list[m]) /\ ToSet(list[m]) \subseteq Ins
  BY InputsAreInstructions DEF GraphShape, OneHome
<1>2. Hung(list, subs)
  <2> SUFFICES ASSUME NEW m \in Modules, NEW x \in ToSet(list[m]) PROVE ToSet(subs[x]) \subseteq Modules
    BY DEF Hung
  <2>1. subs[x] \in Seq(Modules)
    BY <1>1 DEF GraphShape
  <2> QED BY <2>1, InputsAreInstructions
<1>3. Ordered(list, subs)
  BY <1>2 DEF Ordered, GraphShape
<1> QED BY <1>1, <1>2, <1>3, EnteredReached DEF UsedModules, Used

LEMMA LiveIs ==
  ASSUME GraphShape
  PROVE  \A i : i \in Live <=> \E m \in Modules : i \in ToSet(list[m])
<1>1. \A m \in Modules : list[m] = <<>> => ToSet(list[m]) = {}
  BY DEF ToSet
<1>2. \A m \in Modules : ToSet(list[m]) \subseteq Ins
  BY ShapeOrdered
<1>3. \A i : i \in Live <=> i \in Ins /\ \E m \in modules : i \in ToSet(list[m])
  BY DEF Live, Home, HasInstruction
<1> QED BY <1>1, <1>2, <1>3 DEF GraphShape

LEMMA PositionOf ==
  ASSUME NEW m, NEW i \in ToSet(list[m])
  PROVE  Position(m, i) \in DOMAIN list[m] /\ list[m][Position(m, i)] = i
BY InList DEF Position

(* std::next *)
LEMMA NextOfIs ==
  ASSUME GraphShape, NEW m \in Modules, NEW i \in ToSet(list[m])
  PROVE  IF i = LastOf(m) THEN NextOf(m, i) = End
         ELSE /\ NextOf(m, i) \in ToSet(list[m]) /\ Earlier(list[m], i, NextOf(m, i))
              /\ NextOf(m, i) # End
              /\ \A z : Earlier(list[m], i, z) => z = NextOf(m, i) \/ Earlier(list[m], NextOf(m, i), z)
<1>1. list[m] \in Seq(Ins) /\ IsInjective(list[m]) /\ ToSet(list[m]) \subseteq Ins
  BY ShapeOrdered
<1> DEFINE l == list[m]
           p == Position(m, i)
<1>2. p \in DOMAIN l /\ l[p] = i
  BY PositionOf
<1>3. DOMAIN l = 1..Len(l) /\ Len(l) \in Nat /\ Last(l) = l[Len(l)]
  BY <1>1 DEF Last
<1> HIDE DEF l, p
<1>4. CASE i = Last(l)
  BY <1>4 DEF NextOf, LastOf, l
<1>5. CASE i # Last(l)
  <2>1. NextOf(m, i) = l[p + 1]
    BY <1>5 DEF NextOf, LastOf, l, p
  <2>2. p + 1 \in DOMAIN l /\ p < p + 1
    BY <1>2, <1>3, <1>5
  <2>3. l[p + 1] \in ToSet(l)
    BY <2>2 DEF ToSet
  <2>4. Earlier(l, i, l[p + 1])
    BY <1>1, <1>2, <2>2, EarlierAt DEF l
  <2>5. ASSUME NEW z, Earlier(l, i, z) PROVE z = l[p + 1] \/ Earlier(l, l[p + 1], z)
    <3>1. PICK a \in DOMAIN l, b \in DOMAIN l : l[a] = i /\ l[b] = z /\ a < b
      BY <1>1, <2>5, EarlierIn DEF l
    <3>2. a = p
      BY <1>1, <1>2, <3>1 DEF IsInjective, l
    <3>3. b = p + 1 \/ p + 1 < b
      BY <1>3, <3>1, <3>2
    <3> QED BY <1>1, <2>2, <3>1, <3>3, EarlierAt DEF l
  <2>6. l[p + 1] # End
    BY <1>1, <2>3, EndAssumption DEF l
  <2> QED BY <1>5, <2>1, <2>3, <2>4, <2>5, <2>6 DEF LastOf, l
<1> QED BY <1>4, <1>5

(* std::prev *)
LEMMA PrevOfIs ==
  ASSUME GraphShape, NEW m \in Modules, NEW i \in ToSet(list[m]), i # FirstOf(m)
  PROVE  /\ PrevOf(m, i) \in ToSet(list[m]) /\ Earlier(list[m], PrevOf(m, i), i)
         /\ \A z : Earlier(list[m], z, i) => z = PrevOf(m, i) \/ Earlier(list[m], z, PrevOf(m, i))
<1>1. list[m] \in Seq(Ins) /\ IsInjective(list[m]) /\ ToSet(list[m]) \subseteq Ins
  BY ShapeOrdered
<1> DEFINE l == list[m]
           p == Position(m, i)
<1>2. p \in DOMAIN l /\ l[p] = i
  BY PositionOf
<1>3. DOMAIN l = 1..Len(l) /\ Len(l) \in Nat /\ (l # <<>> => Head(l) = l[1]) /\ l # <<>>
  BY <1>1, <1>2
<1> HIDE DEF l, p
<1>4. i # End
  BY <1>1, EndAssumption
<1>5. PrevOf(m, i) = l[p - 1]
  BY <1>4 DEF PrevOf, l, p
<1>6. i # l[1]
  BY <1>3 DEF FirstOf, l
<1>7. p - 1 \in DOMAIN l /\ p - 1 < p
  BY <1>2, <1>3, <1>6
<1>8. l[p - 1] \in ToSet(l)
  BY <1>7 DEF ToSet
<1>9. Earlier(l, l[p - 1], i)
  BY <1>1, <1>2, <1>7, EarlierAt DEF l
<1>10. ASSUME NEW z, Earlier(l, z, i) PROVE z = l[p - 1] \/ Earlier(l, z, l[p - 1])
  <2>1. PICK a \in DOMAIN l, b \in DOMAIN l : l[a] = z /\ l[b] = i /\ a < b
    BY <1>1, <1>10, EarlierIn DEF l
  <2>2. b = p
    BY <1>1, <1>2, <2>1 DEF IsInjective, l
  <2>3. a = p - 1 \/ a < p - 1
    BY <1>3, <2>1, <2>2
  <2> QED BY <1>1, <1>7, <2>1, <2>3, EarlierAt DEF l
<1> QED BY <1>5, <1>8, <1>9, <1>10 DEF l

(* In a module, first and last by the order. *)
LEMMA EndsIn ==
  ASSUME GraphShape, NEW m \in Modules, NEW i \in ToSet(list[m])
  PROVE  /\ i = LastOf(m) <=> \A j : ~ Earlier(list[m], i, j)
         /\ i # LastOf(m) <=> Earlier(list[m], i, LastOf(m))
         /\ i = FirstOf(m) <=> \A j : ~ Earlier(list[m], j, i)
         /\ i # FirstOf(m) <=> Earlier(list[m], FirstOf(m), i)
         /\ list[m] # <<>>
BY ShapeOrdered, LastIs DEF LastOf, FirstOf

LEMMA OrderIn ==
  ASSUME GraphShape, NEW m \in Modules
  PROVE  /\ \A i : ~ Earlier(list[m], i, i)
         /\ \A i, j, k : Earlier(list[m], i, j) /\ Earlier(list[m], j, k) => Earlier(list[m], i, k)
         /\ \A i, j : Earlier(list[m], i, j) => ~ Earlier(list[m], j, i)
         /\ \A i, j \in ToSet(list[m]) : i = j \/ Earlier(list[m], i, j) \/ Earlier(list[m], j, i)
         /\ \A i, j : Earlier(list[m], i, j) => i \in ToSet(list[m]) /\ j \in ToSet(list[m])
BY ShapeOrdered, EarlierOrder

(* A change of one list, which takes in nothing of another. *)
LEMMA OneList ==
  ASSUME GraphShape, NEW m \in Modules, NEW l \in Seq(Ins), IsInjective(l),
         \A i \in ToSet(l) : i \in ToSet(list[m]) \/ i \notin Live,
         list' = [list EXCEPT ![m] = l]
  PROVE  /\ list' \in [Modules -> Seq(Ins)] /\ OneHome(list') /\ list'[m] = l
         /\ \A h \in Modules \ {m} : list'[h] = list[h]
<1>1. list \in [Modules -> Seq(Ins)] /\ OneHome(list)
  BY DEF GraphShape
<1>2. /\ list' \in [Modules -> Seq(Ins)] /\ list'[m] = l
      /\ \A h \in Modules \ {m} : list'[h] = list[h]
  BY <1>1
<1>3. \A i \in ToSet(l), n \in Modules \ {m} : i \notin ToSet(list[n])
  BY <1>1, LiveIs, SameHome
<1>4. ASSUME NEW h \in Modules, NEW n \in Modules, h # n
      PROVE  ToSet(list'[h]) \cap ToSet(list'[n]) = {}
  <2>1. CASE h = m
    BY <1>2, <1>3, <1>4, <2>1
  <2>2. CASE n = m
    BY <1>2, <1>3, <1>4, <2>2
  <2>3. CASE h # m /\ n # m
    BY <1>1, <1>2, <1>4, <2>3 DEF OneHome
  <2> QED BY <2>1, <2>2, <2>3
<1>5. \A h \in Modules : list'[h] \in Seq(Ins) /\ IsInjective(list'[h])
  BY <1>1, <1>2 DEF OneHome
<1> QED BY <1>2, <1>4, <1>5 DEF OneHome

(* An order kept where it matters keeps inputs in front. *)
LEMMA StillAvailable ==
  ASSUME NEW lists, NEW mods, NEW lists2, NEW mods2, NEW m, NEW i, NEW j,
         Available(lists, mods, m, i, j),
         Earlier(lists[m], j, i) => Earlier(lists2[m], j, i),
         EnteredBefore(lists2, mods2, j) \subseteq EnteredBefore(lists, mods, j)
  PROVE  Available(lists2, mods2, m, i, j)
BY DEF Available

LEMMA LessHung ==
  ASSUME NEW lists, NEW mods, NEW mods2, Ordered(lists, mods),
         \A h \in Modules : \A x \in ToSet(lists[h]) : ToSet(mods2[x]) \subseteq ToSet(mods[x])
  PROVE  /\ Ordered(lists, mods2)
         /\ \A j : EnteredBefore(lists, mods2, j) \subseteq EnteredBefore(lists, mods, j)
<1>1. Hung(lists, mods) /\ Ordered(lists, mods2)
  BY DEF Ordered, Hung
<1>2. ASSUME NEW j PROVE EnteredBefore(lists, mods2, j) \subseteq EnteredBefore(lists, mods, j)
  <2>1. EnteredBefore(lists, mods, j) \subseteq Modules
    BY <1>1, EnteredReached
  <2> QED BY <1>1, <2>1, EnteredShrinks
<1> QED BY <1>1, <1>2

-----------------------------------------------------------------------------
(* move_instruction(i, end()) *)
LEMMA MoveToEndIs ==
  ASSUME GraphShape, NEW m \in Modules, NEW i \in ToSet(list[m]), MoveToEnd(m, i)
  PROVE  /\ list' \in [Modules -> Seq(Ins)] /\ OneHome(list')
         /\ \A h \in Modules \ {m} : list'[h] = list[h]
         /\ ToSet(list'[m]) = ToSet(list[m]) /\ list'[m] # <<>> /\ Last(list'[m]) = i
         /\ \A x, y : Earlier(list'[m], y, x) <=> \/ Earlier(list[m], y, x) /\ x # i /\ y # i
                                                  \/ x = i /\ y \in ToSet(list[m]) \ {i}
<1> DEFINE r == RemoveAt(list[m], Position(m, i))
           l == Append(r, i)
<1>1. list[m] \in Seq(Ins) /\ IsInjective(list[m]) /\ i \in Ins
  BY ShapeOrdered
<1>2. Position(m, i) \in DOMAIN list[m] /\ list[m][Position(m, i)] = i
  BY PositionOf
<1>3. /\ r \in Seq(Ins) /\ IsInjective(r) /\ ToSet(r) = ToSet(list[m]) \ {i}
      /\ \A x, y : Earlier(r, y, x) <=> Earlier(list[m], y, x) /\ y # i /\ x # i
  BY <1>1, <1>2, Removed
<1> HIDE DEF r
<1>4. /\ l \in Seq(Ins) /\ IsInjective(l) /\ ToSet(l) = ToSet(r) \cup {i} /\ Last(l) = i
      /\ \A x, y : Earlier(l, y, x) <=> Earlier(r, y, x) \/ (y \in ToSet(r) /\ x = i)
  BY <1>1, <1>3, Appended
<1>5. list' = [list EXCEPT ![m] = l]
  BY DEF MoveToEnd, r
<1> HIDE DEF l
<1>6. ToSet(l) = ToSet(list[m])
  BY <1>3, <1>4
<1>7. /\ list' \in [Modules -> Seq(Ins)] /\ OneHome(list') /\ list'[m] = l
      /\ \A h \in Modules \ {m} : list'[h] = list[h]
  BY <1>4, <1>5, <1>6, OneList
<1>8. l # <<>>
  <2>1. ToSet(<<>>) = {}
    BY DEF ToSet
  <2> QED BY <1>6, <2>1
<1>9. ASSUME NEW x, NEW y
      PROVE  Earlier(l, y, x) <=> \/ Earlier(list[m], y, x) /\ x # i /\ y # i
                                  \/ x = i /\ y \in ToSet(list[m]) \ {i}
  <2>1. Earlier(l, y, x) <=> Earlier(r, y, x) \/ (y \in ToSet(r) /\ x = i)
    BY <1>4
  <2>2. Earlier(r, y, x) <=> Earlier(list[m], y, x) /\ y # i /\ x # i
    BY <1>3
  <2>3. y \in ToSet(r) <=> y \in ToSet(list[m]) \ {i}
    BY <1>3
  <2> QED BY <2>1, <2>2, <2>3
<1>10. \A x, y : Earlier(list'[m], y, x) <=> \/ Earlier(list[m], y, x) /\ x # i /\ y # i
                                             \/ x = i /\ y \in ToSet(list[m]) \ {i}
  BY <1>7, <1>9
<1> QED BY <1>4, <1>6, <1>7, <1>8, <1>10

(* What nothing uses may move behind everything. *)
LEMMA MoveKeepsOrder ==
  ASSUME GraphShape, NEW m \in Modules, NEW i \in ToSet(list[m]), MoveToEnd(m, i),
         NEW inputs, NEW mods, Ordered(list, mods), InOrder(list, inputs, mods),
         \A h \in Modules : \A u \in ToSet(list[h]) : i \notin ToSet(inputs[u])
  PROVE  InOrder(list', inputs, mods) /\ Used(list', mods) \subseteq Used(list, mods)
<1>1. /\ \A h \in Modules \ {m} : list'[h] = list[h]
      /\ ToSet(list'[m]) = ToSet(list[m])
      /\ \A x, y : Earlier(list'[m], y, x) <=> \/ Earlier(list[m], y, x) /\ x # i /\ y # i
                                               \/ x = i /\ y \in ToSet(list[m]) \ {i}
  BY MoveToEndIs
<1>2. \A x, y : Earlier(list[m], y, x) => x \in ToSet(list[m]) /\ y \in ToSet(list[m])
  BY OrderIn
<1>3. ASSUME NEW h \in Modules, NEW x, NEW j, j # i, Earlier(list[h], j, x)
      PROVE  Earlier(list'[h], j, x)
  BY <1>1, <1>2, <1>3
<1>4. ASSUME NEW j, j # i
      PROVE  EnteredBefore(list', mods, j) \subseteq EnteredBefore(list, mods, j)
  <2>1. EnteredBefore(list, mods, j) \subseteq Modules /\ Hung(list, mods)
    BY EnteredReached DEF Ordered
  <2>2. ASSUME NEW h \in EnteredBefore(list, mods, j), NEW x \in ToSet(list'[h]),
               ~ Earlier(list'[h], j, x)
        PROVE  x \in ToSet(list[h]) /\ ~ Earlier(list[h], j, x)
    BY <1>1, <1>3, <1>4, <2>1, <2>2
  <2> QED BY <2>1, <2>2, EnteredShrinks
<1>5. ASSUME NEW h \in Modules, NEW u \in ToSet(list'[h]), NEW j \in ToSet(inputs[u])
      PROVE  Available(list', mods, h, u, j)
  <2>1. u \in ToSet(list[h])
    BY <1>1
  <2>2. j # i /\ Available(list, mods, h, u, j)
    BY <2>1 DEF InOrder
  <2> QED BY <1>3, <1>4, <2>2, StillAvailable
<1>6. i # End
  BY ShapeOrdered, EndAssumption
<1> QED BY <1>4, <1>5, <1>6 DEF InOrder, Used

-----------------------------------------------------------------------------
(* remove_instructions(std::next(x), end()) *)
LEMMA TruncateIs ==
  ASSUME GraphShape, NEW m \in Modules, NEW x \in ToSet(list[m]),
         list' = [list EXCEPT ![m] = SubSeq(list[m], 1, Position(m, x))]
  PROVE  /\ list' \in [Modules -> Seq(Ins)] /\ OneHome(list')
         /\ \A h \in Modules \ {m} : list'[h] = list[h]
         /\ list'[m] # <<>> /\ Last(list'[m]) = x
         /\ \A i : i \in ToSet(list'[m]) <=> i \in ToSet(list[m]) /\ ~ Earlier(list[m], x, i)
         /\ \A i, j : Earlier(list'[m], j, i) <=> Earlier(list[m], j, i) /\ i \in ToSet(list'[m])
<1> DEFINE l == SubSeq(list[m], 1, Position(m, x))
<1>1. list[m] \in Seq(Ins) /\ IsInjective(list[m])
  BY ShapeOrdered
<1>2. Position(m, x) \in DOMAIN list[m] /\ list[m][Position(m, x)] = x
  BY PositionOf
<1>3. /\ l \in Seq(Ins) /\ IsInjective(l) /\ l # <<>> /\ Last(l) = x
      /\ \A i : i \in ToSet(l) <=> i \in ToSet(list[m]) /\ ~ Earlier(list[m], x, i)
      /\ \A i, j : Earlier(l, j, i) <=> Earlier(list[m], j, i) /\ i \in ToSet(l)
  BY <1>1, <1>2, Truncated
<1> HIDE DEF l
<1>4. /\ list' \in [Modules -> Seq(Ins)] /\ OneHome(list') /\ list'[m] = l
      /\ \A h \in Modules \ {m} : list'[h] = list[h]
  <2>1. list' = [list EXCEPT ![m] = l]
    BY DEF l
  <2> QED BY <1>3, <2>1, OneList
<1> QED BY <1>3, <1>4

(* A list that lost its end, or all it had, enters no more before j. *)
LEMMA LessListed ==
  ASSUME NEW lists, NEW mods, NEW lists2, Ordered(lists, mods),
         \A h \in Modules : /\ ToSet(lists2[h]) \subseteq ToSet(lists[h])
                            /\ \A i, j : i \in ToSet(lists2[h]) /\ Earlier(lists[h], j, i)
                                           => Earlier(lists2[h], j, i)
  PROVE  /\ \A j : EnteredBefore(lists2, mods, j) \subseteq EnteredBefore(lists, mods, j)
         /\ \A inputs : InOrder(lists, inputs, mods) => InOrder(lists2, inputs, mods)
<1>1. ASSUME NEW j PROVE EnteredBefore(lists2, mods, j) \subseteq EnteredBefore(lists, mods, j)
  <2>1. EnteredBefore(lists, mods, j) \subseteq Modules /\ Hung(lists, mods)
    BY EnteredReached DEF Ordered
  <2> QED BY <2>1, EnteredShrinks
<1>2. ASSUME NEW inputs, InOrder(lists, inputs, mods), NEW h \in Modules,
             NEW u \in ToSet(lists2[h]), NEW j \in ToSet(inputs[u])
      PROVE  Available(lists2, mods, h, u, j)
  <2>1. Available(lists, mods, h, u, j)
    BY <1>2 DEF InOrder
  <2>2. Earlier(lists[h], j, u) => Earlier(lists2[h], j, u)
    OBVIOUS
  <2> QED BY <1>1, <2>1, <2>2, StillAvailable
<1> QED BY <1>1, <1>2 DEF InOrder

-----------------------------------------------------------------------------
(***************************************************************************)
(* What the calls of ModuleGraph that change inputs leave in order.        *)
(***************************************************************************)

(* What calls that change inputs leave: types, use lists, and the order of *)
(* the lists as they are.                                                  *)
InputsInOrder ==
  /\ GraphTypeOK' /\ UseListsExact' /\ subs' \in [Ins -> Seq(Modules)]
  /\ Ordered(list, subs') /\ InOrder(list, args', subs') /\ Used(list, subs') \subseteq UsedModules
  /\ \A i \in Ins : subs'[i] = subs[i] \/ subs'[i] = <<>>

LEMMA FewerSubs ==
  ASSUME GraphShape, NEW S \in SUBSET Ins, subs' = [i \in Ins |-> IF i \in S THEN <<>> ELSE subs[i]]
  PROVE  /\ subs' \in [Ins -> Seq(Modules)] /\ Ordered(list, subs')
         /\ \A j : EnteredBefore(list, subs', j) \subseteq EnteredBefore(list, subs, j)
         /\ Used(list, subs') \subseteq UsedModules
         /\ \A i \in Ins : subs'[i] = IF i \in S THEN <<>> ELSE subs[i]
<1>1. \A i \in Ins : subs[i] \in Seq(Modules)
  BY DEF GraphShape
<1>2. <<>> \in Seq(Modules) /\ ToSet(<<>>) = {}
  BY DEF ToSet
<1>3. \A i \in Ins : subs'[i] = IF i \in S THEN <<>> ELSE subs[i]
  OBVIOUS
<1>4. subs' \in [Ins -> Seq(Modules)]
  BY <1>1, <1>2
<1>5. Ordered(list, subs) /\ \A h \in Modules : ToSet(list[h]) \subseteq Ins
  BY ShapeOrdered
<1>6. \A i \in Ins : ToSet(subs'[i]) \subseteq ToSet(subs[i])
  BY <1>2, <1>3
<1>7. \A h \in Modules : \A x \in ToSet(list[h]) : ToSet(subs'[x]) \subseteq ToSet(subs[x])
  BY <1>5, <1>6
<1>8. /\ Ordered(list, subs')
      /\ \A j : EnteredBefore(list, subs', j) \subseteq EnteredBefore(list, subs, j)
  BY <1>5, <1>7, LessHung
<1> QED BY <1>3, <1>4, <1>8 DEF UsedModules, Used

LEMMA ClearOrder ==
  ASSUME ProgramInv, NEW S \in SUBSET Ins, ClearArguments(S)
  PROVE  /\ InputsInOrder
         /\ \A i \in Ins : args'[i] = IF i \in S THEN <<>> ELSE args[i]
         /\ \A i \in Ins : subs'[i] = IF i \in S THEN <<>> ELSE subs[i]
         /\ \A j \in Ins : outs'[j] = outs[j] \ S
<1>1. GraphShape /\ GraphTypeOK /\ UseListsExact /\ InputsEvaluated
  BY DEF ProgramInv, GraphInv
<1>2. /\ GraphTypeOK' /\ UseListsExact'
      /\ \A i \in Ins : args'[i] = IF i \in S THEN <<>> ELSE args[i]
  BY <1>1, ClearKeepsLists
<1>3. subs' = [i \in Ins |-> IF i \in S THEN <<>> ELSE subs[i]]
  BY DEF ClearArguments
<1>4. /\ subs' \in [Ins -> Seq(Modules)] /\ Ordered(list, subs')
      /\ \A j : EnteredBefore(list, subs', j) \subseteq EnteredBefore(list, subs, j)
      /\ Used(list, subs') \subseteq UsedModules
      /\ \A i \in Ins : subs'[i] = IF i \in S THEN <<>> ELSE subs[i]
  BY <1>1, <1>3, FewerSubs
<1>5. \A h \in Modules : ToSet(list[h]) \subseteq Ins
  BY <1>1, ShapeOrdered
<1>6. ASSUME NEW h \in Modules, NEW u \in ToSet(list[h]), NEW j \in ToSet(args'[u])
      PROVE  Available(list, subs', h, u, j)
  <2>1. ToSet(<<>>) = {}
    BY DEF ToSet
  <2>2. u \in Ins /\ args'[u] = args[u]
    BY <1>2, <1>5, <1>6, <2>1
  <2>3. Available(list, subs, h, u, j)
    BY <1>1, <1>6, <2>2 DEF InputsEvaluated, InOrder
  <2> QED BY <1>4, <2>3, StillAvailable
<1>7. \A j \in Ins : outs'[j] = outs[j] \ S
  <2> SUFFICES ASSUME NEW j \in Ins PROVE outs'[j] = outs[j] \ S
    OBVIOUS
  <2>1. outs'[j] = outs[j] \ {i \in S : j \in ArgsOf(i)}
    BY DEF ClearArguments, WithoutUses
  <2>2. \A i \in outs[j] : i \in Ins /\ j \in ArgsOf(i)
    BY <1>1 DEF GraphTypeOK, UseListsExact
  <2> QED BY <2>1, <2>2
<1> QED BY <1>2, <1>4, <1>6, <1>7 DEF InputsInOrder, InOrder

LEMMA ClearIsCall ==
  ASSUME GraphShape, GraphTypeOK, NEW S \in SUBSET Ins, ClearArguments(S), UNCHANGED op
  PROVE  CallClear
<1> DEFINE T == {i \in Ins : <<args'[i], subs'[i]>> # <<args[i], subs[i]>>}
<1>1. /\ args' = [i \in Ins |-> IF i \in S THEN <<>> ELSE args[i]]
      /\ subs' = [i \in Ins |-> IF i \in S THEN <<>> ELSE subs[i]]
      /\ outs' = [j \in Ins |-> outs[j] \ {i \in S : j \in ArgsOf(i)}]
  BY DEF ClearArguments, WithoutUses
<1>2. T \subseteq S
  BY <1>1
<1>3. \A i \in S : i \notin T => args[i] = <<>> /\ subs[i] = <<>>
  BY <1>1
<1>4. ToSet(<<>>) = {}
  BY DEF ToSet
<1> HIDE DEF T
<1>5. args' = [i \in Ins |-> IF i \in T THEN <<>> ELSE args[i]]
  BY <1>1, <1>2, <1>3
<1>6. subs' = [i \in Ins |-> IF i \in T THEN <<>> ELSE subs[i]]
  BY <1>1, <1>2, <1>3
<1>7. outs' = [j \in Ins |-> outs[j] \ {i \in T : j \in ArgsOf(i)}]
  <2>1. \A j \in Ins : {i \in S : j \in ArgsOf(i)} = {i \in T : j \in ArgsOf(i)}
    BY <1>2, <1>3, <1>4 DEF ArgsOf
  <2> QED BY <1>1, <2>1
<1>8. ClearArguments(T) /\ UNCHANGED op
  BY <1>5, <1>6, <1>7 DEF ClearArguments, WithoutUses
<1> QED BY <1>8 DEF CallClear, T

-----------------------------------------------------------------------------
(* replace_instruction(i, op, args) by inputs available there *)
LEMMA ReplaceOperationOrder ==
  ASSUME ProgramInv, NEW m \in Modules, NEW i \in ToSet(list[m]), NEW o, NEW a \in Seq(Ins),
         \A j \in ToSet(a) : Available(list, subs, m, i, j),
         ReplaceOperation(i, o, a)
  PROVE  /\ InputsInOrder /\ DOMAIN op' = Ins
         /\ \A k \in Ins : args'[k] = IF k = i THEN a ELSE args[k]
         /\ \A k \in Ins : subs'[k] = IF k = i THEN <<>> ELSE subs[k]
         /\ \A k \in Ins : op'[k] = IF k = i THEN o ELSE op[k]
         /\ \A j \in Ins : outs'[j] = (outs[j] \ {i}) \cup (IF j \in ToSet(a) THEN {i} ELSE {})
<1>1. GraphShape /\ GraphTypeOK /\ UseListsExact /\ InputsEvaluated
  BY DEF ProgramInv, GraphInv
<1>2. i \in Ins /\ \A h \in Modules : ToSet(list[h]) \subseteq Ins
  BY <1>1, ShapeOrdered
<1>3. /\ GraphTypeOK' /\ UseListsExact'
      /\ \A k \in Ins : args'[k] = IF k = i THEN a ELSE args[k]
  BY <1>1, <1>2, ReplaceOperationKeepsLists
<1>4. subs' = [k \in Ins |-> IF k \in {i} THEN <<>> ELSE subs[k]]
  BY <1>1 DEF ReplaceOperation, GraphShape
<1>5. /\ subs' \in [Ins -> Seq(Modules)] /\ Ordered(list, subs')
      /\ \A j : EnteredBefore(list, subs', j) \subseteq EnteredBefore(list, subs, j)
      /\ Used(list, subs') \subseteq UsedModules
      /\ \A k \in Ins : subs'[k] = IF k \in {i} THEN <<>> ELSE subs[k]
  BY <1>1, <1>2, <1>4, FewerSubs
<1>6. ASSUME NEW h \in Modules, NEW u \in ToSet(list[h]), NEW j \in ToSet(args'[u])
      PROVE  Available(list, subs', h, u, j)
  <2>1. Available(list, subs, h, u, j)
    <3>1. CASE u = i
      BY <1>1, <1>2, <1>3, <1>6, <3>1, SameHome DEF GraphShape
    <3>2. CASE u # i
      BY <1>1, <1>2, <1>3, <1>6, <3>2 DEF InputsEvaluated, InOrder
    <3> QED BY <3>1, <3>2
  <2> QED BY <1>5, <2>1, StillAvailable
<1>7. DOMAIN op' = Ins /\ \A k \in Ins : op'[k] = IF k = i THEN o ELSE op[k]
  BY <1>1 DEF ReplaceOperation, GraphShape
<1>8. \A j \in Ins : outs'[j] = (outs[j] \ {i}) \cup (IF j \in ToSet(a) THEN {i} ELSE {})
  <2> SUFFICES ASSUME NEW j \in Ins
               PROVE  outs'[j] = (outs[j] \ {i}) \cup (IF j \in ToSet(a) THEN {i} ELSE {})
    OBVIOUS
  <2>1. outs'[j] = (outs[j] \ {x \in {i} : j \in ArgsOf(x)}) \cup (IF j \in ToSet(a) THEN {i} ELSE {})
    BY DEF ReplaceOperation, WithoutUses
  <2>2. i \in outs[j] => j \in ArgsOf(i)
    BY <1>1, <1>2 DEF UseListsExact
  <2> QED BY <2>1, <2>2
<1> QED BY <1>3, <1>5, <1>6, <1>7, <1>8 DEF InputsInOrder, InOrder

(* What replace_argument in these users leaves. *)
Redirected(changed, i, rep) ==
  /\ \A u \in Ins : args'[u] = IF u \in changed THEN ReplaceAll(args[u], i, rep) ELSE args[u]
  /\ \A u \in changed : i \notin ToSet(args'[u]) /\ args'[u] # args[u]
  /\ \A u \in Ins : ToSet(args'[u]) \subseteq ToSet(args[u]) \cup {rep}
  /\ \A j \in Ins : outs'[j] = IF j = i THEN outs[i] \ changed
                               ELSE IF j = rep THEN outs[rep] \cup changed ELSE outs[j]

(* replace_argument in users that may use the replacement *)
LEMMA ReplaceArgumentOrder ==
  ASSUME ProgramInv, NEW i \in Ins, NEW rep \in Ins, i # rep, NEW changed \in SUBSET outs[i],
         ReplaceArgumentIn(changed, i, rep), UNCHANGED subs,
         \A h \in Modules : \A u \in ToSet(list[h]) \cap changed : Available(list, subs, h, u, rep)
  PROVE  InputsInOrder /\ Redirected(changed, i, rep)
<1>1. GraphShape /\ GraphTypeOK /\ UseListsExact /\ InputsEvaluated
  BY DEF ProgramInv, GraphInv
<1>2. /\ GraphTypeOK' /\ UseListsExact'
      /\ \A u \in Ins : IF u \in changed THEN args'[u] = ReplaceAll(args[u], i, rep)
                        ELSE args'[u] = args[u]
  BY <1>1, ReplaceArgumentKeepsLists
<1>3. Ordered(list, subs') /\ Used(list, subs') = UsedModules /\ subs' \in [Ins -> Seq(Modules)]
  BY <1>1, ShapeOrdered DEF UsedModules, GraphShape
<1>4. changed \subseteq Ins /\ \A u \in changed : i \in ToSet(args[u]) /\ args[u] \in Seq(Ins)
  BY <1>1 DEF GraphTypeOK, UseListsExact, ArgsOf
<1>5. ASSUME NEW u \in changed
      PROVE  /\ i \notin ToSet(args'[u]) /\ args'[u] # args[u]
             /\ \A j : j \in ToSet(args'[u]) => j = rep \/ j \in ToSet(args[u])
  <2>1. args'[u] = ReplaceAll(args[u], i, rep)
    BY <1>2, <1>4
  <2>2. /\ i \notin ToSet(args'[u])
        /\ \A j : j # i /\ j # rep => (j \in ToSet(args'[u]) <=> j \in ToSet(args[u]))
    BY <1>4, <2>1, ReplacedInputs
  <2> QED BY <1>4, <2>2
<1>6. \A u \in Ins : ToSet(args'[u]) \subseteq ToSet(args[u]) \cup {rep}
  BY <1>2, <1>5
<1>7. \A h \in Modules : ToSet(list[h]) \subseteq Ins
  BY <1>1, ShapeOrdered
<1>8. ASSUME NEW h \in Modules, NEW u \in ToSet(list[h]), NEW j \in ToSet(args'[u])
      PROVE  Available(list, subs', h, u, j)
  <2>1. CASE u \in changed /\ j = rep
    BY <2>1
  <2>2. CASE j \in ToSet(args[u])
    BY <1>1, <2>2 DEF InputsEvaluated, InOrder
  <2>3. CASE u \notin changed
    <3>1. u \in Ins
      BY <1>7
    <3> QED BY <1>1, <1>2, <2>3, <3>1 DEF InputsEvaluated, InOrder
  <2> QED BY <1>5, <2>1, <2>2, <2>3
<1>9. \A j \in Ins : outs'[j] = IF j = i THEN outs[i] \ changed
                                ELSE IF j = rep THEN outs[rep] \cup changed ELSE outs[j]
  BY DEF ReplaceArgumentIn
<1>10. \A i1 \in Ins : subs'[i1] = subs[i1] \/ subs'[i1] = <<>>
  OBVIOUS
<1> QED BY <1>2, <1>3, <1>5, <1>6, <1>8, <1>9, <1>10 DEF InputsInOrder, InOrder, Redirected

LEMMA LiveIsNext ==
  ASSUME GraphShape'
  PROVE  \A i : i \in Live' <=> \E m \in Modules : i \in ToSet(list'[m])
<1>1. \A m \in Modules : list'[m] = <<>> => ToSet(list'[m]) = {}
  BY DEF ToSet
<1>2. \A m \in Modules : ToSet(list'[m]) \subseteq Ins
  BY InputsAreInstructions DEF GraphShape
<1>3. \A i : i \in Live' <=> i \in Ins /\ \E m \in modules' : i \in ToSet(list'[m])
  BY DEF Live, Home, HasInstruction
<1> QED BY <1>1, <1>2, <1>3 DEF GraphShape

(* replace_instruction(i, rep) by what is evaluated before i *)
LEMMA ReplaceInstructionOrder ==
  ASSUME ProgramInv, NEW m \in UsedModules, NEW i, NEW rep \in Live,
         ReplaceInstruction(m, i, rep), Available(list, subs, m, i, rep)
  PROVE  /\ InputsInOrder /\ DOMAIN op' = Ins /\ HasInstruction(m, i) /\ i # rep
         /\ CallReplaceOperation \/ CallReplaceArgument
         /\ \A n \in UsedModules : rep # LastOf(n) /\ outs'[LastOf(n)] = {}
         /\ \A j \in Ins : IF j = rep THEN outs'[j] \subseteq outs[j] \cup outs[i] \cup {i}
                           ELSE outs'[j] \subseteq outs[j]
         /\ \A j \in Ins \ {i} : subs'[j] = subs[j]
         /\ IF i = LastOf(m)
              THEN /\ \A u \in Ins : args'[u] = IF u = i THEN <<rep>> ELSE args[u]
                   /\ \A u \in Ins : op'[u] = IF u = i THEN <<"identity", End>> ELSE op[u]
                   /\ \A j \in Ins : outs'[j] = (outs[j] \ {i}) \cup (IF j = rep THEN {i} ELSE {})
              ELSE /\ outs'[i] = {} /\ outs'[rep] = outs[rep] \cup outs[i]
                   /\ \A j \in Ins : j # i /\ j # rep => outs'[j] = outs[j]
                   /\ UNCHANGED <<op, subs>>
                   /\ \A u \in Ins : args'[u] = IF u \in outs[i] THEN ReplaceAll(args[u], i, rep)
                                                ELSE args[u]
<1>1. GraphShape /\ GraphTypeOK /\ UseListsExact /\ InputsEvaluated /\ Ends
  BY DEF ProgramInv, GraphInv
<1>2. HasInstruction(m, i) /\ i # rep
  BY DEF ReplaceInstruction
<1>3. /\ m \in Modules /\ i \in ToSet(list[m]) /\ i \in Ins /\ rep \in Ins /\ Ordered(list, subs)
      /\ UsedModules \subseteq Modules
  BY <1>1, <1>2, ShapeOrdered DEF HasInstruction, Live
<1>4. \A n \in UsedModules : rep # LastOf(n)
  <2> SUFFICES ASSUME NEW n \in UsedModules, rep = LastOf(n) PROVE FALSE
    OBVIOUS
  <2>1. list[n] # <<>>
    BY <1>1 DEF Ends
  <2>2. ~ Available(list, subs, m, i, Last(list[n]))
    BY <1>3, <2>1, LastBeforeNone DEF UsedModules
  <2> QED BY <2>2 DEF LastOf
<1>5. PICK n \in Modules : rep \in ToSet(list[n])
  BY <1>1, LiveIs
<1>6. rep \notin outs[i]
  <2> SUFFICES ASSUME rep \in outs[i] PROVE FALSE
    OBVIOUS
  <2>1. i \in ToSet(args[rep])
    BY <1>1, <1>3 DEF UseListsExact, ArgsOf
  <2>2. Available(list, subs, n, rep, i)
    BY <1>1, <1>5, <2>1 DEF InputsEvaluated, InOrder
  <2> QED BY <1>3, <1>5, <2>2, NotBothBefore DEF UsedModules
<1>l. \A k \in UsedModules : LastOf(k) \in Ins /\ outs[LastOf(k)] = {}
  <2> SUFFICES ASSUME NEW k \in UsedModules PROVE LastOf(k) \in Ins /\ outs[LastOf(k)] = {}
    OBVIOUS
  <2>1. list[k] # <<>> /\ list[k] \in Seq(Ins) /\ IsInjective(list[k]) /\ outs[LastOf(k)] = {}
    BY <1>1, ShapeOrdered DEF Ends
  <2> QED BY <2>1, EndsOf DEF LastOf
<1>7. CASE i = LastOf(m)
  <2>1. ReplaceOperation(i, <<"identity", End>>, <<rep>>)
    BY <1>7 DEF ReplaceInstruction
  <2> DEFINE a == <<rep>>
             o == <<"identity", End>>
  <2>2. a \in Seq(Ins) /\ ToSet(a) = {rep} /\ a \in Seq(Live \ {i})
    BY <1>2, <1>3 DEF ToSet
  <2>3. ReplaceOperation(i, o, a) /\ a = <<rep>> /\ o = <<"identity", End>>
    BY <2>1
  <2> HIDE DEF a, o
  <2>4. /\ InputsInOrder /\ DOMAIN op' = Ins
        /\ \A k \in Ins : args'[k] = IF k = i THEN a ELSE args[k]
        /\ \A k \in Ins : subs'[k] = IF k = i THEN <<>> ELSE subs[k]
        /\ \A k \in Ins : op'[k] = IF k = i THEN o ELSE op[k]
        /\ \A j \in Ins : outs'[j] = (outs[j] \ {i}) \cup (IF j \in ToSet(a) THEN {i} ELSE {})
    <3>1. \A j \in ToSet(a) : Available(list, subs, m, i, j)
      BY <2>2
    <3>2. m \in Modules
      BY <1>3
    <3>3. i \in ToSet(list[m])
      BY <1>3
    <3>4. a \in Seq(Ins)
      BY <2>2
    <3>5. ReplaceOperation(i, o, a)
      BY <2>3
    <3> QED BY ONLY ProgramInv, <3>1, <3>2, <3>3, <3>4, <3>5, ReplaceOperationOrder
  <2>5. CallReplaceOperation
    <3>1. op'[i] = o /\ args'[i] = a
      BY <1>3, <2>4
    <3>2. i \in Live
      BY <1>1, <1>3, LiveIs
    <3> QED BY <2>2, <2>3, <3>1, <3>2 DEF CallReplaceOperation
  <2>6. \A j \in Ins : outs'[j] = (outs[j] \ {i}) \cup (IF j = rep THEN {i} ELSE {})
    BY <2>2, <2>4
  <2>7. \A k \in UsedModules : outs'[LastOf(k)] = {}
    BY <1>4, <1>l, <2>6
  <2>8. \A j \in Ins : IF j = rep THEN outs'[j] \subseteq outs[j] \cup outs[i] \cup {i}
                       ELSE outs'[j] \subseteq outs[j]
    BY <2>6
  <2> QED BY <1>2, <1>4, <1>7, <2>3, <2>4, <2>5, <2>6, <2>7, <2>8
<1>8. CASE i # LastOf(m)
  <2>1. ReplaceArgumentIn(outs[i], i, rep) /\ UNCHANGED <<op, subs>>
    <3>1. outs[i] \ {rep} = outs[i]
      BY <1>6
    <3> QED BY <1>8, <3>1 DEF ReplaceInstruction, ReplaceArgument
  <2>2. ASSUME NEW h \in Modules, NEW u \in ToSet(list[h]) \cap outs[i]
        PROVE  Available(list, subs, h, u, rep)
    <3>1. u \in Ins /\ i \in ToSet(args[u])
      BY <1>1, <1>3 DEF GraphTypeOK, UseListsExact, ArgsOf
    <3>2. Available(list, subs, h, u, i)
      BY <1>1, <3>1 DEF InputsEvaluated, InOrder
    <3> QED BY <1>3, <3>2, AvailableTransitive
  <2>3. /\ InputsInOrder
        /\ \A u \in Ins : args'[u] = IF u \in outs[i] THEN ReplaceAll(args[u], i, rep) ELSE args[u]
        /\ \A u \in outs[i] : i \notin ToSet(args'[u]) /\ args'[u] # args[u]
        /\ \A j \in Ins : outs'[j] = IF j = i THEN outs[i] \ outs[i]
                                     ELSE IF j = rep THEN outs[rep] \cup outs[i] ELSE outs[j]
    <3>1. PICK changed : changed = outs[i] /\ ReplaceArgumentIn(changed, i, rep)
      BY <2>1
    <3>2. \A h \in Modules : \A u \in ToSet(list[h]) \cap changed : Available(list, subs, h, u, rep)
      BY <2>2, <3>1
    <3>3. InputsInOrder /\ Redirected(changed, i, rep)
      <4>1. i \in Ins /\ rep \in Ins /\ i # rep
        BY <1>2, <1>3
      <4>2. changed \in SUBSET outs[i] /\ ReplaceArgumentIn(changed, i, rep)
        BY <3>1
      <4>3. UNCHANGED subs
        BY <2>1
      <4> QED BY ONLY ProgramInv, <4>1, <4>2, <4>3, <3>2, ReplaceArgumentOrder
    <3> QED BY <3>1, <3>3 DEF Redirected
  <2>4. CallReplaceArgument
    <3>1. {u \in outs[i] : args'[u] # args[u]} = outs[i]
      BY <2>3
    <3>2. i \in Live
      BY <1>1, <1>3, LiveIs
    <3> QED BY <1>2, <2>1, <3>1, <3>2 DEF CallReplaceArgument
  <2>5. /\ outs'[i] = {} /\ outs'[rep] = outs[rep] \cup outs[i]
        /\ \A j \in Ins : j # i /\ j # rep => outs'[j] = outs[j]
    BY <1>2, <1>3, <2>3
  <2>6. \A k \in UsedModules : outs'[LastOf(k)] = {}
    BY <1>4, <1>l, <2>5
  <2>7. \A j \in Ins : IF j = rep THEN outs'[j] \subseteq outs[j] \cup outs[i] \cup {i}
                       ELSE outs'[j] \subseteq outs[j]
    BY <2>5
  <2>8. DOMAIN op' = Ins
    BY <1>1, <2>1 DEF GraphShape
  <2> QED BY <1>2, <1>4, <1>8, <2>1, <2>3, <2>4, <2>5, <2>6, <2>7, <2>8
<1> QED BY <1>7, <1>8

-----------------------------------------------------------------------------
(* The last instruction of a list that gained none behind it *)
LEMMA SameLast ==
  ASSUME NEW S, NEW l \in Seq(S), IsInjective(l), l # <<>>,
         NEW k \in Seq(S), IsInjective(k), Last(l) \in ToSet(k), \A x : ~ Earlier(k, Last(l), x)
  PROVE  Last(k) = Last(l) /\ k # <<>>
BY LastIs

(* add_literal, add_parameter *)
LEMMA AddFirstOrder ==
  ASSUME ProgramInv, NEW m \in UsedModules, NEW i, NEW o, AddFirst(m, i, o), UNCHANGED modules
  PROVE  /\ ProgramInv' /\ Call /\ Used(list', subs') \subseteq UsedModules
         /\ i \in Ins \ Live /\ FirstOf(m)' = i /\ LastOf(m)' = LastOf(m)
         /\ \A h \in Modules \ {m} : list'[h] = list[h]
         /\ ToSet(list'[m]) = ToSet(list[m]) \cup {i}
         /\ \A x, y : Earlier(list'[m], y, x) <=> Earlier(list[m], y, x) \/ (y = i /\ x \in ToSet(list[m]))
         /\ \A u \in Ins : /\ args'[u] = IF u = i THEN <<>> ELSE args[u]
                           /\ subs'[u] = IF u = i THEN <<>> ELSE subs[u]
                           /\ op'[u] = IF u = i THEN o ELSE op[u]
         /\ outs' = outs
<1>1. GraphInv /\ GraphShape /\ GraphTypeOK /\ UseListsExact /\ InputsEvaluated /\ Ends /\ FreeUseNothing
  BY DEF ProgramInv, GraphInv
<1>2. /\ i \in Ins \ Live /\ list' = [list EXCEPT ![m] = <<i>> \o list[m]]
      /\ op' = [op EXCEPT ![i] = o] /\ args' = [args EXCEPT ![i] = <<>>]
      /\ subs' = [subs EXCEPT ![i] = <<>>] /\ outs' = outs
  BY DEF AddFirst
<1>3. /\ m \in Modules /\ UsedModules \subseteq Modules /\ Ordered(list, subs) /\ list[m] # <<>>
      /\ list[m] \in Seq(Ins) /\ IsInjective(list[m])
      /\ \A h \in Modules : ToSet(list[h]) \subseteq Ins
  BY <1>1, ShapeOrdered DEF Ends
<1>4. \A h \in Modules : i \notin ToSet(list[h])
  BY <1>1, <1>2, LiveIs
<1> DEFINE l == <<i>> \o list[m]
<1>5. /\ l \in Seq(Ins) /\ IsInjective(l) /\ ToSet(l) = ToSet(list[m]) \cup {i} /\ Head(l) = i
      /\ \A x, y : Earlier(l, y, x) <=> Earlier(list[m], y, x) \/ (y = i /\ x \in ToSet(list[m]))
  BY <1>2, <1>3, <1>4, Prepended
<1>6. list' = [list EXCEPT ![m] = l]
  BY <1>2
<1> HIDE DEF l
<1>7. /\ list' \in [Modules -> Seq(Ins)] /\ OneHome(list') /\ list'[m] = l
      /\ \A h \in Modules \ {m} : list'[h] = list[h]
  BY <1>1, <1>2, <1>3, <1>5, <1>6, OneList
<1>8. \A u \in Ins : /\ args'[u] = IF u = i THEN <<>> ELSE args[u]
                     /\ subs'[u] = IF u = i THEN <<>> ELSE subs[u]
                     /\ op'[u] = IF u = i THEN o ELSE op[u]
  BY <1>1, <1>2 DEF GraphTypeOK, GraphShape
<1>9. /\ ToSet(list'[m]) = ToSet(list[m]) \cup {i} /\ FirstOf(m)' = i
      /\ \A x, y : Earlier(list'[m], y, x) <=> Earlier(list[m], y, x) \/ (y = i /\ x \in ToSet(list[m]))
  BY <1>5, <1>7 DEF FirstOf
<1>10. LastOf(m)' = LastOf(m) /\ list'[m] # <<>>
  <2>1. Last(list[m]) \in ToSet(list[m]) /\ \A x : ~ Earlier(list[m], Last(list[m]), x)
    BY <1>3, EndsOf
  <2>2. Last(list[m]) \in ToSet(l) /\ \A x : ~ Earlier(l, Last(list[m]), x)
    BY <1>3, <1>4, <1>5, <2>1
  <2> QED BY <1>3, <1>5, <1>7, <2>2, SameLast DEF LastOf
<1>11. GraphShape'
  <2>1. modules' \subseteq Modules /\ \A h \in Modules \ modules' : list'[h] = <<>>
    BY <1>1, <1>3, <1>7 DEF GraphShape
  <2>2. subs' \in [Ins -> Seq(Modules)] /\ DOMAIN op' = Ins
    BY <1>1, <1>2 DEF GraphShape
  <2> QED BY <1>7, <2>1, <2>2 DEF GraphShape
<1>12. Live \subseteq Live' /\ i \in Live'
  <2>1. \A x : x \in Live' <=> \E h \in Modules : x \in ToSet(list'[h])
    BY <1>11, LiveIsNext
  <2> QED BY <1>1, <1>3, <1>7, <1>9, <2>1, LiveIs
<1>13. Call
  <2>1. args[i] = <<>>
    BY <1>1, <1>2 DEF FreeUseNothing
  <2>2. args'[i] = <<>> /\ ToSet(<<>>) = {} /\ <<>> \in Seq(Live)
    BY <1>2, <1>8 DEF ToSet
  <2>3. args' = [args EXCEPT ![i] = args'[i]]
    BY <1>2, <2>2
  <2>4. outs' = [j \in Ins |-> outs[j] \cup (IF j \in ToSet(args'[i]) THEN {i} ELSE {})]
    <3>1. outs = [j \in Ins |-> outs[j]]
      BY <1>1 DEF GraphTypeOK
    <3>2. \A j \in Ins : outs[j] \cup (IF j \in ToSet(args'[i]) THEN {i} ELSE {}) = outs[j]
      BY <2>2
    <3> QED BY <1>2, <3>1, <3>2
  <2>5. CallInsert
    BY <1>2, <1>12, <2>2, <2>3, <2>4 DEF CallInsert, InsertUses
  <2> QED BY <1>12, <2>5 DEF Call, FreedUnused
<1>14. ASSUME NEW h \in Modules, NEW x, NEW j, Earlier(list[h], j, x) PROVE Earlier(list'[h], j, x)
  BY <1>7, <1>9, <1>14
<1>15. ASSUME NEW j PROVE EnteredBefore(list', subs', j) \subseteq EnteredBefore(list, subs, j)
  <2>1. EnteredBefore(list, subs, j) \subseteq Modules /\ Hung(list, subs)
    BY <1>3, EnteredReached DEF Ordered
  <2>2. ToSet(<<>>) = {}
    BY DEF ToSet
  <2>3. ASSUME NEW h \in EnteredBefore(list, subs, j), NEW x \in ToSet(list'[h]),
               ~ Earlier(list'[h], j, x)
        PROVE  \/ ToSet(subs'[x]) \subseteq EnteredBefore(list, subs, j)
               \/ /\ x \in ToSet(list[h]) /\ ToSet(subs'[x]) \subseteq ToSet(subs[x])
                  /\ ~ Earlier(list[h], j, x)
    <3>1. CASE x = i
      BY <1>2, <1>8, <2>2, <3>1
    <3>2. CASE x # i
      <4>1. x \in ToSet(list[h])
        BY <1>7, <1>9, <2>1, <3>2
      <4>2. x \in Ins
        BY <1>3, <2>1, <4>1
      <4> QED BY <1>8, <1>14, <2>1, <2>3, <3>2, <4>1, <4>2
    <3> QED BY <3>1, <3>2
  <2> QED BY <2>1, <2>3, EnteredShrinks
<1>16. InputsEvaluated'
  <2> SUFFICES ASSUME NEW h \in Modules, NEW u \in ToSet(list'[h]), NEW j \in ToSet(args'[u])
               PROVE  Available(list', subs', h, u, j)
    BY DEF InputsEvaluated, InOrder
  <2>1. u # i
    <3>1. ToSet(<<>>) = {}
      BY DEF ToSet
    <3> QED BY <1>2, <1>8, <3>1
  <2>2. u \in ToSet(list[h])
    BY <1>7, <1>9, <2>1
  <2>3. u \in Ins
    BY <1>3, <2>2
  <2>4. Available(list, subs, h, u, j)
    BY <1>1, <1>8, <2>1, <2>2, <2>3 DEF InputsEvaluated, InOrder
  <2> QED BY <1>14, <1>15, <2>4, StillAvailable
<1>17. Used(list', subs') \subseteq UsedModules
  BY <1>15 DEF Used, UsedModules
<1>18. Ends'
  <2> SUFFICES ASSUME NEW n \in UsedModules' PROVE list'[n] # <<>> /\ outs'[Last(list'[n])] = {}
    BY DEF Ends, LastOf
  <2>1. n \in UsedModules /\ n \in Modules
    BY <1>3, <1>17 DEF UsedModules
  <2>2. list[n] # <<>> /\ outs[Last(list[n])] = {}
    BY <1>1, <2>1 DEF Ends, LastOf
  <2>3. CASE n = m
    BY <1>2, <1>10, <2>2, <2>3 DEF LastOf
  <2>4. CASE n # m
    BY <1>2, <1>7, <2>1, <2>2, <2>4
  <2> QED BY <2>3, <2>4
<1>19. GraphInv'
  BY <1>1, <1>13, CallKeepsInv
<1>20. ProgramInv'
  BY <1>11, <1>16, <1>18, <1>19 DEF ProgramInv
<1> QED BY <1>2, <1>7, <1>8, <1>9, <1>10, <1>13, <1>17, <1>20

-----------------------------------------------------------------------------
(***************************************************************************)
(* Every call of a pass leaves a valid program.                            *)
(***************************************************************************)

(* What every call of a pass on m leaves: a valid program, and in it what  *)
(* hung off instructions, with the modules in s off new ones.              *)
CallKept(m, s) ==
  /\ ProgramInv' /\ Call /\ Used(list', subs') \subseteq UsedModules
  /\ \A h \in Modules \ {m} : \A x \in ToSet(list[h]) : x \in ToSet(list'[h]) /\ subs'[x] = subs[x]
  /\ \A h \in Modules : \A x \in ToSet(list'[h]) :
       subs'[x] \in {<<>>, s} \/ (x \in ToSet(list[h]) /\ subs'[x] = subs[x])

(* The program a call leaves is valid if its lists are, and its inputs. *)
LEMMA StaysValid ==
  ASSUME ProgramInv, Call, GraphShape', InOrder(list', args', subs'),
         Used(list', subs') \subseteq UsedModules,
         \A n \in UsedModules : list'[n] # <<>> /\ outs'[Last(list'[n])] = {}
  PROVE  ProgramInv'
<1>1. GraphInv'
  BY CallKeepsInv DEF ProgramInv
<1>2. InputsEvaluated' /\ Ends'
  BY DEF InputsEvaluated, Ends, UsedModules, LastOf
<1> QED BY <1>1, <1>2 DEF ProgramInv

(* Calls that change inputs alone *)
LEMMA InputsKept ==
  ASSUME ProgramInv, InputsInOrder, UNCHANGED <<list, modules>>, DOMAIN op' = Ins,
         CallClear \/ CallReplaceArgument \/ CallReplaceOperation,
         \A n \in UsedModules : outs'[LastOf(n)] = {}
  PROVE  /\ ProgramInv' /\ Call /\ Used(list', subs') \subseteq UsedModules
<1>1. GraphShape /\ Ends
  BY DEF ProgramInv
<1>2. GraphShape'
  BY <1>1 DEF GraphShape, InputsInOrder
<1>3. Live' = Live
  BY DEF Live, Home, HasInstruction
<1>4. Call
  BY <1>3 DEF Call, FreedUnused
<1>5. InOrder(list', args', subs') /\ Used(list', subs') \subseteq UsedModules
  BY DEF InputsInOrder
<1>6. \A n \in UsedModules : list'[n] # <<>> /\ outs'[Last(list'[n])] = {}
  BY <1>1 DEF Ends, LastOf
<1> QED BY <1>2, <1>4, <1>5, <1>6, StaysValid

(* Dead instructions lose their inputs. *)
LEMMA ClearKept ==
  ASSUME ProgramInv, NEW m \in Modules, NEW S \in SUBSET ToSet(list[m]), ClearArguments(S),
         UNCHANGED <<op, list, modules>>
  PROVE  CallKept(m, <<>>)
<1>1. GraphShape /\ GraphTypeOK /\ Ends
  BY DEF ProgramInv, GraphInv
<1>2. S \subseteq Ins /\ UsedModules \subseteq Modules
  BY <1>1, ShapeOrdered
<1>3. /\ InputsInOrder
      /\ \A i \in Ins : subs'[i] = IF i \in S THEN <<>> ELSE subs[i]
      /\ \A j \in Ins : outs'[j] = outs[j] \ S
  BY <1>2, ClearOrder
<1>4. CallClear /\ DOMAIN op' = Ins
  BY <1>1, <1>2, ClearIsCall DEF GraphShape
<1>5. \A n \in UsedModules : outs'[LastOf(n)] = {}
  <2> SUFFICES ASSUME NEW n \in UsedModules PROVE outs'[LastOf(n)] = {}
    OBVIOUS
  <2>1. list[n] # <<>> /\ list[n] \in Seq(Ins) /\ IsInjective(list[n]) /\ outs[LastOf(n)] = {}
    BY <1>1, <1>2, ShapeOrdered DEF Ends
  <2>2. LastOf(n) \in Ins
    BY <2>1, EndsOf DEF LastOf
  <2> QED BY <1>3, <2>1, <2>2
<1>6. ProgramInv' /\ Call /\ Used(list', subs') \subseteq UsedModules
  BY <1>3, <1>4, <1>5, InputsKept
<1>7. \A h \in Modules : ToSet(list[h]) \subseteq Ins
  BY <1>1, ShapeOrdered
<1>8. \A h \in Modules \ {m} : \A x \in ToSet(list[h]) : x \notin S
  BY <1>1, SameHome DEF GraphShape
<1> QED BY <1>3, <1>6, <1>7, <1>8 DEF CallKept

(* Calls that leave an instruction without users, which moves to the end *)
LEMMA MovedKept ==
  ASSUME ProgramInv, InputsInOrder, DOMAIN op' = Ins, UNCHANGED modules,
         CallClear \/ CallReplaceArgument \/ CallReplaceOperation,
         NEW m \in Modules, NEW i \in ToSet(list[m]), MoveToEnd(m, i), outs'[i] = {},
         \A n \in UsedModules : outs'[LastOf(n)] = {}
  PROVE  /\ ProgramInv' /\ Call /\ Used(list', subs') \subseteq UsedModules
         /\ \A h \in Modules : ToSet(list'[h]) = ToSet(list[h])
<1>1. GraphShape /\ Ends
  BY DEF ProgramInv
<1>2. i \in Ins /\ UsedModules \subseteq Modules /\ \A h \in Modules : ToSet(list[h]) \subseteq Ins
  BY <1>1, ShapeOrdered
<1>5. /\ list' \in [Modules -> Seq(Ins)] /\ OneHome(list')
      /\ \A h \in Modules \ {m} : list'[h] = list[h]
      /\ ToSet(list'[m]) = ToSet(list[m]) /\ list'[m] # <<>> /\ Last(list'[m]) = i
  BY <1>1, MoveToEndIs
<1>6. \A h \in Modules : ToSet(list'[h]) = ToSet(list[h])
  BY <1>5
<1>7. GraphShape'
  <2>1. list[m] # <<>> /\ m \in modules
    <3>1. ToSet(<<>>) = {}
      BY DEF ToSet
    <3> QED BY <1>1, <3>1 DEF GraphShape
  <2> QED BY <1>1, <1>5, <2>1 DEF GraphShape, InputsInOrder
<1>8. Live' = Live
  <2>1. \A x : x \in Live' <=> \E h \in Modules : x \in ToSet(list'[h])
    BY <1>7, LiveIsNext
  <2> QED BY <1>1, <1>6, <2>1, LiveIs
<1>9. Call
  BY <1>8 DEF Call, FreedUnused
<1>10. InOrder(list', args', subs') /\ Used(list', subs') \subseteq UsedModules
  <2>1. PICK inputs, mods : inputs = args' /\ mods = subs'
    OBVIOUS
  <2>2. ASSUME NEW h \in Modules, NEW u \in ToSet(list[h]) PROVE i \notin ToSet(inputs[u])
    <3>1. u \in Ins /\ u \notin outs'[i]
      BY <1>2
    <3> QED BY <1>2, <2>1, <3>1 DEF InputsInOrder, UseListsExact, ArgsOf
  <2>3. Ordered(list, mods) /\ InOrder(list, inputs, mods) /\ Used(list, mods) \subseteq UsedModules
    BY <2>1 DEF InputsInOrder
  <2>4. InOrder(list', inputs, mods) /\ Used(list', mods) \subseteq Used(list, mods)
    BY <1>1, <2>2, <2>3, MoveKeepsOrder
  <2> QED BY <2>1, <2>3, <2>4
<1>11. \A n \in UsedModules : list'[n] # <<>> /\ outs'[Last(list'[n])] = {}
  BY <1>1, <1>2, <1>5 DEF Ends, LastOf
<1>12. ProgramInv'
  BY <1>7, <1>9, <1>10, <1>11, StaysValid
<1> QED BY <1>6, <1>9, <1>10, <1>12

(* Dead instructions move behind the end, when nothing uses them. *)
LEMMA ClearMoveKept ==
  ASSUME ProgramInv, NEW m \in Modules, NEW i \in ToSet(list[m]), outs[i] = {},
         ClearArguments({i}), MoveToEnd(m, i), UNCHANGED <<op, modules>>
  PROVE  CallKept(m, <<>>)
<1>1. GraphShape /\ GraphTypeOK /\ Ends
  BY DEF ProgramInv, GraphInv
<1>2. i \in Ins /\ UsedModules \subseteq Modules /\ \A h \in Modules : ToSet(list[h]) \subseteq Ins
  BY <1>1, ShapeOrdered
<1>3. /\ InputsInOrder
      /\ \A k \in Ins : subs'[k] = IF k \in {i} THEN <<>> ELSE subs[k]
      /\ \A j \in Ins : outs'[j] = outs[j] \ {i}
  BY <1>2, ClearOrder
<1>4. CallClear /\ DOMAIN op' = Ins
  BY <1>1, <1>2, ClearIsCall DEF GraphShape
<1>5. \A n \in UsedModules : outs'[LastOf(n)] = {}
  <2> SUFFICES ASSUME NEW n \in UsedModules PROVE outs'[LastOf(n)] = {}
    OBVIOUS
  <2>1. list[n] # <<>> /\ list[n] \in Seq(Ins) /\ IsInjective(list[n]) /\ outs[LastOf(n)] = {}
    BY <1>1, <1>2, ShapeOrdered DEF Ends
  <2>2. LastOf(n) \in Ins
    BY <2>1, EndsOf DEF LastOf
  <2> QED BY <1>3, <2>1, <2>2
<1>6. outs'[i] = {}
  BY <1>2, <1>3
<1>7. /\ ProgramInv' /\ Call /\ Used(list', subs') \subseteq UsedModules
      /\ \A h \in Modules : ToSet(list'[h]) = ToSet(list[h])
  BY <1>3, <1>4, <1>5, <1>6, MovedKept
<1>13. ASSUME NEW h \in Modules \ {m}, NEW x \in ToSet(list[h]) PROVE x \notin {i}
  <2>1. OneHome(list)
    BY <1>1 DEF GraphShape
  <2> QED BY <2>1, SameHome
<1>14. \A h \in Modules \ {m} : \A x \in ToSet(list[h]) : x \in ToSet(list'[h]) /\ subs'[x] = subs[x]
  BY <1>2, <1>3, <1>7, <1>13
<1>15. \A h \in Modules : \A x \in ToSet(list'[h]) :
         subs'[x] \in {<<>>} \/ (x \in ToSet(list[h]) /\ subs'[x] = subs[x])
  BY <1>2, <1>3, <1>7
<1> QED BY <1>7, <1>14, <1>15 DEF CallKept

-----------------------------------------------------------------------------
(* replace_instruction by what is available *)
LEMMA ReplaceSubsKept ==
  ASSUME ProgramInv, InputsInOrder, NEW m \in Modules, NEW i \in ToSet(list[m]),
         \A j \in Ins \ {i} : subs'[j] = subs[j],
         \A h \in Modules : ToSet(list'[h]) = ToSet(list[h])
  PROVE  /\ \A h \in Modules \ {m} : \A x \in ToSet(list[h]) : x \in ToSet(list'[h]) /\ subs'[x] = subs[x]
         /\ \A h \in Modules : \A x \in ToSet(list'[h]) :
              subs'[x] \in {<<>>} \/ (x \in ToSet(list[h]) /\ subs'[x] = subs[x])
<1>1. OneHome(list) /\ \A h \in Modules : ToSet(list[h]) \subseteq Ins
  BY ShapeOrdered DEF ProgramInv, GraphShape
<1>2. ASSUME NEW h \in Modules \ {m}, NEW x \in ToSet(list[h]) PROVE x # i
  BY <1>1, SameHome
<1>3. \A h \in Modules \ {m} : \A x \in ToSet(list[h]) : x \in ToSet(list'[h]) /\ subs'[x] = subs[x]
  BY <1>1, <1>2
<1>4. \A h \in Modules : \A x \in ToSet(list'[h]) :
         subs'[x] \in {<<>>} \/ (x \in ToSet(list[h]) /\ subs'[x] = subs[x])
  BY <1>1 DEF InputsInOrder
<1> QED BY <1>3, <1>4

LEMMA ReplaceKept ==
  ASSUME ProgramInv, NEW m \in UsedModules, NEW i, NEW rep \in Live,
         ReplaceInstruction(m, i, rep), Available(list, subs, m, i, rep), UNCHANGED <<list, modules>>
  PROVE  CallKept(m, <<>>)
<1>1. /\ InputsInOrder /\ DOMAIN op' = Ins /\ HasInstruction(m, i)
      /\ CallReplaceOperation \/ CallReplaceArgument
      /\ \A n \in UsedModules : outs'[LastOf(n)] = {}
      /\ \A j \in Ins \ {i} : subs'[j] = subs[j]
  BY ReplaceInstructionOrder
<1>2. ProgramInv' /\ Call /\ Used(list', subs') \subseteq UsedModules
  BY <1>1, InputsKept
<1>3. m \in Modules /\ i \in ToSet(list[m])
  BY <1>1, ShapeOrdered DEF ProgramInv, HasInstruction
<1>4. \A h \in Modules : ToSet(list'[h]) = ToSet(list[h])
  OBVIOUS
<1> QED BY <1>1, <1>2, <1>3, <1>4, ReplaceSubsKept DEF CallKept

(* eliminate_identity moves what it replaced behind the end. *)
LEMMA ReplaceMoveKept ==
  ASSUME ProgramInv, NEW m \in UsedModules, NEW i, NEW rep \in Live, i # LastOf(m),
         ReplaceInstruction(m, i, rep), Available(list, subs, m, i, rep), MoveToEnd(m, i),
         UNCHANGED modules
  PROVE  CallKept(m, <<>>)
<1>1. /\ InputsInOrder /\ DOMAIN op' = Ins /\ HasInstruction(m, i)
      /\ CallReplaceOperation \/ CallReplaceArgument
      /\ \A n \in UsedModules : outs'[LastOf(n)] = {}
      /\ \A j \in Ins \ {i} : subs'[j] = subs[j]
      /\ outs'[i] = {}
  BY ReplaceInstructionOrder
<1>3. m \in Modules /\ i \in ToSet(list[m])
  BY <1>1, ShapeOrdered DEF ProgramInv, HasInstruction
<1>2. /\ ProgramInv' /\ Call /\ Used(list', subs') \subseteq UsedModules
      /\ \A h \in Modules : ToSet(list'[h]) = ToSet(list[h])
  BY <1>1, <1>3, MovedKept
<1> QED BY <1>1, <1>2, <1>3, ReplaceSubsKept DEF CallKept

-----------------------------------------------------------------------------
(* remove_instructions behind x, which only they use *)
LEMMA RemoveBehindKept ==
  ASSUME ProgramInv, NEW m \in Modules, NEW x \in ToSet(list[m]),
         \A u \in outs[x] : Earlier(list[m], x, u),
         \A i \in Ins : Earlier(list[m], x, i) => outs[i] = {},
         NEW l, l = SubSeq(list[m], 1, Position(m, x)),
         ClearArguments(ToSet(list[m]) \ ToSet(l)), list' = [list EXCEPT ![m] = l],
         UNCHANGED <<op, modules>>
  PROVE  CallKept(m, <<>>)
<1>1. GraphShape /\ GraphTypeOK /\ UseListsExact /\ Ends
  BY DEF ProgramInv, GraphInv
<1>2. UsedModules \subseteq Modules /\ \A h \in Modules : ToSet(list[h]) \subseteq Ins
  BY <1>1, ShapeOrdered
<1>3. /\ list' \in [Modules -> Seq(Ins)] /\ OneHome(list')
      /\ \A h \in Modules \ {m} : list'[h] = list[h]
      /\ list'[m] # <<>> /\ Last(list'[m]) = x
      /\ \A i : i \in ToSet(list'[m]) <=> i \in ToSet(list[m]) /\ ~ Earlier(list[m], x, i)
      /\ \A i, j : Earlier(list'[m], j, i) <=> Earlier(list[m], j, i) /\ i \in ToSet(list'[m])
  BY <1>1, TruncateIs
<1>4. PICK S \in SUBSET ToSet(list[m]) : /\ S = ToSet(list[m]) \ ToSet(l) /\ ClearArguments(S)
  OBVIOUS
<1>5. ToSet(list'[m]) = ToSet(l)
  BY <1>1 DEF GraphShape
<1>6. \A i : i \in S <=> Earlier(list[m], x, i)
  <2>1. \A i : Earlier(list[m], x, i) => i \in ToSet(list[m])
    BY <1>1, OrderIn
  <2> QED BY <1>3, <1>4, <1>5, <2>1
<1>7. /\ InputsInOrder
      /\ \A k \in Ins : args'[k] = IF k \in S THEN <<>> ELSE args[k]
      /\ \A k \in Ins : subs'[k] = IF k \in S THEN <<>> ELSE subs[k]
      /\ \A j \in Ins : outs'[j] = outs[j] \ S
  <2>1. S \in SUBSET Ins
    BY <1>2
  <2> QED BY <1>4, <2>1, ClearOrder
<1>8. CallClear /\ DOMAIN op' = Ins
  <2>1. S \in SUBSET Ins
    BY <1>2
  <2> QED BY <1>1, <1>4, <2>1, ClearIsCall DEF GraphShape
<1>9. GraphShape'
  <2>1. list[m] # <<>> /\ m \in modules
    <3>1. ToSet(<<>>) = {}
      BY DEF ToSet
    <3> QED BY <1>1, <3>1 DEF GraphShape
  <2> QED BY <1>1, <1>3, <1>7, <1>8, <2>1 DEF GraphShape, InputsInOrder
<1>10. \A i \in Live \ Live' : i \in S
  <2>1. \A i : i \in Live' <=> \E h \in Modules : i \in ToSet(list'[h])
    BY <1>9, LiveIsNext
  <2>2. \A i : i \in Live <=> \E h \in Modules : i \in ToSet(list[h])
    BY <1>1, LiveIs
  <2>3. \A h \in Modules : \A i \in ToSet(list[h]) : i \in ToSet(list'[h]) \/ i \in S
    BY <1>3, <1>6
  <2> QED BY <2>1, <2>2, <2>3
<1>11. Call
  <2>1. \A i \in S : i \in Ins /\ outs[i] = {}
    BY <1>2, <1>6
  <2>2. \A i \in S : outs'[i] = {} /\ args'[i] = <<>>
    BY <1>7, <2>1
  <2> QED BY <1>8, <1>10, <2>2 DEF Call, FreedUnused
<1>12. InOrder(list', args', subs') /\ Used(list', subs') \subseteq UsedModules
  <2>1. PICK inputs, mods : inputs = args' /\ mods = subs'
    OBVIOUS
  <2>2. Ordered(list, mods) /\ InOrder(list, inputs, mods) /\ Used(list, mods) \subseteq UsedModules
    BY <1>7, <2>1 DEF InputsInOrder
  <2>3. \A h \in Modules : /\ ToSet(list'[h]) \subseteq ToSet(list[h])
                           /\ \A i, j : i \in ToSet(list'[h]) /\ Earlier(list[h], j, i)
                                           => Earlier(list'[h], j, i)
    BY <1>3
  <2>4. /\ \A j : EnteredBefore(list', mods, j) \subseteq EnteredBefore(list, mods, j)
        /\ InOrder(list', inputs, mods)
    BY <2>2, <2>3, LessListed
  <2> QED BY <2>1, <2>2, <2>4 DEF Used
<1>13. \A n \in UsedModules : list'[n] # <<>> /\ outs'[Last(list'[n])] = {}
  <2> SUFFICES ASSUME NEW n \in UsedModules PROVE list'[n] # <<>> /\ outs'[Last(list'[n])] = {}
    OBVIOUS
  <2>1. CASE n = m
    <3>1. outs[x] \subseteq S /\ x \in Ins
      BY <1>2, <1>6
    <3> QED BY <1>3, <1>7, <2>1, <3>1
  <2>2. CASE n # m
    <3>1. list[n] # <<>> /\ list[n] \in Seq(Ins) /\ IsInjective(list[n]) /\ outs[Last(list[n])] = {}
      BY <1>1, <1>2, ShapeOrdered DEF Ends, LastOf
    <3>2. Last(list[n]) \in Ins
      BY <3>1, EndsOf
    <3> QED BY <1>2, <1>3, <1>7, <2>2, <3>1, <3>2
  <2> QED BY <2>1, <2>2
<1>14. ProgramInv'
  BY <1>9, <1>11, <1>12, <1>13, StaysValid
<1>15. \A h \in Modules \ {m} : \A y \in ToSet(list[h]) : y \notin S
  BY <1>1, SameHome DEF GraphShape
<1>16. \A h \in Modules \ {m} : \A y \in ToSet(list[h]) : y \in ToSet(list'[h]) /\ subs'[y] = subs[y]
  BY <1>2, <1>3, <1>7, <1>15
<1>17. \A h \in Modules : \A y \in ToSet(list'[h]) :
         subs'[y] \in {<<>>} \/ (y \in ToSet(list[h]) /\ subs'[y] = subs[y])
  <2>1. \A h \in Modules : ToSet(list'[h]) \subseteq ToSet(list[h])
    BY <1>3
  <2> QED BY <1>2, <1>7, <2>1
<1> QED BY <1>11, <1>12, <1>14, <1>16, <1>17 DEF CallKept

(* remove_module of a module that nothing hangs on to *)
LEMMA RemoveModuleKept ==
  ASSUME ProgramInv, NEW m \in Modules \ UsedModules, RemoveModule(m), UNCHANGED op
  PROVE  ProgramInv' /\ Call /\ Used(list', subs') \subseteq UsedModules
<1>1. GraphShape /\ GraphTypeOK /\ UseListsExact /\ Ends
  BY DEF ProgramInv, GraphInv
<1>2. UsedModules \subseteq Modules /\ \A h \in Modules : ToSet(list[h]) \subseteq Ins
  BY <1>1, ShapeOrdered
<1>3. /\ \A i \in ToSet(list[m]) : outs[i] \subseteq ToSet(list[m])
      /\ ClearArguments(ToSet(list[m]))
      /\ modules' = modules \ {m} /\ list' = [list EXCEPT ![m] = <<>>]
  BY DEF RemoveModule
<1>4. PICK S \in SUBSET Ins : S = ToSet(list[m]) /\ ClearArguments(S)
  BY <1>2, <1>3
<1>5. /\ InputsInOrder
      /\ \A k \in Ins : args'[k] = IF k \in S THEN <<>> ELSE args[k]
      /\ \A j \in Ins : outs'[j] = outs[j] \ S
  BY <1>4, ClearOrder
<1>6. CallClear /\ DOMAIN op' = Ins
  BY <1>1, <1>4, ClearIsCall DEF GraphShape
<1>7. /\ list'[m] = <<>> /\ ToSet(list'[m]) = {} /\ \A h \in Modules \ {m} : list'[h] = list[h]
      /\ list' \in [Modules -> Seq(Ins)]
  <2>1. ToSet(<<>>) = {} /\ <<>> \in Seq(Ins)
    BY DEF ToSet
  <2> QED BY <1>1, <1>3, <2>1 DEF GraphShape
<1>8. OneHome(list')
  <2>1. IsInjective(<<>>)
    BY DEF IsInjective
  <2>2. \A h \in Modules : list'[h] \in Seq(Ins) /\ IsInjective(list'[h])
    BY <1>1, <1>7, <2>1 DEF GraphShape, OneHome
  <2>3. \A h, n \in Modules : h # n => ToSet(list'[h]) \cap ToSet(list'[n]) = {}
    <3> SUFFICES ASSUME NEW h \in Modules, NEW n \in Modules, h # n
                 PROVE  ToSet(list'[h]) \cap ToSet(list'[n]) = {}
      OBVIOUS
    <3>1. CASE h = m \/ n = m
      BY <1>7, <3>1
    <3>2. CASE h # m /\ n # m
      BY <1>1, <1>7, <3>2 DEF GraphShape, OneHome
    <3> QED BY <3>1, <3>2
  <2> QED BY <2>2, <2>3 DEF OneHome
<1>9. GraphShape'
  BY <1>1, <1>3, <1>5, <1>6, <1>7, <1>8 DEF GraphShape, InputsInOrder
<1>10. \A i \in Live \ Live' : i \in S
  <2>1. \A i : i \in Live' <=> \E h \in Modules : i \in ToSet(list'[h])
    BY <1>9, LiveIsNext
  <2>2. \A i : i \in Live <=> \E h \in Modules : i \in ToSet(list[h])
    BY <1>1, LiveIs
  <2>3. \A h \in Modules : \A i \in ToSet(list[h]) : i \in ToSet(list'[h]) \/ i \in S
    BY <1>4, <1>7
  <2> QED BY <2>1, <2>2, <2>3
<1>11. Call
  <2>1. \A i \in S : i \in Ins /\ outs[i] \subseteq S
    BY <1>3, <1>4
  <2>2. \A i \in S : outs'[i] = {} /\ args'[i] = <<>>
    BY <1>5, <2>1
  <2> QED BY <1>6, <1>10, <2>2 DEF Call, FreedUnused
<1>12. InOrder(list', args', subs') /\ Used(list', subs') \subseteq UsedModules
  <2>1. PICK inputs, mods : inputs = args' /\ mods = subs'
    OBVIOUS
  <2>2. Ordered(list, mods) /\ InOrder(list, inputs, mods) /\ Used(list, mods) \subseteq UsedModules
    BY <1>5, <2>1 DEF InputsInOrder
  <2>3. \A h \in Modules : /\ ToSet(list'[h]) \subseteq ToSet(list[h])
                           /\ \A i, j : i \in ToSet(list'[h]) /\ Earlier(list[h], j, i)
                                           => Earlier(list'[h], j, i)
    BY <1>7
  <2>4. /\ \A j : EnteredBefore(list', mods, j) \subseteq EnteredBefore(list, mods, j)
        /\ InOrder(list', inputs, mods)
    BY <2>2, <2>3, LessListed
  <2> QED BY <2>1, <2>2, <2>4 DEF Used
<1>13. \A n \in UsedModules : list'[n] # <<>> /\ outs'[Last(list'[n])] = {}
  <2> SUFFICES ASSUME NEW n \in UsedModules PROVE list'[n] # <<>> /\ outs'[Last(list'[n])] = {}
    OBVIOUS
  <2>1. list[n] # <<>> /\ list[n] \in Seq(Ins) /\ IsInjective(list[n]) /\ outs[Last(list[n])] = {}
    BY <1>1, <1>2, ShapeOrdered DEF Ends, LastOf
  <2>2. Last(list[n]) \in Ins
    BY <2>1, EndsOf
  <2> QED BY <1>2, <1>5, <1>7, <2>1, <2>2
<1>14. ProgramInv'
  BY <1>9, <1>11, <1>12, <1>13, StaysValid
<1> QED BY <1>11, <1>12, <1>14

(* insert_instruction of a copy: it hangs what an instruction of a branch  *)
(* does whose instructions are used in it alone.                           *)
(* The copy i of y, of branch b, in front of the instruction b hangs off.  *)
CopyInserted(m, before, i, o, a, s, b, y) ==
  /\ before \in ToSet(list[m]) /\ a \in Seq(Live) /\ s \in Seq(Modules)
  /\ InsertInstruction(m, before, i, o, a, s) /\ UNCHANGED modules
  /\ b \in ToSet(subs[before]) /\ IsLeaf(b) /\ y \in ToSet(list[b]) /\ s = subs[y]
  /\ \A j \in ToSet(a) : Available(list, subs, m, before, j) /\ j \notin ToSet(list[b])

LEMMA InsertOrder ==
  ASSUME ProgramInv, NEW m \in UsedModules, NEW before, NEW i, NEW o, NEW a, NEW s, NEW b, NEW y,
         CopyInserted(m, before, i, o, a, s, b, y)
  PROVE  /\ CallKept(m, s) /\ i \in Ins \ Live
         /\ \A h \in Modules \ {m} : list'[h] = list[h]
         /\ ToSet(list'[m]) = ToSet(list[m]) \cup {i}
         /\ \A x, z \in ToSet(list[m]) : Earlier(list'[m], z, x) <=> Earlier(list[m], z, x)
         /\ \A x : Earlier(list'[m], i, x) <=> x = before \/ Earlier(list[m], before, x)
         /\ \A z : Earlier(list'[m], z, i) <=> Earlier(list[m], z, before)
         /\ \A u \in Ins : /\ args'[u] = IF u = i THEN a ELSE args[u]
                           /\ subs'[u] = IF u = i THEN s ELSE subs[u]
                           /\ op'[u] = IF u = i THEN o ELSE op[u]
         /\ \A j \in Ins : outs'[j] = outs[j] \cup (IF j \in ToSet(a) THEN {i} ELSE {})
<1>0. /\ before \in ToSet(list[m]) /\ a \in Seq(Live) /\ s \in Seq(Modules)
      /\ InsertInstruction(m, before, i, o, a, s) /\ UNCHANGED modules
      /\ b \in ToSet(subs[before]) /\ IsLeaf(b) /\ y \in ToSet(list[b]) /\ s = subs[y]
      /\ \A j \in ToSet(a) : Available(list, subs, m, before, j) /\ j \notin ToSet(list[b])
  BY DEF CopyInserted
<1> USE <1>0
<1>1. GraphInv /\ GraphShape /\ GraphTypeOK /\ UseListsExact /\ InputsEvaluated /\ Ends /\ FreeUseNothing
  BY DEF ProgramInv, GraphInv
<1>2. /\ i \in Ins \ Live /\ op' = [op EXCEPT ![i] = o] /\ subs' = [subs EXCEPT ![i] = s]
      /\ list' = [list EXCEPT ![m] = InsertAt(list[m], Position(m, before), i)]
      /\ InsertUses(i, a)
  BY DEF InsertInstruction
<1>3. /\ m \in Modules /\ UsedModules \subseteq Modules /\ Ordered(list, subs) /\ list[m] # <<>>
      /\ list[m] \in Seq(Ins) /\ IsInjective(list[m])
      /\ \A h \in Modules : ToSet(list[h]) \subseteq Ins
      /\ b \in Modules
  <2>1. m \in Modules /\ before \in Ins
    BY <1>1, ShapeOrdered
  <2>2. subs[before] \in Seq(Modules)
    BY <1>1, <2>1 DEF GraphShape
  <2>3. b \in Modules
    BY <2>2, InputsAreInstructions
  <2> QED BY <1>1, <2>3, ShapeOrdered DEF Ends
<1>4. \A h \in Modules : i \notin ToSet(list[h])
  BY <1>1, <1>2, LiveIs
<1>5. Position(m, before) \in DOMAIN list[m] /\ list[m][Position(m, before)] = before
  BY PositionOf
<1> DEFINE l == InsertAt(list[m], Position(m, before), i)
<1>6. /\ l \in Seq(Ins) /\ IsInjective(l) /\ ToSet(l) = ToSet(list[m]) \cup {i}
      /\ \A x, z \in ToSet(list[m]) : Earlier(l, z, x) <=> Earlier(list[m], z, x)
      /\ \A x : Earlier(l, i, x) <=> x = before \/ Earlier(list[m], before, x)
      /\ \A z : Earlier(l, z, i) <=> Earlier(list[m], z, before)
  BY <1>2, <1>3, <1>4, <1>5, Inserted
<1>7. list' = [list EXCEPT ![m] = l]
  BY <1>2
<1> HIDE DEF l
<1>8. /\ list' \in [Modules -> Seq(Ins)] /\ OneHome(list') /\ list'[m] = l
      /\ \A h \in Modules \ {m} : list'[h] = list[h]
  BY <1>1, <1>2, <1>3, <1>6, <1>7, OneList
<1>9. /\ ToSet(list'[m]) = ToSet(list[m]) \cup {i}
      /\ \A x, z \in ToSet(list[m]) : Earlier(list'[m], z, x) <=> Earlier(list[m], z, x)
      /\ \A x : Earlier(list'[m], i, x) <=> x = before \/ Earlier(list[m], before, x)
      /\ \A z : Earlier(list'[m], z, i) <=> Earlier(list[m], z, before)
  BY <1>6, <1>8
<1>10. /\ GraphTypeOK' /\ UseListsExact' /\ ToSet(a) \subseteq Live
       /\ \A k \in Ins : args'[k] = IF k = i THEN a ELSE args[k]
  BY <1>1, <1>2, InsertKeepsLists
<1>11. \A u \in Ins : /\ args'[u] = IF u = i THEN a ELSE args[u]
                      /\ subs'[u] = IF u = i THEN s ELSE subs[u]
                      /\ op'[u] = IF u = i THEN o ELSE op[u]
  BY <1>1, <1>2, <1>10 DEF GraphShape
<1>12. \A j \in Ins : outs'[j] = outs[j] \cup (IF j \in ToSet(a) THEN {i} ELSE {})
  BY <1>2 DEF InsertUses
<1>13. GraphShape'
  <2>1. modules' \subseteq Modules /\ \A h \in Modules \ modules' : list'[h] = <<>>
    BY <1>1, <1>3, <1>8 DEF GraphShape
  <2>2. subs' \in [Ins -> Seq(Modules)] /\ DOMAIN op' = Ins
    BY <1>1, <1>2 DEF GraphShape
  <2> QED BY <1>8, <2>1, <2>2 DEF GraphShape
<1>14. Live \subseteq Live' /\ i \in Live'
  <2>1. \A x : x \in Live' <=> \E h \in Modules : x \in ToSet(list'[h])
    BY <1>13, LiveIsNext
  <2> QED BY <1>1, <1>3, <1>8, <1>9, <2>1, LiveIs
<1>15. Call
  <2>1. args'[i] = a
    BY <1>2, <1>11
  <2>2. CallInsert
    BY <1>2, <1>14, <2>1 DEF CallInsert
  <2> QED BY <1>14, <2>2 DEF Call, FreedUnused
<1>16. \A h \in Modules : \A x, j : Earlier(list[h], j, x) => Earlier(list'[h], j, x)
  <2> SUFFICES ASSUME NEW h \in Modules, NEW x, NEW j, Earlier(list[h], j, x) PROVE Earlier(list'[h], j, x)
    OBVIOUS
  <2>1. x \in ToSet(list[h]) /\ j \in ToSet(list[h])
    BY <1>1, OrderIn
  <2> QED BY <1>8, <1>9, <2>1
<1>17. ASSUME NEW j, j \notin ToSet(list[b])
       PROVE  EnteredBefore(list', subs', j) \subseteq EnteredBefore(list, subs, j)
  <2> DEFINE E == EnteredBefore(list, subs, j)
  <2>1. E \subseteq Modules /\ Hung(list, subs)
    BY <1>3, EnteredReached DEF Ordered
  <2>3. ASSUME NEW h \in E, NEW x \in ToSet(list'[h]), ~ Earlier(list'[h], j, x)
        PROVE  \/ ToSet(subs'[x]) \subseteq E
               \/ /\ x \in ToSet(list[h]) /\ ToSet(subs'[x]) \subseteq ToSet(subs[x])
                  /\ ~ Earlier(list[h], j, x)
    <3>1. CASE x = i
      <4>1. h = m
        BY <1>4, <1>8, <2>1, <3>1
      <4>2. ~ Earlier(list[m], j, before)
        BY <1>9, <2>3, <3>1, <4>1
      <4>3. b \in E
        BY <2>1, <2>3, <4>1, <4>2, EnteredNext
      <4>4. ~ Earlier(list[b], j, y)
        BY <1>1, <1>3, <1>17, OrderIn
      <4>5. ToSet(subs[y]) \subseteq E
        BY <2>1, <4>3, <4>4, EnteredNext
      <4> QED BY <1>2, <1>11, <3>1, <4>5
    <3>2. CASE x # i
      <4>1. x \in ToSet(list[h])
        BY <1>8, <1>9, <2>1, <3>2
      <4>2. x \in Ins
        BY <1>3, <2>1, <4>1
      <4> QED BY <1>11, <1>16, <2>1, <2>3, <3>2, <4>1, <4>2
    <3> QED BY <3>1, <3>2
  <2> QED BY <2>1, <2>3, EnteredShrinks
<1>18. b \in UsedModules
  <2>1. ~ Earlier(list[m], End, before)
    <3>1. Earlier(list[m], End, before) => End \in ToSet(list[m])
      BY <1>1, <1>3, OrderIn
    <3> QED BY <1>3, <3>1, EndAssumption
  <2> QED BY <1>3, <2>1, EnteredNext DEF UsedModules, Used, Ordered
<1>19. InOrder(list', args', subs')
  <2> SUFFICES ASSUME NEW h \in Modules, NEW u \in ToSet(list'[h]), NEW j \in ToSet(args'[u])
               PROVE  Available(list', subs', h, u, j)
    BY DEF InOrder
  <2>1. CASE u = i
    <3>1. h = m /\ j \in ToSet(a)
      BY <1>2, <1>4, <1>8, <1>11, <2>1
    <3>2. Available(list, subs, m, before, j) /\ j \notin ToSet(list[b])
      BY <3>1
    <3> QED BY <1>9, <1>17, <2>1, <3>1, <3>2 DEF Available
  <2>2. CASE u # i
    <3>1. u \in ToSet(list[h])
      BY <1>8, <1>9, <2>2
    <3>2. u \in Ins
      BY <1>3, <3>1
    <3>3. j \in ToSet(args[u]) /\ Available(list, subs, h, u, j)
      BY <1>1, <1>11, <2>2, <3>1, <3>2 DEF InputsEvaluated, InOrder
    <3>4. CASE j \notin ToSet(list[b])
      BY <1>16, <1>17, <3>3, <3>4, StillAvailable
    <3>5. CASE j \in ToSet(list[b])
      <4>1. u \in outs[j] /\ j \in Ins
        BY <1>1, <1>3, <3>2, <3>3, <3>5 DEF UseListsExact, ArgsOf
      <4>2. u \in ToSet(list[b])
        BY <3>5, <4>1 DEF IsLeaf
      <4>3. h = b
        BY <1>3, <3>1, <4>2, SameHome DEF Ordered
      <4>4. Earlier(list[b], j, u)
        BY <1>3, <1>18, <3>3, <3>5, <4>2, <4>3, NotBeforeItself DEF UsedModules
      <4> QED BY <1>16, <4>3, <4>4 DEF Available
    <3> QED BY <3>4, <3>5
  <2> QED BY <2>1, <2>2
<1>20. Used(list', subs') \subseteq UsedModules
  <2>1. End \notin ToSet(list[b])
    BY <1>3, EndAssumption
  <2> QED BY <1>17, <2>1 DEF Used, UsedModules
<1>21. ASSUME NEW n \in UsedModules PROVE list'[n] # <<>> /\ outs'[Last(list'[n])] = {}
  <2>1. /\ list[n] # <<>> /\ outs[Last(list[n])] = {} /\ n \in Modules
        /\ list[n] \in Seq(Ins) /\ IsInjective(list[n])
    BY <1>1, <1>3, ShapeOrdered DEF Ends, LastOf
  <2>2. /\ Last(list[n]) \in ToSet(list[n]) /\ Last(list[n]) \in Ins
        /\ \A x : ~ Earlier(list[n], Last(list[n]), x)
    BY <2>1, EndsOf
  <2>3. Last(list[n]) \notin ToSet(a)
    <3>1. ~ Available(list, subs, m, before, Last(list[n]))
      BY <1>3, <2>1, LastBeforeNone DEF UsedModules
    <3> QED BY <3>1
  <2>4. outs'[Last(list[n])] = {}
    BY <1>12, <2>1, <2>2, <2>3
  <2>5. CASE n = m
    <3> DEFINE z == Last(list[m])
    <3>1. z \in ToSet(list'[m]) /\ z \in ToSet(list[m]) /\ z # i
      BY <1>4, <1>9, <2>1, <2>2, <2>5
    <3>2. \A x : ~ Earlier(list'[m], z, x)
      <4> SUFFICES ASSUME NEW x, Earlier(list'[m], z, x) PROVE FALSE
        OBVIOUS
      <4>1. ~ Earlier(list[m], z, before)
        BY <2>2, <2>5
      <4>2. x \in ToSet(list'[m])
        BY <1>3, <1>8, EarlierHome
      <4> QED BY <1>9, <2>2, <2>5, <3>1, <4>1, <4>2
    <3> HIDE DEF z
    <3>3. list'[m] \in Seq(Ins) /\ IsInjective(list'[m]) /\ list[m] \in Seq(Ins) /\ IsInjective(list[m]) /\ list[m] # <<>>
      BY <1>3, <1>6, <1>8
    <3>4. Last(list'[m]) = Last(list[m]) /\ list'[m] # <<>>
      BY <3>1, <3>2, <3>3, SameLast DEF z
    <3> QED BY <2>4, <2>5, <3>4
  <2>6. CASE n # m
    BY <1>8, <2>1, <2>4, <2>6
  <2> QED BY <2>5, <2>6
<1>22. ProgramInv'
  BY <1>13, <1>15, <1>19, <1>20, <1>21, StaysValid
<1>23. \A h \in Modules \ {m} : \A x \in ToSet(list[h]) : x \in ToSet(list'[h]) /\ subs'[x] = subs[x]
  BY <1>3, <1>4, <1>8, <1>11
<1>24. \A h \in Modules : \A x \in ToSet(list'[h]) :
         subs'[x] \in {<<>>, s} \/ (x \in ToSet(list[h]) /\ subs'[x] = subs[x])
  <2> SUFFICES ASSUME NEW h \in Modules, NEW x \in ToSet(list'[h]), x # i
               PROVE  x \in ToSet(list[h]) /\ subs'[x] = subs[x]
    BY <1>2, <1>11
  <2>1. x \in ToSet(list[h])
    BY <1>8, <1>9
  <2> QED BY <1>3, <1>11, <2>1
<1>25. CallKept(m, s)
  BY <1>15, <1>20, <1>22, <1>23, <1>24 DEF CallKept
<1> QED BY <1>2, <1>8, <1>9, <1>11, <1>12, <1>25

-----------------------------------------------------------------------------
(***************************************************************************)
(* add_literal, move_instruction and the replacement by a promoted literal. *)
(***************************************************************************)

LEMMA AddFirstKept ==
  ASSUME ProgramInv, NEW m \in UsedModules, NEW i, NEW o, AddFirst(m, i, o), UNCHANGED modules,
         NEW n \in Modules
  PROVE  CallKept(n, <<>>)
<1>1. /\ ProgramInv' /\ Call /\ Used(list', subs') \subseteq UsedModules
      /\ i \in Ins \ Live
      /\ \A h \in Modules \ {m} : list'[h] = list[h]
      /\ ToSet(list'[m]) = ToSet(list[m]) \cup {i}
      /\ \A u \in Ins : subs'[u] = IF u = i THEN <<>> ELSE subs[u]
  BY AddFirstOrder
<1>2. \A h \in Modules : ToSet(list[h]) \subseteq Ins /\ i \notin ToSet(list[h])
  BY <1>1, ShapeOrdered, LiveIs DEF ProgramInv
<1>3. m \in Modules
  BY ShapeOrdered DEF ProgramInv
<1>4. \A h \in Modules : \A x \in ToSet(list[h]) : x \in ToSet(list'[h]) /\ subs'[x] = subs[x]
  BY <1>1, <1>2
<1>5. \A h \in Modules : \A x \in ToSet(list'[h]) :
        subs'[x] \in {<<>>} \/ (x \in ToSet(list[h]) /\ subs'[x] = subs[x])
  <2> SUFFICES ASSUME NEW h \in Modules, NEW x \in ToSet(list'[h]), x # i
               PROVE  x \in ToSet(list[h]) /\ subs'[x] = subs[x]
    BY <1>1
  <2>1. x \in ToSet(list[h])
    BY <1>1
  <2> QED BY <1>1, <1>2, <2>1
<1> QED BY <1>1, <1>4, <1>5 DEF CallKept

-----------------------------------------------------------------------------
(* move_instruction(x, z), when z alone uses x *)
LEMMA MoveBeforeKept ==
  ASSUME ProgramInv, NEW m \in UsedModules, NEW x, NEW z, Earlier(list[m], x, z), outs[x] = {z},
         list' = [list EXCEPT ![m] = InsertAt(RemoveAt(list[m], Position(m, x)), Position(m, z) - 1, x)],
         UNCHANGED <<modules, op, args, subs, outs>>
  PROVE  /\ CallKept(m, <<>>) /\ \A h \in Modules : ToSet(list'[h]) = ToSet(list[h])
         /\ Earlier(list'[m], x, z)
         /\ \A i : Earlier(list'[m], x, i) <=> i = z \/ Earlier(list[m], z, i)
<1>1. GraphInv /\ GraphShape /\ GraphTypeOK /\ UseListsExact /\ InputsEvaluated /\ Ends
  BY DEF ProgramInv, GraphInv
<1>2. /\ m \in Modules /\ UsedModules \subseteq Modules /\ Ordered(list, subs) /\ list[m] # <<>>
      /\ list[m] \in Seq(Ins) /\ IsInjective(list[m])
      /\ \A h \in Modules : ToSet(list[h]) \subseteq Ins
  BY <1>1, ShapeOrdered DEF Ends
<1>3. /\ x \in ToSet(list[m]) /\ z \in ToSet(list[m]) /\ x # z /\ x \in Ins /\ z \in Ins
      /\ ~ Earlier(list[m], z, x)
  <2>1. /\ \A i : ~ Earlier(list[m], i, i)
        /\ \A i, j : Earlier(list[m], i, j) => ~ Earlier(list[m], j, i)
        /\ \A i, j : Earlier(list[m], i, j) => i \in ToSet(list[m]) /\ j \in ToSet(list[m])
    BY <1>1, <1>2, OrderIn
  <2>2. x \in ToSet(list[m]) /\ z \in ToSet(list[m]) /\ x # z
    BY <2>1
  <2> QED BY <1>2, <2>1, <2>2
<1> DEFINE k == Position(m, x)
           q == Position(m, z)
           r == RemoveAt(list[m], k)
           l == InsertAt(r, q - 1, x)
<1>4. k \in DOMAIN list[m] /\ q \in DOMAIN list[m] /\ list[m][k] = x /\ list[m][q] = z
  BY <1>3, PositionOf
<1>5. list' = [list EXCEPT ![m] = l]
  OBVIOUS
<1> HIDE DEF k, q
<1>6. k < q
  BY <1>2, <1>4, EarlierAt
<1>7. /\ r \in Seq(Ins) /\ IsInjective(r) /\ ToSet(r) = ToSet(list[m]) \ {x}
      /\ \A i, j : Earlier(r, j, i) <=> Earlier(list[m], j, i) /\ j # x /\ i # x
      /\ q - 1 \in DOMAIN r /\ r[q - 1] = z
  BY <1>2, <1>4, <1>6, Removed
<1> HIDE DEF r
<1>8. /\ l \in Seq(Ins) /\ IsInjective(l) /\ ToSet(l) = ToSet(r) \cup {x}
      /\ \A i, j \in ToSet(r) : Earlier(l, j, i) <=> Earlier(r, j, i)
      /\ \A i : Earlier(l, x, i) <=> i = z \/ Earlier(r, z, i)
      /\ \A j : Earlier(l, j, x) <=> Earlier(r, j, z)
  <2>1. x \notin ToSet(r)
    BY <1>7
  <2>2. q - 1 \in DOMAIN r /\ r[q - 1] = z /\ r \in Seq(Ins) /\ IsInjective(r)
    BY <1>7
  <2> QED BY <1>3, <2>1, <2>2, Inserted
<1> HIDE DEF l
<1>9. ToSet(l) = ToSet(list[m])
  BY <1>3, <1>7, <1>8
<1>10. /\ list' \in [Modules -> Seq(Ins)] /\ OneHome(list') /\ list'[m] = l
       /\ \A h \in Modules \ {m} : list'[h] = list[h]
  BY <1>1, <1>2, <1>5, <1>8, <1>9, OneList
<1>11. \A h \in Modules : ToSet(list'[h]) = ToSet(list[h])
  BY <1>9, <1>10
<1>12. \A i : Earlier(list'[m], x, i) <=> i = z \/ Earlier(list[m], z, i)
  <2>1. \A i : Earlier(r, z, i) <=> Earlier(list[m], z, i)
    BY <1>3, <1>7
  <2> QED BY <1>8, <1>10, <2>1
<1>13. ASSUME NEW h \in Modules, NEW i, NEW j, j # x, Earlier(list[h], j, i)
       PROVE  Earlier(list'[h], j, i)
  <2>1. CASE h # m
    BY <1>10, <1>13, <2>1
  <2>2. CASE h = m /\ i = x
    <3>1. Earlier(list[m], j, z) /\ z # x
      BY <1>1, <1>2, <1>3, <1>13, <2>2, OrderIn
    <3>2. Earlier(r, j, z)
      BY <1>7, <1>13, <3>1
    <3> QED BY <1>8, <1>10, <2>2, <3>2
  <2>3. CASE h = m /\ i # x
    <3>1. i \in ToSet(r) /\ j \in ToSet(r) /\ Earlier(r, j, i)
      BY <1>1, <1>2, <1>7, <1>13, <2>3, OrderIn
    <3> QED BY <1>8, <1>10, <2>3, <3>1
  <2> QED BY <2>1, <2>2, <2>3
<1>14. GraphShape'
  <2>1. list[m] # <<>> /\ m \in modules
    BY <1>1, <1>2 DEF GraphShape
  <2> QED BY <1>1, <1>10, <2>1 DEF GraphShape
<1>15. Live' = Live
  <2>1. \A i : i \in Live' <=> \E h \in Modules : i \in ToSet(list'[h])
    BY <1>14, LiveIsNext
  <2> QED BY <1>1, <1>11, <2>1, LiveIs
<1>16. Call
  BY <1>15 DEF Call, FreedUnused
<1>17. ASSUME NEW j, j # x PROVE EnteredBefore(list', subs, j) \subseteq EnteredBefore(list, subs, j)
  <2>1. EnteredBefore(list, subs, j) \subseteq Modules /\ Hung(list, subs)
    BY <1>2, EnteredReached DEF Ordered
  <2>2. ASSUME NEW h \in EnteredBefore(list, subs, j), NEW u \in ToSet(list'[h]),
               ~ Earlier(list'[h], j, u)
        PROVE  u \in ToSet(list[h]) /\ ~ Earlier(list[h], j, u)
    BY <1>11, <1>13, <1>17, <2>1, <2>2
  <2> QED BY <2>1, <2>2, EnteredShrinks
<1>18. InOrder(list', args', subs')
  <2> SUFFICES ASSUME NEW h \in Modules, NEW u \in ToSet(list'[h]), NEW j \in ToSet(args[u])
               PROVE  Available(list', subs, h, u, j)
    BY DEF InOrder
  <2>1. u \in ToSet(list[h]) /\ u \in Ins
    BY <1>2, <1>11
  <2>2. Available(list, subs, h, u, j)
    BY <1>1, <2>1 DEF InputsEvaluated, InOrder
  <2>3. CASE j = x
    <3>1. u = z
      BY <1>1, <1>3, <2>1, <2>3 DEF UseListsExact, ArgsOf
    <3>2. h = m
      BY <1>2, <1>3, <2>1, <3>1, SameHome DEF Ordered
    <3> QED BY <1>12, <2>3, <3>1, <3>2 DEF Available
  <2>4. CASE j # x
    BY <1>13, <1>17, <2>2, <2>4, StillAvailable
  <2> QED BY <2>3, <2>4
<1>19. Used(list', subs') \subseteq UsedModules
  BY <1>3, <1>17, EndAssumption DEF Used, UsedModules
<1>20. ASSUME NEW n \in UsedModules PROVE list'[n] # <<>> /\ outs'[Last(list'[n])] = {}
  <2>1. /\ list[n] # <<>> /\ outs[Last(list[n])] = {} /\ n \in Modules
        /\ list[n] \in Seq(Ins) /\ IsInjective(list[n])
    BY <1>1, <1>2, ShapeOrdered DEF Ends, LastOf
  <2>2. CASE n = m
    <3> DEFINE e == Last(list[m])
    <3>1. e \in ToSet(list[m]) /\ \A i : ~ Earlier(list[m], e, i)
      BY <1>2, EndsOf
    <3> HIDE DEF e
    <3>2. e # x
      BY <3>1
    <3>3. \A i : ~ Earlier(list'[m], e, i)
      <4> SUFFICES ASSUME NEW i, Earlier(list'[m], e, i) PROVE FALSE
        OBVIOUS
      <4>1. i \in ToSet(list'[m])
        BY <1>2, <1>10, EarlierHome
      <4>2. CASE i = x
        <5>1. Earlier(r, e, z)
          BY <1>8, <1>10, <4>2
        <5> QED BY <1>7, <3>1, <5>1
      <4>3. CASE i # x
        <5>1. i \in ToSet(r) /\ e \in ToSet(r)
          BY <1>7, <1>11, <1>2, <3>1, <3>2, <4>1, <4>3
        <5>2. Earlier(r, e, i)
          BY <1>8, <1>10, <5>1
        <5> QED BY <1>7, <3>1, <5>2
      <4> QED BY <4>2, <4>3
    <3>4. e \in ToSet(list'[m])
      BY <1>2, <1>11, <3>1
    <3>5. list'[m] \in Seq(Ins) /\ IsInjective(list'[m]) /\ list[m] \in Seq(Ins) /\ IsInjective(list[m]) /\ list[m] # <<>>
      BY <1>2, <1>8, <1>10
    <3>6. Last(list'[m]) = Last(list[m]) /\ list'[m] # <<>>
      BY <3>3, <3>4, <3>5, SameLast DEF e
    <3> QED BY <2>1, <2>2, <3>6
  <2>3. CASE n # m
    BY <1>10, <2>1, <2>3
  <2> QED BY <2>2, <2>3
<1>21. ProgramInv'
  BY <1>14, <1>16, <1>18, <1>19, <1>20, StaysValid
<1>22. CallKept(m, <<>>)
  BY <1>11, <1>16, <1>19, <1>21 DEF CallKept
<1> QED BY <1>11, <1>12, <1>22

-----------------------------------------------------------------------------
(* replace_argument of a user by the literal in front of everything *)
LEMMA PromoteKept ==
  ASSUME ProgramInv, NEW i \in Live, NEW lit, lit = FirstOf(Main), lit # LastOf(Main),
         args[lit] = <<>>, subs[lit] = <<>>, i # lit, NEW user \in outs[i],
         ReplaceArgumentIn({user}, i, lit), UNCHANGED <<modules, list, op, subs>>, NEW n \in Modules
  PROVE  /\ CallKept(n, <<>>) /\ args'[lit] = <<>> /\ outs'[i] = outs[i] \ {user}
<1>1. GraphInv /\ GraphShape /\ GraphTypeOK /\ UseListsExact /\ InputsEvaluated /\ Ends
  BY DEF ProgramInv, GraphInv
<1>2. /\ Main \in UsedModules /\ Main \in Modules /\ UsedModules \subseteq Modules /\ Ordered(list, subs)
      /\ list[Main] \in Seq(Ins) /\ IsInjective(list[Main]) /\ list[Main] # <<>>
      /\ \A h \in Modules : ToSet(list[h]) \subseteq Ins
  BY <1>1, MainAssumption, ShapeOrdered DEF Ends
<1>3. lit \in ToSet(list[Main]) /\ lit \in Ins /\ i \in Ins /\ user \in Ins
  BY <1>1, <1>2, EndsOf DEF FirstOf, Live, GraphTypeOK
<1>4. user # lit
  <2>1. i \in ToSet(args[user]) /\ ToSet(<<>>) = {}
    BY <1>1, <1>3 DEF UseListsExact, ArgsOf, ToSet
  <2> QED BY <2>1
<1>5. \A u \in ToSet(list[Main]) : u # lit => Earlier(list[Main], lit, u)
  BY <1>1, <1>2, EndsIn
<1>6. EnteredBefore(list, subs, lit) \subseteq {Main}
  <2>1. ToSet(<<>>) = {}
    BY DEF ToSet
  <2>2. Reached(list, subs, lit, {Main})
    BY <1>5, <2>1 DEF Reached
  <2> QED BY <1>2, <2>2, EnteredLeast
<1>7. ASSUME NEW h \in Modules, NEW u \in ToSet(list[h]) \cap {user}
      PROVE  Available(list, subs, h, u, lit)
  BY <1>4, <1>5, <1>6 DEF Available
<1>8. PICK changed \in SUBSET outs[i] : changed = {user} /\ ReplaceArgumentIn(changed, i, lit)
  OBVIOUS
<1>9. InputsInOrder /\ Redirected(changed, i, lit)
  <2>1. \A h \in Modules : \A u \in ToSet(list[h]) \cap changed : Available(list, subs, h, u, lit)
    BY <1>7, <1>8
  <2>2. changed \in SUBSET outs[i] /\ ReplaceArgumentIn(changed, i, lit)
    BY <1>8
  <2>3. i \in Ins /\ lit \in Ins /\ i # lit
    BY <1>3
  <2>4. UNCHANGED subs
    OBVIOUS
  <2> QED BY ONLY ProgramInv, <2>1, <2>2, <2>3, <2>4, ReplaceArgumentOrder
<1>10. CallReplaceArgument
  <2>1. {u \in outs[i] : args'[u] # args[u]} = {user}
    <3>1. \A u \in Ins \ {user} : args'[u] = args[u]
      BY <1>8, <1>9 DEF Redirected
    <3>2. args'[user] # args[user]
      BY <1>8, <1>9 DEF Redirected
    <3>3. outs[i] \subseteq Ins
      BY <1>1, <1>3 DEF GraphTypeOK
    <3> QED BY <3>1, <3>2, <3>3
  <2>2. lit \in Live
    BY <1>1, <1>2, <1>3, LiveIs
  <2>3. i \in Live /\ i # lit /\ UNCHANGED <<op, subs>> /\ ReplaceArgumentIn({user}, i, lit)
    OBVIOUS
  <2> QED BY <2>1, <2>2, <2>3 DEF CallReplaceArgument
<1>11. \A h \in UsedModules : outs'[LastOf(h)] = {}
  <2> SUFFICES ASSUME NEW h \in UsedModules PROVE outs'[LastOf(h)] = {}
    OBVIOUS
  <2>1. /\ list[h] # <<>> /\ list[h] \in Seq(Ins) /\ IsInjective(list[h]) /\ outs[LastOf(h)] = {}
        /\ h \in Modules
    BY <1>1, <1>2, ShapeOrdered DEF Ends
  <2>2. LastOf(h) \in Ins /\ LastOf(h) \in ToSet(list[h])
    BY <2>1, EndsOf DEF LastOf
  <2>3. LastOf(h) # lit
    BY <1>2, <1>3, <2>1, <2>2, SameHome DEF Ordered
  <2> QED BY <1>8, <1>9, <2>1, <2>2, <2>3 DEF Redirected
<1>12. DOMAIN op' = Ins
  BY <1>1 DEF GraphShape
<1>13. ProgramInv' /\ Call /\ Used(list', subs') \subseteq UsedModules
  BY <1>9, <1>10, <1>11, <1>12, InputsKept
<1>14. args'[lit] = args[lit] /\ outs'[i] = outs[i] \ {user}
  BY <1>3, <1>4, <1>8, <1>9 DEF Redirected
<1> QED BY <1>13, <1>14 DEF CallKept

-----------------------------------------------------------------------------
(***************************************************************************)
(* dead_code_elimination, and what walks over a list have moved behind its *)
(* last instruction.                                                       *)
(***************************************************************************)

(* What is new hangs what an instruction below m did. *)
HungBelow(m, s) ==
  \/ s = <<>>
  \/ \E x \in ToSet(list[m]) : \E b \in ToSet(subs[x]) : \E y \in ToSet(list[b]) : s = subs[y]

PassKept(m) == \E s : CallKept(m, s) /\ HungBelow(m, s)

LEMMA NothingKept ==
  ASSUME ProgramInv, UNCHANGED <<modules, list, op, args, subs, outs>>, NEW m
  PROVE  CallKept(m, <<>>)
<1>1. GraphShape /\ GraphInv /\ InputsEvaluated /\ Ends
  BY DEF ProgramInv
<1>2. Live' = Live
  BY DEF Live, Home, HasInstruction
<1>3. Call
  BY <1>2 DEF Call, FreedUnused
<1>4. GraphShape'
  BY <1>1 DEF GraphShape
<1>5. InOrder(list', args', subs') /\ Used(list', subs') = UsedModules
  BY <1>1 DEF InputsEvaluated, UsedModules
<1>6. \A n \in UsedModules : list'[n] # <<>> /\ outs'[Last(list'[n])] = {}
  BY <1>1 DEF Ends, LastOf
<1>7. ProgramInv'
  BY <1>3, <1>4, <1>5, <1>6, StaysValid
<1> QED BY <1>3, <1>5, <1>7 DEF CallKept

LEMMA OneCall == ASSUME NEW m, CallKept(m, <<>>) PROVE PassKept(m)
BY DEF PassKept, HungBelow

-----------------------------------------------------------------------------
(* What walks leave behind `last` is used by nothing, or there alone. *)
BehindLast(m) ==
  /\ HasInstruction(m, last)
  /\ \A x \in Ins : Earlier(list[m], last, x) => outs[x] = {}
  /\ \A u \in outs[last] : Earlier(list[m], last, u)

DeadInv(m) ==
  turn # "removed" =>
    /\ BehindLast(m) /\ turn \in {"next", "visit"} /\ outs[last] = {}
    /\ turn = "visit" => last \notin leaves

LEMMA StartsAtLast ==
  ASSUME ProgramInv, NEW m \in UsedModules, WalkStart(m), UNCHANGED graph
  PROVE  /\ BehindLast(m)' /\ outs'[last'] = {} /\ last' = LastOf(m)' /\ turn' = "next"
         /\ HasInstruction(m, cursor)' /\ cursor' = FirstOf(m)'
<1>1. GraphShape /\ Ends /\ m \in Modules
  BY ShapeOrdered DEF ProgramInv
<1>2. /\ list[m] # <<>> /\ list[m] \in Seq(Ins) /\ IsInjective(list[m]) /\ outs[LastOf(m)] = {}
  BY <1>1, ShapeOrdered DEF Ends
<1>3. /\ Last(list[m]) \in ToSet(list[m]) /\ Head(list[m]) \in ToSet(list[m])
      /\ \A x : ~ Earlier(list[m], Last(list[m]), x)
  BY <1>2, EndsOf
<1> QED BY <1>2, <1>3 DEF WalkStart, BehindLast, HasInstruction, LastOf, FirstOf, graph

(* remove_instructions(std::next(last), end) *)
LEMMA RemoveMovedKept ==
  ASSUME ProgramInv, NEW m \in Modules, BehindLast(m), RemoveMoved(m)
  PROVE  CallKept(m, <<>>)
<1>1. CASE last = LastOf(m)
  BY <1>1, NothingKept DEF RemoveMoved
<1>2. CASE last # LastOf(m)
  <2>1. PICK x, l : x = last /\ l = SubSeq(list[m], 1, Position(m, x))
    OBVIOUS
  <2>2. /\ ClearArguments(ToSet(list[m]) \ ToSet(l)) /\ list' = [list EXCEPT ![m] = l]
        /\ UNCHANGED <<op, modules>>
    BY <1>2, <2>1 DEF RemoveMoved
  <2>3. /\ x \in ToSet(list[m]) /\ \A u \in outs[x] : Earlier(list[m], x, u)
        /\ \A i \in Ins : Earlier(list[m], x, i) => outs[i] = {}
    BY <2>1 DEF BehindLast, HasInstruction
  <2> QED BY <2>1, <2>2, <2>3, RemoveBehindKept
<1> QED BY <1>1, <1>2

LEMMA DeadKept ==
  ASSUME ProgramInv, NEW m \in UsedModules, DeadInv(m), DeadNext(m)
  PROVE  PassKept(m) /\ DeadInv(m)'
<1>1. GraphShape /\ GraphTypeOK /\ UseListsExact /\ m \in Modules
  BY ShapeOrdered DEF ProgramInv, GraphInv
<1>2. ASSUME UNCHANGED graph PROVE PassKept(m)
  BY <1>2, NothingKept, OneCall DEF graph
<1>3. CASE DeadTurn(m)
  <2>1. UNCHANGED graph /\ UNCHANGED last
    BY <1>3 DEF DeadTurn
  <2>2. turn = "next" /\ (turn' = "next" \/ (turn' = "visit" /\ last \notin leaves'))
    BY <1>3 DEF DeadTurn, AtLast
  <2>3. DeadInv(m)'
    BY <2>1, <2>2 DEF DeadInv, BehindLast, HasInstruction, graph
  <2> QED BY <1>2, <2>1, <2>3
<1>4. ASSUME NEW leaf \in leaves, DeadVisit(m, leaf) PROVE PassKept(m) /\ DeadInv(m)'
  <2>1. /\ turn = "visit" /\ BehindLast(m) /\ outs[last] = {} /\ last \notin leaves
        /\ UNCHANGED <<modules, op, last, turn>> /\ last \in ToSet(list[m]) /\ last \in Ins
    BY <1>1, <1>4, ShapeOrdered DEF DeadVisit, DeadInv, BehindLast, HasInstruction
  <2>2. CASE ~ IsDead(m, leaf)
    <3>1. leaves' \subseteq leaves /\ UNCHANGED <<args, subs, outs, list>>
      BY <1>4, <2>2 DEF DeadVisit
    <3>2. CallKept(m, <<>>)
      BY <2>1, <3>1, NothingKept
    <3> QED BY <2>1, <3>1, <3>2, OneCall DEF DeadInv, BehindLast, HasInstruction
  <2>3. CASE IsDead(m, leaf)
    <3>1. /\ leaf \in ToSet(list[m]) /\ outs[leaf] = {} /\ leaf # last /\ leaf \in Ins
          /\ ClearArguments({leaf}) /\ leaves' = (leaves \ {leaf}) \cup ArgsOf(leaf)
      BY <1>1, <1>4, <2>1, <2>3, ShapeOrdered DEF DeadVisit, IsDead, HasInstruction
    <3>2. last \notin ArgsOf(leaf)
      BY <1>1, <2>1, <3>1 DEF UseListsExact
    <3>3. \A j \in Ins : outs'[j] = outs[j] \ {leaf}
      BY <3>1, ClearOrder
    <3>4. /\ CallKept(m, <<>>) /\ last \in ToSet(list'[m])
          /\ \A x : Earlier(list'[m], last, x) => Earlier(list[m], last, x) \/ x = leaf
      <4>1. CASE Name(leaf) = "@param"
        <5>1. list' = list
          BY <1>4, <2>3, <4>1 DEF DeadVisit
        <5> QED BY <1>1, <2>1, <3>1, <5>1, ClearKept
      <4>2. CASE Name(leaf) # "@param"
        <5>1. MoveToEnd(m, leaf)
          BY <1>4, <2>3, <4>2 DEF DeadVisit
        <5>2. /\ ToSet(list'[m]) = ToSet(list[m])
              /\ \A x, y : Earlier(list'[m], y, x) <=> \/ Earlier(list[m], y, x) /\ x # leaf /\ y # leaf
                                                       \/ x = leaf /\ y \in ToSet(list[m]) \ {leaf}
          BY <1>1, <3>1, <5>1, MoveToEndIs
        <5>3. CallKept(m, <<>>)
          BY <1>1, <2>1, <3>1, <5>1, ClearMoveKept
        <5> QED BY <2>1, <5>2, <5>3
      <4> QED BY <4>1, <4>2
    <3>5. BehindLast(m)' /\ outs'[last] = {}
      <4>1. outs'[last] = {}
        BY <2>1, <3>3
      <4>2. \A x \in Ins : Earlier(list'[m], last, x) => outs'[x] = {}
        BY <2>1, <3>1, <3>3, <3>4 DEF BehindLast
      <4> QED BY <2>1, <3>4, <4>1, <4>2 DEF BehindLast, HasInstruction
    <3> QED BY <2>1, <3>1, <3>2, <3>4, <3>5, OneCall DEF DeadInv
  <2> QED BY <2>2, <2>3
<1>5. CASE DeadAdvance(m)
  <2>1. UNCHANGED graph /\ UNCHANGED last /\ turn = "visit" /\ turn' = "next"
    BY <1>5 DEF DeadAdvance
  <2>2. DeadInv(m)'
    BY <2>1 DEF DeadInv, BehindLast, HasInstruction, graph
  <2> QED BY <1>2, <2>1, <2>2
<1>6. CASE RemoveMoved(m)
  <2>1. turn = "next" /\ turn' = "removed"
    BY <1>6 DEF RemoveMoved
  <2>2. CallKept(m, <<>>)
    BY <1>1, <1>6, <2>1, RemoveMovedKept DEF DeadInv
  <2> QED BY <2>1, <2>2, OneCall DEF DeadInv
<1> QED BY <1>3, <1>4, <1>5, <1>6 DEF DeadNext

-----------------------------------------------------------------------------
(***************************************************************************)
(* eliminate_identity, find_unit_ops and propagate_constant.               *)
(***************************************************************************)

IdentityInv(m) ==
  turn # "removed" =>
    /\ BehindLast(m) /\ turn \in {"next", "move"}
    /\ turn = "move" => cursor # End
    /\ cursor # End =>
         /\ outs[last] = {} /\ HasInstruction(m, cursor) /\ ~ Earlier(list[m], last, cursor)
         /\ turn = "next" => cursor # FirstOf(m) \/ last = LastOf(m)

(* The first input of an instruction in use *)
LEMMA InputOf ==
  ASSUME ProgramInv, NEW m \in Modules, NEW i \in ToSet(list[m]), NEW k \in DOMAIN args[i]
  PROVE  /\ args[i][k] \in Live /\ Available(list, subs, m, i, args[i][k]) /\ args[i][k] \in ToSet(args[i])
         /\ i \in outs[args[i][k]]
<1>1. GraphShape /\ GraphTypeOK /\ UseListsExact /\ InputsEvaluated /\ NothingDangles
  BY DEF ProgramInv, GraphInv
<1>2. i \in Live /\ i \in Ins
  BY <1>1, LiveIs, ShapeOrdered
<1>3. args[i][k] \in ToSet(args[i])
  BY DEF ToSet
<1>4. args[i][k] \in Live /\ args[i][k] \in Ins
  BY <1>1, <1>2, <1>3 DEF NothingDangles, ArgsOf, Live
<1> QED BY <1>1, <1>2, <1>3, <1>4 DEF InputsEvaluated, InOrder, UseListsExact, ArgsOf

(* The turn that replaces an identity and moves it behind the end *)
LEMMA IdentityGone ==
  ASSUME ProgramInv, NEW m \in UsedModules, BehindLast(m), outs[last] = {},
         HasInstruction(m, cursor), ~ Earlier(list[m], last, cursor),
         NEW i, Earlier(list[m], i, cursor), IsIdentity(i),
         ReplaceInstruction(m, i, args[i][1]), MoveToEnd(m, i), UNCHANGED <<modules, cursor, last>>
  PROVE  /\ CallKept(m, <<>>) /\ BehindLast(m)' /\ outs'[last] = {}
         /\ HasInstruction(m, cursor)' /\ ~ Earlier(list'[m], last, cursor)
<1>1. GraphShape /\ GraphTypeOK /\ UseListsExact /\ m \in Modules
  BY ShapeOrdered DEF ProgramInv, GraphInv
<1>2. i \in ToSet(list[m]) /\ i # LastOf(m) /\ i # last /\ i # cursor /\ i \in Ins
  <2>1. i \in ToSet(list[m]) /\ i # cursor
    BY <1>1, OrderIn
  <2> QED BY <1>1, <2>1, EndsIn, ShapeOrdered
<1>3. 1 \in DOMAIN args[i]
  <2>1. args[i] \in Seq(Ins) /\ args[i] # <<>>
    BY <1>1, <1>2 DEF GraphTypeOK, IsIdentity
  <2> QED BY <2>1
<1>4. PICK rep : rep = args[i][1]
  OBVIOUS
<1>5. rep \in Live /\ Available(list, subs, m, i, rep) /\ rep \in Ins /\ i \in outs[rep]
  BY <1>1, <1>2, <1>3, <1>4, InputOf DEF Live
<1>6. ReplaceInstruction(m, i, rep)
  BY <1>4
<1>7. CallKept(m, <<>>)
  <2>1. UNCHANGED modules /\ MoveToEnd(m, i) /\ i # LastOf(m)
    BY <1>2
  <2> QED BY ONLY ProgramInv, m \in UsedModules, <1>5, <1>6, <2>1, ReplaceMoveKept
<1>8. /\ outs'[i] = {} /\ outs'[rep] = outs[rep] \cup outs[i]
      /\ \A j \in Ins : j # i /\ j # rep => outs'[j] = outs[j]
  <2>1. i # LastOf(m)
    BY <1>2
  <2>2. rep \in Live /\ Available(list, subs, m, i, rep)
    BY <1>5
  <2> QED BY ONLY ProgramInv, m \in UsedModules, <1>6, <2>1, <2>2, ReplaceInstructionOrder
<1>9. /\ ToSet(list'[m]) = ToSet(list[m])
      /\ \A x, y : Earlier(list'[m], y, x) <=> \/ Earlier(list[m], y, x) /\ x # i /\ y # i
                                               \/ x = i /\ y \in ToSet(list[m]) \ {i}
  BY <1>1, <1>2, MoveToEndIs
<1>10. last \in ToSet(list[m]) /\ last \in Ins /\ last # rep /\ cursor \in ToSet(list[m])
  BY <1>1, <1>5, ShapeOrdered DEF BehindLast, HasInstruction
<1>11. outs'[last] = {}
  BY <1>2, <1>8, <1>10
<1>12. \A x \in Ins : Earlier(list'[m], last, x) => outs'[x] = {}
  <2> SUFFICES ASSUME NEW x \in Ins, Earlier(list'[m], last, x) PROVE outs'[x] = {}
    OBVIOUS
  <2>1. CASE x = i
    BY <1>8, <2>1
  <2>2. CASE x # i
    <3>1. outs[x] = {}
      BY <1>9, <2>2 DEF BehindLast
    <3> QED BY <1>5, <1>8, <2>2, <3>1
  <2> QED BY <2>1, <2>2
<1>13. BehindLast(m)'
  BY <1>9, <1>10, <1>11, <1>12 DEF BehindLast, HasInstruction
<1>14. ~ Earlier(list'[m], last, cursor)
  BY <1>2, <1>9
<1> QED BY <1>7, <1>9, <1>10, <1>11, <1>13, <1>14 DEF HasInstruction

LEMMA IdentityTurnKept ==
  ASSUME ProgramInv, NEW m \in UsedModules, IdentityInv(m), IdentityTurn(m)
  PROVE  PassKept(m) /\ IdentityInv(m)'
<1>1. GraphShape /\ GraphTypeOK /\ m \in Modules
  BY ShapeOrdered DEF ProgramInv, GraphInv
<1>2. /\ turn = "next" /\ cursor # End /\ BehindLast(m) /\ outs[last] = {} /\ cursor \in ToSet(list[m])
      /\ ~ Earlier(list[m], last, cursor) /\ (cursor # FirstOf(m) \/ last = LastOf(m)) /\ last' = last
      /\ last \in ToSet(list[m])
  BY DEF IdentityTurn, IdentityInv, BehindLast, HasInstruction
<1>3. ASSUME UNCHANGED graph PROVE PassKept(m)
  BY <1>3, NothingKept, OneCall DEF graph
<1>4. CASE cursor = FirstOf(m)
  <2>1. cursor' = NextOf(m, cursor) /\ UNCHANGED graph /\ turn' = turn /\ last = LastOf(m)
    BY <1>2, <1>4 DEF IdentityTurn
  <2>2. cursor' # End => cursor' \in ToSet(list[m]) /\ Earlier(list[m], cursor, cursor')
    BY <1>1, <1>2, <2>1, NextOfIs
  <2>3. \A x : ~ Earlier(list[m], last, x)
    BY <1>1, <1>2, <2>1, EndsIn
  <2>4. cursor' # End => cursor' # FirstOf(m)
    BY <1>1, <1>2, <2>2, EndsIn
  <2>5. IdentityInv(m)'
    BY <1>2, <2>1, <2>2, <2>3, <2>4 DEF IdentityInv, BehindLast, HasInstruction, FirstOf, LastOf, graph
  <2> QED BY <1>3, <2>1, <2>5
<1>5. CASE cursor # FirstOf(m)
  <2>1. PICK i : i = PrevOf(m, cursor)
    OBVIOUS
  <2>2. Earlier(list[m], i, cursor)
    BY <1>1, <1>2, <1>5, <2>1, PrevOfIs
  <2>3. turn' = "move" /\ cursor' = cursor
    BY <1>5 DEF IdentityTurn
  <2>4. CASE ~ IsIdentity(i)
    <3>1. UNCHANGED graph
      BY <1>5, <2>1, <2>4 DEF IdentityTurn
    <3>2. IdentityInv(m)'
      BY <1>2, <2>3, <3>1 DEF IdentityInv, BehindLast, HasInstruction, graph
    <3> QED BY <1>3, <3>1, <3>2
  <2>5. CASE IsIdentity(i)
    <3>1. ReplaceInstruction(m, i, args[i][1]) /\ MoveToEnd(m, i) /\ UNCHANGED modules
      BY <1>5, <2>1, <2>5 DEF IdentityTurn
    <3>2. /\ CallKept(m, <<>>) /\ BehindLast(m)' /\ outs'[last] = {}
          /\ HasInstruction(m, cursor)' /\ ~ Earlier(list'[m], last, cursor)
      BY <1>2, <2>2, <2>3, <2>5, <3>1, IdentityGone DEF HasInstruction
    <3>3. IdentityInv(m)'
      BY <1>2, <2>3, <3>2 DEF IdentityInv
    <3> QED BY <3>2, <3>3, OneCall
  <2> QED BY <2>4, <2>5
<1> QED BY <1>4, <1>5

LEMMA IdentityMoveKept ==
  ASSUME ProgramInv, NEW m \in UsedModules, IdentityInv(m), IdentityMove(m)
  PROVE  PassKept(m) /\ IdentityInv(m)'
<1>1. GraphShape /\ GraphTypeOK /\ m \in Modules /\ UseListsExact /\ Ordered(list, subs)
  BY ShapeOrdered DEF ProgramInv, GraphInv
<1>2. /\ turn = "move" /\ cursor # End /\ BehindLast(m) /\ outs[last] = {} /\ cursor \in ToSet(list[m])
      /\ ~ Earlier(list[m], last, cursor) /\ last \in ToSet(list[m]) /\ turn' = "next"
      /\ UNCHANGED <<modules, op, args, subs, outs>>
  BY DEF IdentityMove, IdentityInv, BehindLast, HasInstruction
<1>3. CASE ~ TakesPlace
  <2>1. UNCHANGED <<list, last>>
    BY <1>3 DEF IdentityMove
  <2>2. CallKept(m, <<>>)
    BY <1>2, <2>1, NothingKept
  <2>3. BehindLast(m)'
    BY <1>2, <2>1 DEF BehindLast, HasInstruction
  <2>4. CASE cursor = last
    BY <1>2, <2>2, <2>3, <2>4, OneCall DEF IdentityMove, IdentityInv
  <2>5. CASE cursor # last
    <3>1. Earlier(list[m], cursor, last) /\ cursor' = NextOf(m, cursor)
      BY <1>1, <1>2, <2>5, OrderIn DEF IdentityMove
    <3>2. cursor # LastOf(m)
      BY <1>1, <1>2, <3>1, EndsIn
    <3>3. /\ cursor' \in ToSet(list[m]) /\ Earlier(list[m], cursor, cursor')
          /\ last = cursor' \/ Earlier(list[m], cursor', last)
      BY <1>1, <1>2, <3>1, <3>2, NextOfIs
    <3>4. ~ Earlier(list[m], last, cursor')
      BY <1>1, <3>3, OrderIn
    <3>5. cursor' # FirstOf(m)
      BY <1>1, <3>3, EndsIn
    <3>6. IdentityInv(m)'
      BY <1>2, <2>1, <2>3, <3>3, <3>4, <3>5 DEF IdentityInv, HasInstruction, FirstOf, LastOf
    <3> QED BY <2>2, <3>6, OneCall
  <2> QED BY <2>4, <2>5
<1>4. CASE TakesPlace
  <2>1. PICK x, z : x = args[last][1] /\ z = last
    OBVIOUS
  <2>2. /\ cursor = last /\ cursor' = End /\ IsIdentity(last) /\ Cardinality(outs[x]) = 1
        /\ HasInstruction(m, x) /\ last' = x
        /\ list' = [list EXCEPT ![m] = InsertAt(RemoveAt(list[m], Position(m, x)), Position(m, z) - 1, x)]
    BY <1>4, <2>1 DEF IdentityMove, TakesPlace
  <2>3. last \in Ins
    BY <1>1, <1>2, ShapeOrdered
  <2>4. args[last] \in Seq(Ins) /\ args[last] # <<>>
    BY <1>1, <2>2, <2>3 DEF GraphTypeOK, IsIdentity
  <2>5. 1 \in DOMAIN args[last]
    BY <2>4
  <2>6. x \in Ins /\ Available(list, subs, m, z, x) /\ z \in outs[x]
    BY <1>1, <1>2, <2>1, <2>5, InputOf DEF Live
  <2>7. Earlier(list[m], x, z)
    BY <1>1, <1>2, <2>1, <2>2, <2>6, NotBeforeItself DEF HasInstruction, UsedModules
  <2>8. outs[x] = {z}
    <3>1. IsFiniteSet(outs[x])
      BY <1>1, <2>6, InsAssumption, FS_Subset DEF GraphTypeOK
    <3>2. PICK e : outs[x] = {e}
      BY <2>2, <3>1, FS_Singleton
    <3> QED BY <2>6, <3>2
  <2>9. /\ CallKept(m, <<>>) /\ \A h \in Modules : ToSet(list'[h]) = ToSet(list[h])
        /\ Earlier(list'[m], x, z)
        /\ \A i : Earlier(list'[m], x, i) <=> i = z \/ Earlier(list[m], z, i)
    BY <1>2, <2>2, <2>7, <2>8, MoveBeforeKept
  <2>10. BehindLast(m)'
    <3>1. x \in ToSet(list'[m])
      BY <1>1, <2>2, <2>9 DEF HasInstruction
    <3>2. \A i \in Ins : Earlier(list'[m], x, i) => outs'[i] = {}
      BY <1>2, <2>1, <2>9 DEF BehindLast
    <3>3. \A u \in outs'[x] : Earlier(list'[m], x, u)
      BY <1>2, <2>8, <2>9
    <3> QED BY <2>2, <3>1, <3>2, <3>3 DEF BehindLast, HasInstruction
  <2>11. IdentityInv(m)'
    BY <1>2, <2>2, <2>10 DEF IdentityInv
  <2> QED BY <2>9, <2>11, OneCall
<1> QED BY <1>3, <1>4

LEMMA IdentityKept ==
  ASSUME ProgramInv, NEW m \in UsedModules, IdentityInv(m), IdentityNext(m)
  PROVE  PassKept(m) /\ IdentityInv(m)'
<1>1. CASE RemoveMoved(m)
  <2>1. turn = "next" /\ turn' = "removed"
    BY <1>1 DEF RemoveMoved
  <2>2. CallKept(m, <<>>)
    BY <1>1, <2>1, RemoveMovedKept, ShapeOrdered DEF IdentityInv, ProgramInv
  <2> QED BY <2>1, <2>2, OneCall DEF IdentityInv
<1> QED BY <1>1, IdentityTurnKept, IdentityMoveKept DEF IdentityNext

-----------------------------------------------------------------------------
LEMMA UnitKept ==
  ASSUME ProgramInv, NEW m \in UsedModules, m = Mod, UnitTurn PROVE PassKept(m)
<1>1. GraphShape /\ GraphTypeOK /\ m \in Modules
  BY ShapeOrdered DEF ProgramInv, GraphInv
<1>2. CASE UnitOf(cursor) = End
  BY <1>2, NothingKept, OneCall DEF UnitTurn, graph
<1>3. CASE UnitOf(cursor) # End
  <2>1. PICK i, rep : i = cursor /\ rep = UnitOf(i) /\ rep # End
    BY <1>3
  <2>2. ReplaceInstruction(m, i, rep) /\ UNCHANGED <<modules, list>>
    BY <1>3, <2>1 DEF UnitTurn
  <2>3. i \in ToSet(list[m])
    BY <2>2 DEF ReplaceInstruction, HasInstruction
  <2>4. i \in Ins
    BY <1>1, <2>3, ShapeOrdered
  <2>5. args[i] \in Seq(Ins)
    BY <1>1, <2>4 DEF GraphTypeOK
  <2>6. Len(args[i]) = 2 /\ (rep = args[i][1] \/ rep = args[i][2])
    BY <2>1 DEF UnitOf
  <2>7. 1 \in DOMAIN args[i] /\ 2 \in DOMAIN args[i]
    BY <2>5, <2>6
  <2>8. rep \in Live /\ Available(list, subs, m, i, rep)
    BY <1>1, <2>3, <2>6, <2>7, InputOf
  <2> QED BY <2>2, <2>8, ReplaceKept, OneCall
<1> QED BY <1>2, <1>3

LEMMA ConstKept ==
  ASSUME ProgramInv, NEW m \in UsedModules, ConstNext(m) PROVE PassKept(m)
<1>1. GraphShape /\ Ends /\ m \in Modules
  BY ShapeOrdered DEF ProgramInv
<1>2. ASSUME UNCHANGED graph PROVE PassKept(m)
  BY <1>2, NothingKept, OneCall DEF graph
<1>3. CASE ConstAdd(m)
  <2>1. PICK i, o : AddFirst(m, i, o) /\ UNCHANGED modules
    BY <1>3 DEF ConstAdd, AddLiteral
  <2> QED BY <1>1, <2>1, AddFirstKept, OneCall
<1>4. CASE ConstReplace(m)
  <2>1. PICK i, rep : i = const_instrs[next] /\ rep = FirstOf(m)
    OBVIOUS
  <2>2. ReplaceInstruction(m, i, rep) /\ UNCHANGED <<modules, list>>
    BY <1>4, <2>1 DEF ConstReplace
  <2>3. i \in ToSet(list[m]) /\ i # rep
    BY <2>2 DEF ReplaceInstruction, HasInstruction
  <2>4. Earlier(list[m], rep, i)
    BY <1>1, <2>1, <2>3, EndsIn
  <2>5. rep \in Live
    BY <1>1, <2>4, OrderIn, LiveIs
  <2> QED BY <2>2, <2>4, <2>5, ReplaceKept, OneCall DEF Available
<1> QED BY <1>2, <1>3, <1>4 DEF ConstNext, ConstSpawn, ConstEval, ConstJoin

-----------------------------------------------------------------------------
(***************************************************************************)
(* eliminate_common_subexpression.                                         *)
(***************************************************************************)

FrameInv(m, f) ==
  /\ f.todo \subseteq ToSet(list[m]) /\ f.found \subseteq f.instructions
  /\ f.instructions \subseteq ToSet(list[m])
  /\ \A e \in f.instructions, y \in f.todo : Earlier(list[m], e, y)
  /\ f.ins # End => /\ f.ins \in ToSet(list[m])
                    /\ \A e \in f.instructions : Earlier(list[m], e, f.ins)
                    /\ \A y \in f.todo : Earlier(list[m], f.ins, y)

(* The calls of cse_range: what they have been through comes before what   *)
(* they have not, so what is replaced is replaced by something earlier.    *)
CseFrames(m) ==
  {f \in [todo : SUBSET Ins, ins : Ins \cup {End}, found : SUBSET Ins,
          instructions : SUBSET Ins, processed_ins : SUBSET Ins] : FrameInv(m, f)}

CseInv(m) == stack # <<>> /\ stack \in Seq(CseFrames(m))

LEMMA TopOf ==
  ASSUME NEW S, NEW s \in Seq(S), s # <<>>
  PROVE  /\ Last(s) \in S /\ Front(s) \in Seq(S)
         /\ \A c \in S : Append(Front(s), c) \in Seq(S) /\ Append(Front(s), c) # <<>>
         /\ \A c, d \in S : Front(s) \o <<c, d>> \in Seq(S) /\ Front(s) \o <<c, d>> # <<>>
         /\ Len(s) > 1 => Front(s) # <<>>
<1>1. Len(s) \in Nat /\ Len(s) >= 1 /\ Len(s) \in DOMAIN s
  OBVIOUS
<1>2. Last(s) \in S
  BY <1>1 DEF Last
<1>3. Front(s) \in Seq(S) /\ (Len(s) > 1 => Front(s) # <<>>)
  <2>1. PICK u, v : u = 1 /\ v = Len(s) - 1
    OBVIOUS
  <2>2. Front(s) = SubSeq(s, u, v)
    BY <2>1 DEF Front
  <2>3. \A k \in u..v : s[k] \in S
    BY <1>1, <2>1
  <2>4. SubSeq(s, u, v) \in Seq(S) /\ Len(SubSeq(s, u, v)) = Len(s) - 1
    BY <1>1, <2>1, <2>3
  <2>5. Len(s) > 1 => Len(SubSeq(s, u, v)) # 0
    BY <1>1, <2>4
  <2> QED BY <2>2, <2>4, <2>5
<1> DEFINE f == Front(s)
<1> HIDE DEF f
<1>4. \A c \in S : Append(f, c) \in Seq(S) /\ Append(f, c) # <<>>
  BY <1>3 DEF f
<1>5. \A c, d \in S : f \o <<c, d>> \in Seq(S) /\ f \o <<c, d>> # <<>>
  <2> SUFFICES ASSUME NEW c \in S, NEW d \in S PROVE f \o <<c, d>> \in Seq(S) /\ f \o <<c, d>> # <<>>
    OBVIOUS
  <2>1. f \in Seq(S) /\ <<c, d>> \in Seq(S) /\ Len(<<c, d>>) = 2
    BY <1>3 DEF f
  <2>2. f \o <<c, d>> \in Seq(S) /\ Len(f \o <<c, d>>) = Len(f) + 2 /\ Len(f) \in Nat
    BY <2>1, ConcatProperties
  <2>3. Len(f \o <<c, d>>) # 0
    BY <2>2
  <2> QED BY <2>2, <2>3
<1> QED BY <1>2, <1>3, <1>4, <1>5 DEF f

LEMMA CseStarts ==
  ASSUME GraphShape, NEW m \in Modules, CseStart(m), UNCHANGED graph PROVE CseInv(m)'
<1>1. ToSet(list[m]) \subseteq Ins
  BY ShapeOrdered
<1> DEFINE f == Frame(ToSet(list[m]))
<1>2. /\ f \in [todo : SUBSET Ins, ins : Ins \cup {End}, found : SUBSET Ins,
                instructions : SUBSET Ins, processed_ins : SUBSET Ins]
      /\ FrameInv(m, f)
  BY <1>1 DEF Frame, FrameInv
<1>3. f \in CseFrames(m) /\ stack' = <<f>>
  BY <1>2 DEF CseFrames, CseStart
<1>4. CseFrames(m)' = CseFrames(m)
  BY DEF CseFrames, FrameInv, graph
<1> HIDE DEF f
<1>5. PICK F : F = CseFrames(m)
  OBVIOUS
<1>6. stack' \in Seq(F) /\ stack' # <<>>
  BY <1>3, <1>5
<1> QED BY <1>4, <1>5, <1>6 DEF CseInv

LEMMA CseKept ==
  ASSUME ProgramInv, NEW m \in UsedModules, CseInv(m), CseNext(m)
  PROVE  PassKept(m) /\ CseInv(m)'
<1>1. GraphShape /\ m \in Modules
  BY ShapeOrdered DEF ProgramInv
<1>2. PICK F : F = CseFrames(m)
  OBVIOUS
<1>3. stack # <<>> /\ stack \in Seq(F)
  BY <1>2 DEF CseInv
<1>4. /\ Top \in F /\ Front(stack) \in Seq(F)
      /\ \A c \in F : Append(Front(stack), c) \in Seq(F) /\ Append(Front(stack), c) # <<>>
      /\ \A c, d \in F : Front(stack) \o <<c, d>> \in Seq(F) /\ Front(stack) \o <<c, d>> # <<>>
      /\ Len(stack) > 1 => Front(stack) # <<>>
  BY <1>3, TopOf DEF Top
<1>5. PICK t : t = Top
  OBVIOUS
<1>6. /\ t \in [todo : SUBSET Ins, ins : Ins \cup {End}, found : SUBSET Ins,
                instructions : SUBSET Ins, processed_ins : SUBSET Ins]
      /\ FrameInv(m, t) /\ t \in F
  BY <1>2, <1>4, <1>5 DEF CseFrames
<1>7. ASSUME NEW f \in [todo : SUBSET Ins, ins : Ins \cup {End}, found : SUBSET Ins,
                        instructions : SUBSET Ins, processed_ins : SUBSET Ins], FrameInv(m, f)
      PROVE  f \in F
  BY <1>2, <1>7 DEF CseFrames
<1>8. ASSUME UNCHANGED list, stack' \in Seq(F), stack' # <<>> PROVE CseInv(m)'
  <2>1. CseFrames(m)' = F
    BY <1>2, <1>8 DEF CseFrames, FrameInv
  <2> QED BY <1>8, <2>1 DEF CseInv
<1>9. ASSUME UNCHANGED graph PROVE PassKept(m) /\ UNCHANGED list
  BY <1>9, NothingKept, OneCall DEF graph
<1>10. ToSet(list[m]) \subseteq Ins
  BY <1>1, ShapeOrdered
<1>11. CASE CseTake(m)
  <2>1. PICK i \in t.todo :
          /\ t.ins = End /\ \A j \in t.todo : ~ Earlier(list[m], j, i)
          /\ \E c : stack' = Append(Front(stack), c) /\
               \/ c = [t EXCEPT !.todo = @ \ {i}]
               \/ c = [t EXCEPT !.todo = @ \ {i}, !.ins = i,
                                !.found = {j \in t.instructions : Name(j) = Name(i)}]
    BY <1>5, <1>11 DEF CseTake, IsFirst, SetTop
  <2>2. i \in ToSet(list[m]) /\ i \in Ins /\ i # End /\ \A y \in t.todo \ {i} : Earlier(list[m], i, y)
    <3>1. i \in ToSet(list[m]) /\ t.todo \subseteq ToSet(list[m])
      BY <1>6, <2>1 DEF FrameInv
    <3>2. \A y \in t.todo : y = i \/ Earlier(list[m], i, y) \/ Earlier(list[m], y, i)
      BY <1>1, <3>1, OrderIn
    <3> QED BY <1>10, <2>1, <3>1, <3>2, EndAssumption
  <2>3. [t EXCEPT !.todo = @ \ {i}] \in F
    <3> DEFINE c == [t EXCEPT !.todo = @ \ {i}]
    <3>1. c \in [todo : SUBSET Ins, ins : Ins \cup {End}, found : SUBSET Ins,
                 instructions : SUBSET Ins, processed_ins : SUBSET Ins]
      BY <1>6
    <3>2. /\ c.todo = t.todo \ {i} /\ c.ins = t.ins /\ c.found = t.found /\ c.instructions = t.instructions
      BY <1>6
    <3> HIDE DEF c
    <3>3. FrameInv(m, c)
      BY <1>6, <2>1, <3>2 DEF FrameInv
    <3> QED BY <1>7, <3>1, <3>3 DEF c
  <2>4. PICK found : found = {j \in t.instructions : Name(j) = Name(i)}
    OBVIOUS
  <2>5. [t EXCEPT !.todo = @ \ {i}, !.ins = i, !.found = found] \in F
    <3> DEFINE c == [t EXCEPT !.todo = @ \ {i}, !.ins = i, !.found = found]
    <3>0. found \subseteq t.instructions /\ t.instructions \subseteq Ins
      BY <1>6, <2>4
    <3>1. c \in [todo : SUBSET Ins, ins : Ins \cup {End}, found : SUBSET Ins,
                 instructions : SUBSET Ins, processed_ins : SUBSET Ins]
      BY <1>6, <2>2, <3>0
    <3>2. /\ c.todo = t.todo \ {i} /\ c.ins = i /\ c.found = found /\ c.instructions = t.instructions
      BY <1>6
    <3> HIDE DEF c
    <3>3. FrameInv(m, c)
      BY <1>6, <2>1, <2>2, <3>0, <3>2 DEF FrameInv
    <3> QED BY <1>7, <3>1, <3>3 DEF c
  <2>6. stack' \in Seq(F) /\ stack' # <<>>
    BY <1>4, <2>1, <2>3, <2>4, <2>5
  <2>7. UNCHANGED graph
    BY <1>11 DEF CseTake
  <2> QED BY <1>8, <1>9, <2>6, <2>7
<1>12. ASSUME NEW eq \in Top.found, CseMatch(m, eq) PROVE PassKept(m) /\ CseInv(m)'
  <2>1. PICK i, g, h :
          /\ i = t.ins /\ i # End /\ ReplaceInstruction(m, i, eq) /\ UNCHANGED <<modules, list>>
          /\ g = [t EXCEPT !.found = @ \ {eq}, !.processed_ins = @ \cup {i}]
          /\ h = Frame(outs'[eq] \cap ToSet(list[m])) /\ stack' = Front(stack) \o <<g, h>>
    BY <1>5, <1>12 DEF CseMatch
  <2>2. Earlier(list[m], eq, i) /\ i \in Ins /\ i \in ToSet(list[m])
    BY <1>5, <1>6, <1>10, <1>12, <2>1 DEF FrameInv
  <2>3. eq \in Live
    BY <1>1, <2>2, OrderIn, LiveIs
  <2>4. CallKept(m, <<>>)
    BY <2>1, <2>2, <2>3, ReplaceKept DEF Available
  <2>5. g \in F
    <3>1. g \in [todo : SUBSET Ins, ins : Ins \cup {End}, found : SUBSET Ins,
                 instructions : SUBSET Ins, processed_ins : SUBSET Ins]
      BY <1>6, <2>1, <2>2
    <3>2. /\ g.todo = t.todo /\ g.ins = t.ins /\ g.found \subseteq t.found
          /\ g.instructions = t.instructions
      BY <1>6, <2>1
    <3>3. FrameInv(m, g)
      BY <1>6, <3>2 DEF FrameInv
    <3> QED BY <1>7, <3>1, <3>3
  <2>6. h \in F
    <3>1. PICK range : range = outs'[eq] \cap ToSet(list[m])
      OBVIOUS
    <3>2. h = Frame(range) /\ range \subseteq ToSet(list[m])
      BY <2>1, <3>1
    <3>3. /\ h \in [todo : SUBSET Ins, ins : Ins \cup {End}, found : SUBSET Ins,
                    instructions : SUBSET Ins, processed_ins : SUBSET Ins]
          /\ FrameInv(m, h)
      BY <1>10, <3>2 DEF Frame, FrameInv
    <3> QED BY <1>7, <3>3
  <2>7. stack' \in Seq(F) /\ stack' # <<>>
    BY <1>4, <2>1, <2>5, <2>6
  <2> QED BY <1>8, <2>1, <2>4, <2>7, OneCall
<1>13. CASE CseAdd
  <2>1. PICK i : i = t.ins
    OBVIOUS
  <2>2. i # End /\ UNCHANGED graph
    BY <1>5, <1>13, <2>1 DEF CseAdd
  <2> DEFINE c == [t EXCEPT !.ins = End, !.found = {}, !.instructions = @ \cup {i}]
  <2>3. c \in [todo : SUBSET Ins, ins : Ins \cup {End}, found : SUBSET Ins,
               instructions : SUBSET Ins, processed_ins : SUBSET Ins]
    BY <1>6, <2>1, <2>2
  <2>4. /\ c.todo = t.todo /\ c.ins = End /\ c.found = {} /\ c.instructions = t.instructions \cup {i}
    BY <1>6
  <2>5. stack' = Append(Front(stack), c)
    BY <1>5, <1>13, <2>1 DEF CseAdd, SetTop
  <2> HIDE DEF c
  <2>6. FrameInv(m, c)
    BY <1>6, <2>1, <2>2, <2>4 DEF FrameInv
  <2>7. c \in F
    BY <1>7, <2>3, <2>6
  <2>8. stack' \in Seq(F) /\ stack' # <<>>
    BY <1>4, <2>5, <2>7
  <2> QED BY <1>8, <1>9, <2>2, <2>8
<1>14. CASE CseReturn
  <2>1. stack' \in Seq(F) /\ stack' # <<>> /\ UNCHANGED graph
    BY <1>4, <1>14 DEF CseReturn
  <2> QED BY <1>8, <1>9, <2>1
<1> QED BY <1>11, <1>12, <1>13, <1>14 DEF CseNext

-----------------------------------------------------------------------------
(***************************************************************************)
(* promote_literals.                                                       *)
(***************************************************************************)

CursorIn(m) == cursor = End \/ cursor \in ToSet(list[m])

NoneCopied == copy = NoCopies /\ results = <<>>

PromoteInv(m) ==
  /\ CursorIn(m) /\ turn \in {"next", "replace"}
  /\ turn = "next" => NoneCopied
  /\ turn = "replace" =>
       /\ cursor # End /\ users \subseteq outs[cursor] /\ m # Main
       /\ results[1] = FirstOf(Main) /\ FirstOf(Main) # LastOf(Main)
       /\ args[FirstOf(Main)] = <<>> /\ subs[FirstOf(Main)] = <<>>

LEMMA NextStaysIn ==
  ASSUME GraphShape, NEW m \in Modules, CursorIn(m), cursor # End, cursor' = NextOf(m, cursor),
         UNCHANGED list
  PROVE  CursorIn(m)'
<1>1. cursor \in ToSet(list[m])
  BY DEF CursorIn
<1> QED BY <1>1, NextOfIs DEF CursorIn

LEMMA WalkStarts ==
  ASSUME ProgramInv, NEW m \in UsedModules, WalkStart(m), UNCHANGED graph, UNCHANGED inline, NoneCopied
  PROVE  CursorIn(m)' /\ turn' = "next" /\ NoneCopied'
<1>1. HasInstruction(m, cursor)' /\ turn' = "next"
  BY StartsAtLast
<1> QED BY <1>1 DEF CursorIn, HasInstruction, NoneCopied, NoCopies, inline

LEMMA PromoteTurnKept ==
  ASSUME ProgramInv, NEW m \in UsedModules, PromoteInv(m), PromoteTurn(m)
  PROVE  PassKept(m) /\ PromoteInv(m)'
<1>1. GraphShape /\ GraphTypeOK /\ Ends /\ m \in Modules /\ Main \in UsedModules /\ Main \in Modules
  BY ShapeOrdered, MainAssumption DEF ProgramInv, GraphInv
<1>2. cursor # End /\ turn = "next" /\ cursor \in ToSet(list[m]) /\ NoneCopied /\ UNCHANGED copy
  BY DEF PromoteTurn, PromoteInv, CursorIn
<1>3. CASE ~ (Name(cursor) = "@literal" /\ m # Main)
  <2>1. /\ UNCHANGED <<graph, results, turn>> /\ (cursor' = End \/ cursor' = NextOf(m, cursor))
    BY <1>3 DEF PromoteTurn
  <2>2. CursorIn(m)'
    BY <1>1, <1>2, <2>1, NextStaysIn DEF PromoteInv, CursorIn, graph
  <2>3. PassKept(m)
    BY <2>1, NothingKept, OneCall DEF graph
  <2> QED BY <1>2, <2>1, <2>2, <2>3 DEF PromoteInv, NoneCopied, NoCopies
<1>4. CASE Name(cursor) = "@literal" /\ m # Main
  <2>1. PICK i, o : /\ AddFirst(Main, i, o) /\ UNCHANGED <<modules, cursor>> /\ results' = <<i>>
                    /\ users' = outs[cursor] /\ turn' = "replace"
    BY <1>4 DEF PromoteTurn, AddLiteral
  <2>2. CallKept(m, <<>>)
    BY <1>1, <2>1, AddFirstKept
  <2>3. /\ i \in Ins \ Live /\ FirstOf(Main)' = i /\ LastOf(Main)' = LastOf(Main)
        /\ \A h \in Modules \ {Main} : list'[h] = list[h]
        /\ args'[i] = <<>> /\ subs'[i] = <<>> /\ outs' = outs
    <3>1. UNCHANGED modules /\ AddFirst(Main, i, o) /\ Main \in UsedModules
      BY <1>1, <2>1
    <3>2. /\ i \in Ins \ Live /\ FirstOf(Main)' = i /\ LastOf(Main)' = LastOf(Main)
          /\ \A h \in Modules \ {Main} : list'[h] = list[h]
          /\ \A u \in Ins : /\ args'[u] = IF u = i THEN <<>> ELSE args[u]
                            /\ subs'[u] = IF u = i THEN <<>> ELSE subs[u]
          /\ outs' = outs
      BY ONLY ProgramInv, <3>1, AddFirstOrder
    <3> QED BY <3>2
  <2>4. LastOf(Main) \in Live
    <3>1. LastOf(Main) \in ToSet(list[Main])
      BY <1>1, ShapeOrdered, EndsOf DEF Ends, LastOf
    <3> QED BY <1>1, <3>1, LiveIs
  <2>5. CursorIn(m)' /\ cursor' # End
    BY <1>1, <1>2, <1>4, <2>1, <2>3 DEF CursorIn
  <2>6. users' \subseteq outs'[cursor'] /\ results'[1] = i
    BY <2>1, <2>3
  <2>7. FirstOf(Main)' # LastOf(Main)'
    BY <2>3, <2>4
  <2>8. PromoteInv(m)'
    BY <1>4, <2>1, <2>3, <2>5, <2>6, <2>7 DEF PromoteInv
  <2> QED BY <2>2, <2>8, OneCall
<1> QED BY <1>3, <1>4

LEMMA PromoteReplaceKept ==
  ASSUME ProgramInv, NEW m \in UsedModules, PromoteInv(m), NEW user, PromoteReplace(user)
  PROVE  PassKept(m) /\ PromoteInv(m)'
<1>1. GraphShape /\ GraphTypeOK /\ Ends /\ m \in Modules /\ Main \in UsedModules /\ Main \in Modules
  BY ShapeOrdered, MainAssumption DEF ProgramInv, GraphInv
<1>2. PICK i, lit : i = cursor /\ lit = results[1]
  OBVIOUS
<1>3. /\ user \in users /\ users \subseteq outs[i] /\ i # End /\ m # Main /\ i \in ToSet(list[m])
      /\ lit = FirstOf(Main) /\ lit # LastOf(Main) /\ args[lit] = <<>> /\ subs[lit] = <<>>
  BY <1>2 DEF PromoteReplace, PromoteInv, CursorIn
<1>4. /\ ReplaceArgumentIn({user}, i, lit) /\ users' = users \ {user}
      /\ UNCHANGED <<modules, list, op, subs, cursor, turn, results>>
  BY <1>2 DEF PromoteReplace, walk
<1>5. lit \in ToSet(list[Main]) /\ i \in Live
  <2>1. list[Main] # <<>> /\ list[Main] \in Seq(Ins) /\ IsInjective(list[Main])
    BY <1>1, ShapeOrdered DEF Ends
  <2> QED BY <1>1, <1>3, <2>1, EndsOf, LiveIs DEF FirstOf
<1>6. i # lit
  BY <1>1, <1>3, <1>5, SameHome DEF GraphShape
<1>7. CallKept(m, <<>>) /\ args'[lit] = <<>> /\ outs'[i] = outs[i] \ {user}
  BY <1>1, <1>3, <1>4, <1>5, <1>6, PromoteKept
<1>8. PromoteInv(m)'
  <2>1. FirstOf(Main)' = lit /\ LastOf(Main)' = LastOf(Main) /\ cursor' = i /\ results'[1] = lit /\ turn' = "replace"
    BY <1>2, <1>3, <1>4 DEF FirstOf, LastOf, PromoteReplace
  <2>2. users' \subseteq outs'[i] /\ subs'[lit] = <<>> /\ CursorIn(m)'
    BY <1>3, <1>4, <1>7, <2>1 DEF CursorIn
  <2> QED BY <1>3, <1>7, <2>1, <2>2 DEF PromoteInv
<1> QED BY <1>7, <1>8, OneCall

LEMMA AdvanceKept ==
  ASSUME ProgramInv, NEW m \in UsedModules, InlineAdvance(m), CursorIn(m), cursor # End
  PROVE  PassKept(m) /\ CursorIn(m)' /\ turn' = "next" /\ NoneCopied'
<1>1. UNCHANGED graph /\ cursor' = NextOf(m, cursor) /\ turn' = "next" /\ NoneCopied'
  BY DEF InlineAdvance, NoneCopied, NoCopies
<1>2. PassKept(m)
  BY <1>1, NothingKept, OneCall DEF graph
<1>3. GraphShape /\ m \in Modules /\ UNCHANGED list
  BY <1>1, ShapeOrdered DEF ProgramInv, graph
<1> QED BY <1>1, <1>2, <1>3, NextStaysIn

LEMMA PromoteNextKept ==
  ASSUME ProgramInv, NEW m \in UsedModules, PromoteInv(m), PromoteNext(m)
  PROVE  PassKept(m) /\ PromoteInv(m)'
<1>1. CASE InlineAdvance(m)
  <2>1. CursorIn(m) /\ cursor # End
    BY <1>1 DEF InlineAdvance, PromoteInv
  <2>2. PassKept(m) /\ CursorIn(m)' /\ turn' = "next" /\ NoneCopied'
    BY <1>1, <2>1, AdvanceKept
  <2> QED BY <2>2 DEF PromoteInv
<1> QED BY <1>1, PromoteTurnKept, PromoteReplaceKept DEF PromoteNext

-----------------------------------------------------------------------------
(***************************************************************************)
(* inline_module.                                                          *)
(***************************************************************************)

(* What is copied is in front of the cursor, and the rest of the branch is *)
(* in its order.                                                           *)
CopyInv(m, b) ==
  /\ b # m /\ IsLeaf(b)
  /\ rest \in Seq(Ins) /\ IsInjective(rest) /\ ToSet(rest) \subseteq ToSet(list[b])
  /\ \A i, j \in ToSet(rest) : Earlier(rest, i, j) <=> Earlier(list[b], i, j)
  /\ DOMAIN copy = Ins
  /\ \A i \in Ins : IF HasInstruction(b, i) /\ i \notin ToSet(rest)
                      THEN copy[i] # End /\ Earlier(list[m], copy[i], cursor)
                      ELSE copy[i] = End
  /\ \A k \in DOMAIN results : Earlier(list[m], results[k], cursor)

(* The results are evaluated before the `if`. *)
ResultsInv(m) ==
  \A k \in DOMAIN results : results[k] \in Live /\ Available(list, subs, m, cursor, results[k])

InlineInv(m) ==
  /\ CursorIn(m) /\ turn \in {"next", "copy", "replace"}
  /\ turn = "next" => NoneCopied
  /\ turn = "copy" => cursor # End /\ \E b \in ToSet(subs[cursor]) : CopyInv(m, b)
  /\ turn = "replace" => cursor # End /\ users \subseteq outs[cursor] /\ ResultsInv(m)

LEMMA HungInUse ==
  ASSUME GraphShape, NEW m \in UsedModules, NEW x \in ToSet(list[m]), NEW b \in ToSet(subs[x])
  PROVE  b \in UsedModules /\ b \in Modules
<1>1. m \in Modules /\ Ordered(list, subs) /\ UsedModules \subseteq Modules
      /\ ToSet(list[m]) \subseteq Ins
  BY ShapeOrdered
<1>2. ~ Earlier(list[m], End, x)
  <2>1. Earlier(list[m], End, x) => End \in ToSet(list[m])
    BY <1>1, OrderIn
  <2> QED BY <1>1, <2>1, EndAssumption
<1>3. b \in UsedModules
  BY <1>1, <1>2, EnteredNext DEF UsedModules, Used, Ordered
<1> QED BY <1>1, <1>3

(* What an instruction of the branch uses, as its copy does, is available  *)
(* in front of the `if`.                                                   *)
LEMMA CopiedAvailable ==
  ASSUME ProgramInv, NEW m \in UsedModules, cursor \in ToSet(list[m]),
         NEW b \in ToSet(subs[cursor]), CopyInv(m, b), rest # <<>>,
         NEW k \in DOMAIN args[Head(rest)]
  PROVE  /\ Copied(args[Head(rest)][k]) \in Live
         /\ Available(list, subs, m, cursor, Copied(args[Head(rest)][k]))
         /\ Copied(args[Head(rest)][k]) \notin ToSet(list[b])
<1>1. GraphShape /\ GraphTypeOK /\ m \in Modules /\ Ordered(list, subs)
  BY ShapeOrdered DEF ProgramInv, GraphInv
<1>2. PICK c, x : c = cursor /\ x = Head(rest) /\ c \in ToSet(list[m]) /\ b \in ToSet(subs[c])
  OBVIOUS
<1>3. b \in UsedModules /\ b \in Modules
  BY <1>1, <1>2, HungInUse
<1>4. rest \in Seq(Ins) /\ IsInjective(rest)
  BY DEF CopyInv
<1>5. x \in ToSet(rest) /\ \A y : ~ Earlier(rest, y, x)
  BY <1>2, <1>4, EndsOf
<1>6. x \in ToSet(list[b])
  BY <1>5 DEF CopyInv
<1>7. PICK j : j = args[x][k]
  OBVIOUS
<1>8. k \in DOMAIN args[x]
  BY <1>2
<1>9. j \in Live /\ j \in Ins /\ Available(list, subs, b, x, j)
  BY <1>3, <1>6, <1>7, <1>8, InputOf DEF Live
<1>10. j \in ToSet(list[b]) => j \notin ToSet(rest)
  <2> SUFFICES ASSUME j \in ToSet(list[b]), j \in ToSet(rest) PROVE FALSE
    OBVIOUS
  <2>1. Earlier(list[b], j, x)
    BY <1>1, <1>3, <1>6, <1>9, NotBeforeItself DEF UsedModules
  <2>2. Earlier(rest, j, x)
    BY <1>5, <2>1 DEF CopyInv
  <2> QED BY <1>5, <2>2
<1>11. CASE j \in ToSet(list[b])
  <2>1. copy[j] # End /\ Earlier(list[m], copy[j], c)
    BY <1>2, <1>9, <1>10, <1>11 DEF CopyInv, HasInstruction
  <2>2. Copied(j) = copy[j]
    BY <2>1 DEF Copied
  <2>3. copy[j] \in ToSet(list[m])
    BY <1>1, <2>1, OrderIn
  <2>4. copy[j] \in Live /\ copy[j] \notin ToSet(list[b])
    <3>1. b # m /\ OneHome(list)
      BY <1>1 DEF CopyInv, Ordered
    <3> QED BY <1>1, <1>3, <2>3, <3>1, SameHome, LiveIs
  <2> QED BY <1>2, <1>7, <2>1, <2>2, <2>4 DEF Available
<1>12. CASE j \notin ToSet(list[b])
  <2>1. Copied(j) = j
    BY <1>9, <1>12 DEF CopyInv, HasInstruction, Copied
  <2>2. ~ Earlier(list[b], j, x)
    BY <1>1, <1>3, <1>12, OrderIn
  <2>3. b \notin EnteredBefore(list, subs, j)
    BY <1>9, <2>2 DEF Available
  <2>4. Available(list, subs, m, c, j)
    <3> SUFFICES ASSUME m \in EnteredBefore(list, subs, j), ~ Earlier(list[m], j, c) PROVE FALSE
      BY DEF Available
    <3>1. ToSet(subs[c]) \subseteq EnteredBefore(list, subs, j)
      <4>1. Hung(list, subs)
        BY <1>1 DEF Ordered
      <4> QED BY <1>2, <4>1, EnteredNext
    <3> QED BY <1>2, <2>3, <3>1
  <2> QED BY <1>2, <1>7, <1>9, <1>12, <2>1, <2>4
<1> QED BY <1>11, <1>12

LEMMA InlineTurnKept ==
  ASSUME ProgramInv, NEW m \in UsedModules, InlineInv(m), InlineTurn(m),
         \A x \in ToSet(list[m]) : m \notin ToSet(subs[x])
  PROVE  PassKept(m) /\ InlineInv(m)'
<1>1. GraphShape /\ GraphTypeOK /\ m \in Modules
  BY ShapeOrdered DEF ProgramInv, GraphInv
<1>2. /\ turn = "next" /\ cursor # End /\ cursor \in ToSet(list[m]) /\ copy = NoCopies /\ results = <<>>
      /\ UNCHANGED <<graph, copy, results>>
  BY DEF InlineTurn, InlineInv, CursorIn, NoneCopied
<1>3. PassKept(m)
  BY <1>2, NothingKept, OneCall DEF graph
<1>4. CASE ~ Decided(cursor)
  <2>1. cursor' = NextOf(m, cursor) /\ turn' = "next"
    BY <1>2, <1>4 DEF InlineTurn
  <2>2. CursorIn(m)'
    BY <1>1, <1>2, <2>1, NextStaysIn DEF InlineInv, graph
  <2> QED BY <1>2, <1>3, <2>1, <2>2 DEF InlineInv, NoneCopied, NoCopies
<1>5. CASE Decided(cursor)
  <2>1. PICK c, b : c = cursor /\ b = Branch(c, Value[args[c][1]])
    OBVIOUS
  <2>2. IsLeaf(b) /\ rest' = list[b] /\ turn' = "copy" /\ cursor' = cursor
    BY <1>5, <2>1 DEF InlineTurn
  <2>3. b \in ToSet(subs[c])
    <3>1. c \in Ins
      BY <1>1, <1>2, <2>1, ShapeOrdered
    <3>2. subs[c] \in Seq(Modules) /\ Len(subs[c]) = 2
      BY <1>1, <1>5, <2>1, <3>1 DEF GraphShape, Decided
    <3>3. 1 \in DOMAIN subs[c] /\ 2 \in DOMAIN subs[c]
      BY <3>2
    <3>4. b = subs[c][1] \/ b = subs[c][2]
      BY <2>1 DEF Branch
    <3> QED BY <3>3, <3>4 DEF ToSet
  <2>4. b \in Modules /\ b # m
    BY <1>1, <1>2, <2>1, <2>3, HungInUse
  <2>5. list[b] \in Seq(Ins) /\ IsInjective(list[b])
    BY <1>1, <2>4, ShapeOrdered
  <2>6. CopyInv(m, b)'
    <3>1. IsLeaf(b)' /\ list' = list
      BY <1>2, <2>2 DEF IsLeaf, graph
    <3>2. DOMAIN copy' = Ins /\ \A i \in Ins : copy'[i] = End
      BY <1>2 DEF NoCopies
    <3>3. DOMAIN results' = {}
      BY <1>2
    <3> QED BY <2>2, <2>4, <2>5, <3>1, <3>2, <3>3 DEF CopyInv, HasInstruction
  <2>7. CursorIn(m)' /\ b \in ToSet(subs'[cursor']) /\ cursor' # End
    BY <1>2, <2>1, <2>2, <2>3 DEF CursorIn, graph
  <2> QED BY <1>3, <2>2, <2>6, <2>7 DEF InlineInv
<1> QED BY <1>4, <1>5

(* One more instruction is copied. *)
LEMMA CopyGrows ==
  ASSUME GraphShape, NEW m \in Modules, NEW b \in Modules, CopyInv(m, b), rest # <<>>,
         cursor \in ToSet(list[m]), IsLeaf(b)',
         NEW i, i # End, Earlier(list'[m], i, cursor), list'[b] = list[b],
         \A z : Earlier(list[m], z, cursor) => Earlier(list'[m], z, cursor),
         rest' = Tail(rest), copy' = [copy EXCEPT ![Head(rest)] = i], results' = <<i>>,
         UNCHANGED cursor
  PROVE  CopyInv(m, b)'
<1>1. PICK x : x = Head(rest)
  OBVIOUS
<1>2. /\ rest \in Seq(Ins) /\ IsInjective(rest) /\ ToSet(rest) \subseteq ToSet(list[b]) /\ b # m
      /\ \A p, j \in ToSet(rest) : Earlier(rest, p, j) <=> Earlier(list[b], p, j)
      /\ DOMAIN copy = Ins
  BY DEF CopyInv
<1>3. /\ rest' \in Seq(Ins) /\ IsInjective(rest') /\ ToSet(rest') = ToSet(rest) \ {x}
      /\ \A p, j : Earlier(rest', j, p) <=> Earlier(rest, j, p) /\ j # x
  BY <1>1, <1>2, TailOf
<1>4. x \in ToSet(rest) /\ \A y : ~ Earlier(rest, y, x)
  BY <1>1, <1>2, EndsOf
<1>5. x \in ToSet(list[b]) /\ x \in Ins
  BY <1>2, <1>4, ShapeOrdered
<1>6. DOMAIN copy' = Ins /\ copy'[x] = i /\ \A y \in Ins \ {x} : copy'[y] = copy[y]
  BY <1>1, <1>2, <1>5
<1>7. \A y \in Ins : IF y \in ToSet(list'[b]) /\ y \notin ToSet(rest')
                       THEN copy'[y] # End /\ Earlier(list'[m], copy'[y], cursor')
                       ELSE copy'[y] = End
  <2> SUFFICES ASSUME NEW y \in Ins
               PROVE  IF y \in ToSet(list'[b]) /\ y \notin ToSet(rest')
                        THEN copy'[y] # End /\ Earlier(list'[m], copy'[y], cursor')
                        ELSE copy'[y] = End
    OBVIOUS
  <2>1. CASE y = x
    BY <1>3, <1>5, <1>6, <2>1
  <2>2. CASE y # x
    <3>1. copy'[y] = copy[y] /\ (y \in ToSet(rest') <=> y \in ToSet(rest))
      BY <1>3, <1>6, <2>2
    <3>2. IF y \in ToSet(list[b]) /\ y \notin ToSet(rest)
            THEN copy[y] # End /\ Earlier(list[m], copy[y], cursor)
            ELSE copy[y] = End
      BY DEF CopyInv, HasInstruction
    <3> QED BY <3>1, <3>2
  <2> QED BY <2>1, <2>2
<1>8. \A k \in DOMAIN results' : Earlier(list'[m], results'[k], cursor')
  OBVIOUS
<1>9. \A p, j \in ToSet(rest') : Earlier(rest', p, j) <=> Earlier(list'[b], p, j)
  BY <1>2, <1>3
<1>10. ToSet(rest') \subseteq ToSet(list'[b])
  BY <1>2, <1>3
<1> QED BY <1>2, <1>3, <1>6, <1>7, <1>8, <1>9, <1>10 DEF CopyInv, HasInstruction

LEMMA InlineCopyKept ==
  ASSUME ProgramInv, NEW m \in UsedModules, InlineInv(m), InlineCopy(m)
  PROVE  PassKept(m) /\ InlineInv(m)'
<1>1. GraphShape /\ GraphTypeOK /\ m \in Modules
  BY ShapeOrdered DEF ProgramInv, GraphInv
<1>2. PICK c, x, i : c = cursor /\ x = Head(rest) /\ i = NewIns
  OBVIOUS
<1>3. /\ turn = "copy" /\ turn' = "copy" /\ rest # <<>> /\ c # End /\ c \in ToSet(list[m])
      /\ cursor' = cursor /\ rest' = Tail(rest) /\ copy' = [copy EXCEPT ![x] = i] /\ results' = <<i>>
      /\ UNCHANGED modules
  BY <1>2 DEF InlineCopy, InlineInv, CursorIn, walk
<1>4. PICK b \in ToSet(subs[c]) : CopyInv(m, b)
  BY <1>2, <1>3 DEF InlineInv
<1>5. b \in UsedModules /\ b \in Modules /\ b # m /\ IsLeaf(b)
  BY <1>1, <1>3, <1>4, HungInUse DEF CopyInv
<1>6. rest \in Seq(Ins) /\ IsInjective(rest) /\ ToSet(rest) \subseteq ToSet(list[b])
  BY <1>4 DEF CopyInv
<1>7. x \in ToSet(list[b]) /\ x \in Ins /\ c \in Ins
  <2>1. x \in ToSet(rest)
    BY <1>2, <1>3, <1>6, EndsOf
  <2> QED BY <1>1, <1>3, <1>5, <1>6, <2>1, ShapeOrdered
<1>8. ASSUME NEW s, CallKept(m, s), HungBelow(m, s), i \in Ins \ Live,
             list'[b] = list[b], Earlier(list'[m], i, c),
             \A z : Earlier(list[m], z, c) => Earlier(list'[m], z, c),
             c \in ToSet(list'[m]), subs'[c] = subs[c],
             \A j \in ToSet(list[b]) : outs'[j] = outs[j]
      PROVE  PassKept(m) /\ InlineInv(m)'
  <2>1. PassKept(m)
    BY <1>8 DEF PassKept
  <2>2. IsLeaf(b)'
    BY <1>5, <1>8 DEF IsLeaf
  <2>3. i # End
    BY <1>8, EndAssumption
  <2>4. CopyInv(m, b)'
    BY <1>1, <1>2, <1>3, <1>4, <1>5, <1>8, <2>2, <2>3, CopyGrows
  <2>5. b \in ToSet(subs'[cursor']) /\ CursorIn(m)' /\ cursor' # End
    BY <1>2, <1>3, <1>4, <1>8 DEF CursorIn
  <2> QED BY <1>3, <2>1, <2>4, <2>5 DEF InlineInv
<1>9. CASE Name(x) \in {"@literal", "@param"}
  <2>1. PICK o : AddFirst(m, i, o)
    BY <1>2, <1>9 DEF InlineCopy
  <2>2. CallKept(m, <<>>)
    BY <1>1, <1>3, <2>1, AddFirstKept
  <2>3. /\ i \in Ins \ Live
        /\ \A h \in Modules \ {m} : list'[h] = list[h]
        /\ ToSet(list'[m]) = ToSet(list[m]) \cup {i}
        /\ \A p, y : Earlier(list'[m], y, p) <=> Earlier(list[m], y, p) \/ (y = i /\ p \in ToSet(list[m]))
        /\ \A u \in Ins : subs'[u] = IF u = i THEN <<>> ELSE subs[u]
        /\ outs' = outs
    <3>1. UNCHANGED modules
      BY <1>3
    <3> QED BY ONLY ProgramInv, m \in UsedModules, <2>1, <3>1, AddFirstOrder
  <2>4. c # i
    BY <1>1, <1>3, <2>3, LiveIs
  <2> QED BY <1>3, <1>5, <1>7, <1>8, <2>2, <2>3, <2>4 DEF HungBelow
<1>10. CASE Name(x) \notin {"@literal", "@param"}
  <2>1. PICK a, s, o :
          /\ a = [k \in DOMAIN args[x] |-> Copied(args[x][k])] /\ s = subs[x]
          /\ InsertInstruction(m, c, i, o, a, s)
    BY <1>2, <1>10 DEF InlineCopy
  <2>2. \A k \in DOMAIN args[x] : /\ Copied(args[x][k]) \in Live
                                  /\ Available(list, subs, m, c, Copied(args[x][k]))
                                  /\ Copied(args[x][k]) \notin ToSet(list[b])
    BY <1>2, <1>3, <1>4, CopiedAvailable
  <2>3. a \in Seq(Live)
    <3>1. args[x] \in Seq(Ins)
      BY <1>1, <1>7 DEF GraphTypeOK
    <3>2. DOMAIN args[x] = 1..Len(args[x]) /\ Len(args[x]) \in Nat
      BY <3>1
    <3>3. a = [k \in 1..Len(args[x]) |-> Copied(args[x][k])] /\ \A k \in 1..Len(args[x]) : Copied(args[x][k]) \in Live
      BY <2>1, <2>2, <3>2
    <3> QED BY <3>2, <3>3
  <2>4. \A j \in ToSet(a) : Available(list, subs, m, c, j) /\ j \notin ToSet(list[b])
    <3> SUFFICES ASSUME NEW j \in ToSet(a)
                 PROVE  Available(list, subs, m, c, j) /\ j \notin ToSet(list[b])
      OBVIOUS
    <3>1. PICK k \in DOMAIN args[x] : j = Copied(args[x][k])
      BY <2>1 DEF ToSet
    <3> QED BY <2>2, <3>1
  <2>5. s \in Seq(Modules) /\ s = subs[x]
    BY <1>1, <1>7, <2>1 DEF GraphShape
  <2>6. /\ CallKept(m, s) /\ i \in Ins \ Live
        /\ \A h \in Modules \ {m} : list'[h] = list[h]
        /\ ToSet(list'[m]) = ToSet(list[m]) \cup {i}
        /\ \A p, z \in ToSet(list[m]) : Earlier(list'[m], z, p) <=> Earlier(list[m], z, p)
        /\ \A p : Earlier(list'[m], i, p) <=> p = c \/ Earlier(list[m], c, p)
        /\ \A u \in Ins : subs'[u] = IF u = i THEN s ELSE subs[u]
        /\ \A j \in Ins : outs'[j] = outs[j] \cup (IF j \in ToSet(a) THEN {i} ELSE {})
    <3>1. InsertInstruction(m, c, i, o, a, s) /\ UNCHANGED modules /\ c \in ToSet(list[m])
      BY <1>3, <2>1
    <3>2. b \in ToSet(subs[c]) /\ IsLeaf(b) /\ x \in ToSet(list[b])
      BY <1>4, <1>5, <1>7, <1>2
    <3>3. CopyInserted(m, c, i, o, a, s, b, x)
      BY <2>3, <2>4, <2>5, <3>1, <3>2 DEF CopyInserted
    <3> QED BY ONLY ProgramInv, m \in UsedModules, <3>3, InsertOrder
  <2>7. c # i
    BY <1>1, <1>3, <2>6, LiveIs
  <2>8. \A z : Earlier(list[m], z, c) => z \in ToSet(list[m])
    BY <1>1, OrderIn
  <2>9. HungBelow(m, s)
    BY <1>3, <1>4, <1>7, <2>5 DEF HungBelow
  <2>10. \A j \in ToSet(list[b]) : outs'[j] = outs[j]
    <3>1. ToSet(list[b]) \subseteq Ins
      BY <1>1, <1>5, ShapeOrdered
    <3> QED BY <2>4, <2>6, <3>1
  <2>11. /\ list'[b] = list[b] /\ Earlier(list'[m], i, c)
         /\ \A z : Earlier(list[m], z, c) => Earlier(list'[m], z, c)
         /\ c \in ToSet(list'[m]) /\ subs'[c] = subs[c]
    BY <1>3, <1>5, <1>7, <2>6, <2>7, <2>8
  <2> QED BY <1>8, <2>6, <2>9, <2>10, <2>11
<1> QED BY <1>9, <1>10

LEMMA InlineResultsKept ==
  ASSUME ProgramInv, NEW m \in UsedModules, InlineInv(m), InlineResults(m)
  PROVE  PassKept(m) /\ InlineInv(m)'
<1>1. GraphShape /\ GraphTypeOK /\ m \in Modules
  BY ShapeOrdered DEF ProgramInv, GraphInv
<1>2. /\ turn = "copy" /\ turn' = "replace" /\ cursor # End /\ cursor \in ToSet(list[m])
      /\ users' = outs[cursor] /\ UNCHANGED <<graph, cursor>>
  BY DEF InlineResults, InlineInv, CursorIn
<1>3. PICK b \in ToSet(subs[cursor]) : CopyInv(m, b)
  BY <1>2 DEF InlineInv
<1>4. PassKept(m)
  BY <1>2, NothingKept, OneCall DEF graph
<1>5. \A k \in DOMAIN results' : results'[k] \in Live /\ Available(list, subs, m, cursor, results'[k])
  <2>1. CASE rest = <<>>
    <3>1. results' = results
      BY <2>1 DEF InlineResults
    <3>2. \A k \in DOMAIN results : Earlier(list[m], results[k], cursor)
      BY <1>3 DEF CopyInv
    <3> QED BY <1>1, <3>1, <3>2, OrderIn, LiveIs DEF Available
  <2>2. CASE rest # <<>>
    <3>1. results' = [k \in DOMAIN args[Head(rest)] |-> Copied(args[Head(rest)][k])]
      BY <2>2 DEF InlineResults
    <3>2. \A k \in DOMAIN args[Head(rest)] :
             /\ Copied(args[Head(rest)][k]) \in Live
             /\ Available(list, subs, m, cursor, Copied(args[Head(rest)][k]))
      BY <1>2, <1>3, <2>2, CopiedAvailable
    <3> QED BY <3>1, <3>2
  <2> QED BY <2>1, <2>2
<1>6. ResultsInv(m)'
  BY <1>2, <1>5 DEF ResultsInv, graph, Live, Home, HasInstruction
<1>7. CursorIn(m)' /\ users' \subseteq outs'[cursor'] /\ cursor' # End
  BY <1>2 DEF CursorIn, graph
<1> QED BY <1>2, <1>4, <1>6, <1>7 DEF InlineInv

LEMMA InlineReplaceKept ==
  ASSUME ProgramInv, NEW m \in UsedModules, InlineInv(m), NEW user, InlineReplace(m, user)
  PROVE  PassKept(m) /\ InlineInv(m)'
<1>1. /\ GraphShape /\ GraphTypeOK /\ UseListsExact /\ InputsEvaluated
      /\ m \in Modules /\ Ordered(list, subs)
  BY ShapeOrdered DEF ProgramInv, GraphInv
<1>2. PICK c, rep : c = cursor /\ rep = results[op[user][2]]
  OBVIOUS
<1>3. /\ turn = "replace" /\ turn' = "replace" /\ c # End /\ c \in ToSet(list[m])
      /\ user \in users /\ users \subseteq outs[c] /\ ResultsInv(m) /\ users' = users \ {user}
      /\ rep \in Live /\ Available(list, subs, m, c, rep)
      /\ ReplaceInstruction(m, user, rep)
      /\ UNCHANGED <<modules, list, cursor, results>>
  BY <1>2 DEF InlineReplace, InlineInv, CursorIn, walk, ResultsInv
<1>4. c \in Ins /\ user \in ToSet(list[m]) /\ user \in outs[c] /\ user \in Ins
  BY <1>1, <1>3, ShapeOrdered DEF ReplaceInstruction, HasInstruction, GraphTypeOK
<1>5. Available(list, subs, m, user, c)
  BY <1>1, <1>4 DEF UseListsExact, ArgsOf, InputsEvaluated, InOrder
<1>6. Available(list, subs, m, user, rep)
  BY <1>1, <1>3, <1>4, <1>5, AvailableTransitive
<1>7. CallKept(m, <<>>)
  <2>1. UNCHANGED <<list, modules>> /\ ReplaceInstruction(m, user, rep) /\ rep \in Live
    BY <1>3
  <2> QED BY ONLY ProgramInv, m \in UsedModules, <1>6, <2>1, ReplaceKept
<1>8. c # user
  <2>1. Earlier(list[m], c, user)
    <3>1. m \in Used(list, subs)
      BY DEF UsedModules
    <3> QED BY <1>1, <1>3, <1>4, <1>5, <3>1, NotBeforeItself
  <2> QED BY <1>1, <2>1, OrderIn
<1>9. outs[c] \ {user} \subseteq outs'[c]
  <2>1. /\ user = LastOf(m) => \A j \in Ins : outs'[j] = (outs[j] \ {user}) \cup (IF j = rep THEN {user} ELSE {})
        /\ user # LastOf(m) => \A j \in Ins : j # user /\ j # rep => outs'[j] = outs[j]
        /\ user # LastOf(m) => outs'[rep] = outs[rep] \cup outs[user]
    <3>1. ReplaceInstruction(m, user, rep)
      BY <1>3
    <3>2. rep \in Live
      BY <1>3
    <3> HIDE DEF Live, ReplaceInstruction, Available, LastOf, UsedModules
    <3>3. user = LastOf(m) => \A j \in Ins : outs'[j] = (outs[j] \ {user}) \cup (IF j = rep THEN {user} ELSE {})
      BY ONLY ProgramInv, m \in UsedModules, <1>6, <3>1, <3>2, ReplaceInstructionOrder
    <3>4. user # LastOf(m) => \A j \in Ins : j # user /\ j # rep => outs'[j] = outs[j]
      BY ONLY ProgramInv, m \in UsedModules, <1>6, <3>1, <3>2, ReplaceInstructionOrder
    <3>5. user # LastOf(m) => outs'[rep] = outs[rep] \cup outs[user]
      BY ONLY ProgramInv, m \in UsedModules, <1>6, <3>1, <3>2, ReplaceInstructionOrder
    <3> QED BY <3>3, <3>4, <3>5
  <2>2. CASE user = LastOf(m)
    BY <1>4, <2>1, <2>2
  <2>3. CASE user # LastOf(m)
    BY <1>4, <1>8, <2>1, <2>3
  <2> QED BY <2>2, <2>3
<1>10. ASSUME NEW j PROVE EnteredBefore(list, subs', j) \subseteq EnteredBefore(list, subs, j)
  <2>1. PICK mods : mods = subs'
    OBVIOUS
  <2>2. \A h \in Modules : \A x \in ToSet(list[h]) : mods[x] = <<>> \/ mods[x] = subs[x]
    BY <1>3, <1>7, <2>1 DEF CallKept
  <2>3. \A h \in Modules : \A x \in ToSet(list[h]) : ToSet(mods[x]) \subseteq ToSet(subs[x])
    <3>1. ToSet(<<>>) = {}
      BY DEF ToSet
    <3> QED BY <2>2, <3>1
  <2> QED BY <1>1, <2>1, <2>3, LessHung
<1>11. ResultsInv(m)'
  <2>1. Live' = Live
    BY <1>3 DEF Live, Home, HasInstruction
  <2>2. \A k \in DOMAIN results' : results'[k] \in Live' /\ Available(list', subs', m, cursor', results'[k])
    <3> SUFFICES ASSUME NEW k \in DOMAIN results PROVE results[k] \in Live /\ Available(list, subs', m, c, results[k])
      BY <1>2, <1>3, <2>1
    <3>1. results[k] \in Live /\ Available(list, subs, m, c, results[k])
      BY <1>2, <1>3 DEF ResultsInv
    <3> QED BY <1>10, <3>1 DEF Available
  <2> QED BY <2>2 DEF ResultsInv
<1>12. CursorIn(m)' /\ users' \subseteq outs'[cursor'] /\ cursor' # End
  BY <1>2, <1>3, <1>9 DEF CursorIn
<1> QED BY <1>3, <1>7, <1>11, <1>12, OneCall DEF InlineInv

LEMMA InlineKept ==
  ASSUME ProgramInv, NEW m \in UsedModules, InlineInv(m), InlineNext(m),
         \A x \in ToSet(list[m]) : m \notin ToSet(subs[x])
  PROVE  PassKept(m) /\ InlineInv(m)'
<1>1. CASE InlineAdvance(m)
  <2>1. CursorIn(m) /\ cursor # End
    BY <1>1 DEF InlineAdvance, InlineInv
  <2>2. PassKept(m) /\ CursorIn(m)' /\ turn' = "next" /\ NoneCopied'
    BY <1>1, <2>1, AdvanceKept
  <2> QED BY <2>2 DEF InlineInv
<1> QED BY <1>1, InlineTurnKept, InlineCopyKept, InlineResultsKept, InlineReplaceKept DEF InlineNext

-----------------------------------------------------------------------------
(***************************************************************************)
(* The pass manager: submodules first, and what hangs off a module that a  *)
(* pass is still to run on.                                                *)
(***************************************************************************)

(***************************************************************************)
(* The modules a pass has still to run on are in the program, each behind  *)
(* what hangs off it; modules that are to go are not.                      *)
(***************************************************************************)
TodoInv ==
  /\ todoMods \in Seq(Modules) /\ IsInjective(todoMods) /\ ToSet(todoMods) \subseteq UsedModules
  /\ \A h \in UsedModules : \A x \in ToSet(list[h]) : \A n \in ToSet(subs[x]) \cap ToSet(todoMods) :
       Earlier(todoMods, n, h)
  /\ frames # <<>> => todoMods # <<>>
  /\ stage # "modules" => todoMods = <<>>
  /\ IF stage = "removing" THEN unused \cap UsedModules = {} ELSE unused = {}

PassInv ==
  /\ running = "dead_code_elimination" => DeadInv(Mod)
  /\ running = "eliminate_identity" => IdentityInv(Mod)
  /\ running = "promote_literals" => PromoteInv(Mod)
  /\ running = "inline_module" => InlineInv(Mod)
  /\ running = "eliminate_common_subexpression" => CseInv(Mod)
  /\ running \notin {"promote_literals", "inline_module"} => NoneCopied

ValidInv == ProgramInv /\ TodoInv /\ PassInv

-----------------------------------------------------------------------------
LEMMA UsedNext ==
  ASSUME NEW lists, NEW mods, Ordered(lists, mods), NEW h \in Used(lists, mods),
         NEW x \in ToSet(lists[h])
  PROVE  ToSet(mods[x]) \subseteq Used(lists, mods) /\ h \in Modules
<1>1. Hung(lists, mods) /\ OneHome(lists)
  BY DEF Ordered
<1>2. Used(lists, mods) \subseteq Modules
  BY <1>1, EnteredReached DEF Used
<1>3. ~ Earlier(lists[h], End, x)
  <2>1. Earlier(lists[h], End, x) => End \in ToSet(lists[h])
    BY <1>1, <1>2, EarlierHome
  <2>2. lists[h] \in Seq(Ins)
    BY <1>1, <1>2 DEF OneHome
  <2>3. ToSet(lists[h]) \subseteq Ins
    BY <2>2, InputsAreInstructions
  <2> QED BY <2>1, <2>3, EndAssumption
<1> QED BY <1>1, <1>2, <1>3, EnteredNext DEF Used

(* The lists and modules a step leaves. *)
LEMMA OrderedNext ==
  ASSUME ProgramInv' PROVE Ordered(list', subs')
<1>1. OneHome(list') /\ subs' \in [Ins -> Seq(Modules)]
  BY DEF ProgramInv, GraphShape
<1>2. ASSUME NEW m \in Modules, NEW x \in ToSet(list'[m]) PROVE ToSet(subs'[x]) \subseteq Modules
  <2>1. list'[m] \in Seq(Ins)
    BY <1>1 DEF OneHome
  <2>2. x \in Ins
    BY <2>1, InputsAreInstructions
  <2>3. subs'[x] \in Seq(Modules)
    BY <1>1, <2>2
  <2> QED BY <2>3, InputsAreInstructions
<1> QED BY <1>1, <1>2 DEF Ordered, Hung

(* Nothing below the module a pass runs on is still to be run on. *)
LEMMA NothingBelow ==
  ASSUME GraphShape, TodoInv, todoMods # <<>>
  PROVE  /\ Mod \in UsedModules /\ Mod \in ToSet(todoMods)
         /\ \A x \in ToSet(list[Mod]) : ToSet(subs[x]) \cap ToSet(todoMods) = {}
<1>1. todoMods \in Seq(Modules) /\ IsInjective(todoMods) /\ ToSet(todoMods) \subseteq UsedModules
  BY DEF TodoInv
<1>2. Mod \in ToSet(todoMods) /\ \A i : ~ Earlier(todoMods, i, Mod)
  BY <1>1, EndsOf DEF Mod
<1> QED BY <1>1, <1>2 DEF TodoInv

(* What a pass on Mod adds to the program hangs nothing up anew. *)
LEMMA AddsNothingBelow ==
  ASSUME GraphShape, TodoInv, todoMods # <<>>, NEW s, HungBelow(Mod, s)
  PROVE  ToSet(s) \cap ToSet(todoMods) = {}
<1>1. todoMods \in Seq(Modules) /\ IsInjective(todoMods)
  BY DEF TodoInv
<1>2. CASE s = <<>>
  BY <1>2 DEF ToSet
<1>3. CASE s # <<>>
  <2>1. PICK x, b, y :
          x \in ToSet(list[Mod]) /\ b \in ToSet(subs[x]) /\ y \in ToSet(list[b]) /\ s = subs[y]
    BY <1>3 DEF HungBelow
  <2>2. PICK m \in UsedModules : m = Mod
    BY NothingBelow
  <2>3. b \in UsedModules
    BY <2>1, <2>2, HungInUse
  <2>4. b \notin ToSet(todoMods)
    BY <2>1, NothingBelow
  <2>5. ASSUME NEW n \in ToSet(subs[y]) \cap ToSet(todoMods) PROVE FALSE
    <3>1. Earlier(todoMods, n, b)
      BY <2>1, <2>3 DEF TodoInv
    <3> QED BY <1>1, <2>4, <3>1, EarlierOrder
  <2> QED BY <2>1, <2>5
<1> QED BY <1>2, <1>3

(* A module a pass will run on stays in the program. *)
LEMMA TodoStaysUsed ==
  ASSUME ProgramInv, TodoInv, todoMods # <<>>, NEW s, CallKept(Mod, s)
  PROVE  ToSet(todoMods) \subseteq Used(list', subs')
<1> DEFINE U == Used(list', subs')
           S == {h \in UsedModules : h \notin ToSet(todoMods) \/ h \in U}
<1>1. /\ GraphShape /\ Ordered(list, subs) /\ Ordered(list', subs')
      /\ UsedModules \subseteq Modules /\ Main \in UsedModules /\ U \subseteq Modules /\ Main \in U
  <2>1. GraphShape /\ Ordered(list', subs')
    BY OrderedNext DEF CallKept, ProgramInv
  <2> QED BY <2>1, ShapeOrdered, EnteredReached DEF Used, Ordered
<1>2. ASSUME NEW h \in S, NEW x \in ToSet(list[h]), NEW n \in ToSet(subs[x]) PROVE n \in S
  <2>1. h \in UsedModules /\ n \in UsedModules
    BY <1>1, UsedNext DEF UsedModules
  <2>2. CASE n \notin ToSet(todoMods)
    BY <2>1, <2>2
  <2>3. CASE n \in ToSet(todoMods)
    <3>1. Earlier(todoMods, n, h)
      BY <2>1, <2>3 DEF TodoInv
    <3>2. h \in ToSet(todoMods) /\ h # Mod
      <4>1. todoMods \in Seq(Modules) /\ IsInjective(todoMods)
        BY DEF TodoInv
      <4>2. \A i : ~ Earlier(todoMods, i, Mod)
        BY <4>1, EndsOf DEF Mod
      <4> QED BY <3>1, <4>1, <4>2, EarlierOrder
    <3>3. h \in U
      BY <3>2
    <3>4. x \in ToSet(list'[h]) /\ subs'[x] = subs[x]
      BY <1>1, <2>1, <3>2 DEF CallKept
    <3>5. n \in U
      BY <1>1, <3>3, <3>4, UsedNext
    <3> QED BY <2>1, <3>5
  <2> QED BY <2>2, <2>3
<1>3. Reached(list, subs, End, S)
  BY <1>1, <1>2 DEF Reached
<1>4. UsedModules \subseteq S
  <2> HIDE DEF S
  <2>1. S \in SUBSET Modules
    BY <1>1 DEF S
  <2> QED BY <1>3, <2>1, EnteredLeast DEF UsedModules, Used
<1>5. ToSet(todoMods) \subseteq UsedModules
  BY DEF TodoInv
<1> QED BY <1>4, <1>5

LEMMA TodoKept ==
  ASSUME ProgramInv, TodoInv, todoMods # <<>>, PassKept(Mod), UNCHANGED driver
  PROVE  TodoInv'
<1>1. PICK s : CallKept(Mod, s) /\ HungBelow(Mod, s)
  BY DEF PassKept
<1>2. GraphShape /\ UsedModules' \subseteq UsedModules /\ UsedModules' = Used(list', subs')
  BY <1>1 DEF ProgramInv, CallKept, UsedModules
<1>3. ToSet(todoMods) \subseteq UsedModules'
  BY <1>1, <1>2, TodoStaysUsed
<1>4. ToSet(s) \cap ToSet(todoMods) = {}
  BY <1>1, <1>2, AddsNothingBelow
<1>5. ASSUME NEW h \in UsedModules', NEW x \in ToSet(list'[h]),
             NEW n \in ToSet(subs'[x]) \cap ToSet(todoMods)
      PROVE  Earlier(todoMods, n, h)
  <2>1. h \in UsedModules /\ h \in Modules
    BY <1>2, ShapeOrdered
  <2>2. subs'[x] \in {<<>>, s} \/ (x \in ToSet(list[h]) /\ subs'[x] = subs[x])
    BY <1>1, <2>1 DEF CallKept
  <2>3. subs'[x] # s
    BY <1>4
  <2>4. subs'[x] # <<>>
    BY DEF ToSet
  <2>5. x \in ToSet(list[h]) /\ subs'[x] = subs[x]
    BY <2>2, <2>3, <2>4
  <2> QED BY <2>1, <2>5 DEF TodoInv
<1>6. UNCHANGED <<todoMods, frames, stage, unused>>
  BY DEF driver
<1> QED BY <1>2, <1>3, <1>5, <1>6 DEF TodoInv

LEMMA GraphSame ==
  ASSUME ProgramInv, UNCHANGED <<modules, list, op, args, subs, outs>>
  PROVE  ProgramInv' /\ Call /\ UsedModules' = UsedModules
BY NothingKept DEF CallKept, UsedModules

(* An order has every module of the program, behind what hangs off it. *)
LEMMA OrdersModules ==
  ASSUME GraphShape, NEW order \in ModuleOrders
  PROVE  /\ order \in Seq(Modules) /\ IsInjective(order) /\ ToSet(order) \subseteq UsedModules
         /\ order # <<>>
         /\ \A h \in UsedModules : \A x \in ToSet(list[h]) : \A n \in ToSet(subs[x]) \cap ToSet(order) :
              Earlier(order, n, h)
<1>1. UsedModules \subseteq Modules /\ Main \in UsedModules
  BY ShapeOrdered
<1>2. IsFiniteSet(UsedModules)
  BY <1>1, ModulesAssumption, FS_Subset
<1>3. PICK c \in Nat : c = Cardinality(UsedModules)
  BY <1>2, FS_CardinalityType
<1>4. /\ order \in [1..c -> UsedModules] /\ IsInjective(order)
      /\ \A k \in DOMAIN order : \A x \in ToSet(list[order[k]]) :
           ToSet(subs[x]) \subseteq {order[l] : l \in 1..(k - 1)}
  BY <1>3 DEF ModuleOrders, SetToSeqs, IsInjective
<1>5. Cardinality(1..c) = c
  BY <1>3, FS_Interval
<1>6. \A h \in UsedModules : \E k \in 1..c : order[k] = h
  <2>1. order \in Injection(1..c, UsedModules)
    BY <1>4 DEF Injection
  <2>2. order \in Surjection(1..c, UsedModules)
    BY <1>2, <1>3, <1>5, <2>1, FS_Injection
  <2> QED BY <2>2 DEF Surjection
<1>7. order \in Seq(Modules) /\ DOMAIN order = 1..c
  BY <1>1, <1>3, <1>4
<1>8. ToSet(order) \subseteq UsedModules
  BY <1>4 DEF ToSet
<1>9. order # <<>>
  BY <1>1, <1>6, <1>7
<1>10. ASSUME NEW h \in UsedModules, NEW x \in ToSet(list[h]), NEW n \in ToSet(subs[x])
       PROVE  Earlier(order, n, h)
  <2>1. PICK k \in 1..c : order[k] = h
    BY <1>6
  <2>2. PICK l \in 1..(k - 1) : n = order[l]
    BY <1>4, <1>7, <2>1
  <2> QED BY <1>7, <2>1, <2>2 DEF Earlier
<1> QED BY <1>4, <1>7, <1>8, <1>9, <1>10

-----------------------------------------------------------------------------
LEMMA NextPassValid ==
  ASSUME ValidInv, SignalInv, NextPass PROVE ValidInv' /\ Call
<1>1. /\ ProgramInv /\ TodoInv /\ PassInv /\ stage = "next" /\ running' = running
      /\ UNCHANGED <<graph, walk, inline, stack, unused>>
  BY DEF NextPass, ValidInv
<1>2. GraphShape /\ ProgramInv' /\ Call /\ UsedModules' = UsedModules /\ UNCHANGED <<list, subs>>
  BY <1>1, GraphSame DEF graph, ProgramInv
<1>3. running = "none"
  BY <1>1 DEF SignalInv, FramesInv
<1>4. PassInv'
  BY <1>1, <1>3 DEF PassInv, NoneCopied, NoCopies, inline
<1>5. frames = <<>> /\ todoMods = <<>> /\ unused = {}
  BY <1>1 DEF TodoInv, SignalInv, FramesInv
<1>6. TodoInv'
  <2>1. CASE at <= Len(passes)
    <3>1. stage' = "modules" /\ unused' = {} /\ todoMods' \in ModuleOrders
      BY <1>1, <1>5, <2>1 DEF NextPass
    <3>2. PICK order : order = todoMods' /\ order \in ModuleOrders
      BY <3>1
    <3> QED BY <1>2, <3>1, <3>2, OrdersModules DEF TodoInv
  <2>2. CASE ~ at <= Len(passes)
    <3>1. stage' = "done" /\ unused' = {} /\ todoMods' = todoMods /\ frames' = <<>>
      BY <1>1, <1>5, <2>2 DEF NextPass
    <3> QED BY <1>1, <1>2, <1>5, <3>1 DEF TodoInv
  <2> QED BY <2>1, <2>2
<1> QED BY <1>2, <1>4, <1>6 DEF ValidInv

(* A step that leaves the program, the modules to run on and the pass. *)
LEMMA DriverValid ==
  ASSUME ProgramInv, TodoInv, UNCHANGED <<modules, list, op, args, subs, outs, todoMods, unused>>,
         frames' # <<>> => frames # <<>>, stage' = "modules" /\ stage = "modules"
  PROVE  ProgramInv' /\ TodoInv' /\ Call
<1>1. ProgramInv' /\ Call /\ UsedModules' = UsedModules
  BY GraphSame
<1> QED BY <1>1 DEF TodoInv

LEMMA SubscribeValid ==
  ASSUME ValidInv, SignalInv, Subscribe PROVE ValidInv' /\ Call
<1>1. /\ ProgramInv /\ TodoInv /\ PassInv /\ frames # <<>> /\ stage = "modules" /\ running = "none"
      /\ UNCHANGED <<modules, list, op, args, subs, outs, todoMods, unused, stage, running, inline>>
  BY DEF Subscribe, ValidInv, SignalInv, FramesInv
<1>2. ProgramInv' /\ TodoInv' /\ Call
  BY <1>1, DriverValid
<1>3. PassInv'
  BY <1>1 DEF PassInv, NoneCopied, NoCopies, inline
<1> QED BY <1>2, <1>3 DEF ValidInv

LEMMA RunPassValid ==
  ASSUME ValidInv, SignalInv, RunPass PROVE ValidInv' /\ Call
<1>1. /\ ProgramInv /\ TodoInv /\ PassInv /\ frames # <<>> /\ stage = "modules" /\ running = "none"
      /\ running' = Current
      /\ UNCHANGED <<graph, inline, todoMods, frames, unused, stage>>
  BY DEF RunPass, ValidInv, SignalInv, FramesInv
<1>2. ProgramInv' /\ TodoInv' /\ Call
  BY <1>1, DriverValid DEF graph
<1>3. GraphShape /\ NoneCopied /\ NoneCopied'
  BY <1>1 DEF ProgramInv, PassInv, NoneCopied, NoCopies, inline
<1>4. PICK m \in UsedModules : m = Mod
  BY <1>1, <1>3, NothingBelow DEF TodoInv
<1>5. m \in Modules /\ Mod' = m
  BY <1>1, <1>3, <1>4, ShapeOrdered DEF Mod
<1>6. CASE running' = "eliminate_common_subexpression"
  <2>1. CseStart(m)
    BY <1>1, <1>4, <1>6 DEF RunPass
  <2>2. CseInv(m)'
    BY <1>1, <1>3, <1>5, <2>1, CseStarts
  <2> QED BY <1>2, <1>3, <1>5, <1>6, <2>2 DEF ValidInv, PassInv
<1>7. CASE running' = "propagate_constant"
  BY <1>2, <1>3, <1>7 DEF ValidInv, PassInv
<1>8. CASE running' \notin {"eliminate_common_subexpression", "propagate_constant"}
  <2>1. WalkStart(m)
    BY <1>1, <1>4, <1>8 DEF RunPass
  <2>2. /\ BehindLast(m)' /\ outs'[last'] = {} /\ last' = LastOf(m)' /\ turn' = "next"
        /\ HasInstruction(m, cursor)' /\ cursor' = FirstOf(m)'
    BY <1>1, <2>1, StartsAtLast
  <2>3. DeadInv(m)'
    BY <2>2 DEF DeadInv
  <2>4. ~ Earlier(list'[m], last', cursor')
    BY <1>1, <1>3, <1>5, <2>2, EndsIn DEF graph, LastOf, HasInstruction, BehindLast
  <2>5. IdentityInv(m)'
    BY <2>2, <2>4 DEF IdentityInv
  <2>6. CursorIn(m)'
    BY <2>2 DEF CursorIn, HasInstruction
  <2>7. PromoteInv(m)' /\ InlineInv(m)'
    BY <1>3, <2>2, <2>6 DEF PromoteInv, InlineInv
  <2> QED BY <1>2, <1>3, <1>5, <1>8, <2>3, <2>5, <2>7 DEF ValidInv, PassInv
<1> QED BY <1>6, <1>7, <1>8

LEMMA PassStepValid ==
  ASSUME ValidInv, SignalInv, PassStep PROVE ValidInv' /\ Call
<1>1. ProgramInv /\ TodoInv /\ PassInv /\ UNCHANGED driver
  BY DEF PassStep, ValidInv
<1>2. running # "none"
  BY DEF PassStep
<1>3. todoMods # <<>> /\ GraphShape
  BY <1>1, <1>2 DEF SignalInv, FramesInv, TodoInv, ProgramInv
<1>4. PICK m \in UsedModules : m = Mod
  BY <1>1, <1>3, NothingBelow
<1>5. Mod' = m /\ running' = running
  BY <1>1, <1>4 DEF driver, Mod
<1>6. \A x \in ToSet(list[m]) : m \notin ToSet(subs[x])
  BY <1>1, <1>3, <1>4, NothingBelow
<1>7. SUFFICES PassKept(m) /\ PassInv'
  <2>1. ASSUME PassKept(m) PROVE ProgramInv' /\ Call
    BY <2>1 DEF PassKept, CallKept
  <2> QED BY <1>1, <1>3, <1>4, <2>1, TodoKept DEF ValidInv
<1>8. CASE running = "dead_code_elimination"
  <2>1. DeadInv(m) /\ DeadNext(m) /\ UNCHANGED inline /\ NoneCopied
    BY <1>1, <1>4, <1>8 DEF PassStep, PassInv
  <2>2. PassKept(m) /\ DeadInv(m)'
    BY <1>1, <2>1, DeadKept
  <2> QED BY <1>5, <1>8, <2>1, <2>2 DEF PassInv, NoneCopied, NoCopies, inline
<1>9. CASE running = "eliminate_identity"
  <2>1. IdentityInv(m) /\ IdentityNext(m) /\ UNCHANGED inline /\ NoneCopied
    BY <1>1, <1>4, <1>9 DEF PassStep, PassInv
  <2>2. PassKept(m) /\ IdentityInv(m)'
    BY <1>1, <2>1, IdentityKept
  <2> QED BY <1>5, <1>9, <2>1, <2>2 DEF PassInv, NoneCopied, NoCopies, inline
<1>10. CASE running = "find_unit_ops"
  <2>1. UnitTurn /\ UNCHANGED inline /\ NoneCopied
    BY <1>1, <1>10 DEF PassStep, PassInv
  <2>2. PassKept(m)
    BY <1>1, <1>4, <2>1, UnitKept
  <2> QED BY <1>5, <1>10, <2>1, <2>2 DEF PassInv, NoneCopied, NoCopies, inline
<1>11. CASE running = "inline_module"
  <2>1. InlineInv(m) /\ InlineNext(m)
    BY <1>1, <1>4, <1>11 DEF PassStep, PassInv
  <2>2. PassKept(m) /\ InlineInv(m)'
    BY <1>1, <1>6, <2>1, InlineKept
  <2> QED BY <1>5, <1>11, <2>2 DEF PassInv
<1>12. CASE running = "promote_literals"
  <2>1. PromoteInv(m) /\ PromoteNext(m)
    BY <1>1, <1>4, <1>12 DEF PassStep, PassInv
  <2>2. PassKept(m) /\ PromoteInv(m)'
    BY <1>1, <2>1, PromoteNextKept
  <2> QED BY <1>5, <1>12, <2>2 DEF PassInv
<1>13. CASE running = "eliminate_common_subexpression"
  <2>1. CseInv(m) /\ CseNext(m) /\ UNCHANGED inline /\ NoneCopied
    BY <1>1, <1>4, <1>13 DEF PassStep, PassInv
  <2>2. PassKept(m) /\ CseInv(m)'
    BY <1>1, <2>1, CseKept
  <2> QED BY <1>5, <1>13, <2>1, <2>2 DEF PassInv, NoneCopied, NoCopies, inline
<1>14. CASE running = "propagate_constant"
  <2>1. ConstNext(m) /\ UNCHANGED inline /\ NoneCopied
    BY <1>1, <1>4, <1>14 DEF PassStep, PassInv
  <2>2. PassKept(m)
    BY <1>1, <2>1, ConstKept
  <2> QED BY <1>5, <1>14, <2>1, <2>2 DEF PassInv, NoneCopied, NoCopies, inline
<1> QED BY <1>8, <1>9, <1>10, <1>11, <1>12, <1>13, <1>14 DEF PassStep

LEMMA PassReturnsValid ==
  ASSUME ValidInv, SignalInv, PassReturns PROVE ValidInv' /\ Call
<1>1. /\ ProgramInv /\ TodoInv /\ PassInv /\ running # "none" /\ frames # <<>> /\ stage = "modules"
      /\ Over /\ running' = "none"
      /\ UNCHANGED <<graph, inline, todoMods, unused, stage>>
  BY DEF PassReturns, ValidInv, SignalInv, FramesInv
<1>2. ProgramInv' /\ TodoInv' /\ Call
  BY <1>1, DriverValid DEF graph
<1>3. NoneCopied
  <2>1. CASE running \in {"promote_literals", "inline_module"}
    <3>1. cursor = End
      BY <1>1, <2>1 DEF Over
    <3> QED BY <1>1, <2>1, <3>1 DEF PassInv, PromoteInv, InlineInv
  <2>2. CASE running \notin {"promote_literals", "inline_module"}
    BY <1>1, <2>2 DEF PassInv
  <2> QED BY <2>1, <2>2
<1> QED BY <1>1, <1>2, <1>3 DEF ValidInv, PassInv, NoneCopied, NoCopies, inline

LEMMA RoundEndsValid ==
  ASSUME ValidInv, SignalInv, RoundEnds PROVE ValidInv' /\ Call
<1>1. /\ ProgramInv /\ TodoInv /\ PassInv /\ running = "none" /\ running' = "none"
      /\ frames # <<>> /\ stage = "modules" /\ todoMods # <<>> /\ unused = {} /\ unused' = {}
      /\ UNCHANGED <<modules, list, op, args, subs, outs, inline>>
  BY DEF RoundEnds, ValidInv, SignalInv, FramesInv, TodoInv
<1>2. PassInv'
  BY <1>1 DEF PassInv, NoneCopied, NoCopies, inline
<1>3. ProgramInv' /\ Call /\ UsedModules' = UsedModules
  BY <1>1, GraphSame
<1>4. CASE UNCHANGED <<todoMods, stage>>
  BY <1>1, <1>2, <1>3, <1>4 DEF ValidInv, TodoInv
<1>5. CASE /\ todoMods' = Tail(todoMods)
           /\ frames' = IF Tail(todoMods) = <<>> THEN <<>> ELSE <<Loop("run_pass")>>
           /\ stage' = IF Tail(todoMods) = <<>> THEN "program" ELSE stage
  <2>1. todoMods \in Seq(Modules) /\ IsInjective(todoMods) /\ ToSet(todoMods) \subseteq UsedModules
    BY <1>1 DEF TodoInv
  <2>2. /\ todoMods' \in Seq(Modules) /\ IsInjective(todoMods')
        /\ ToSet(todoMods') = ToSet(todoMods) \ {Head(todoMods)}
        /\ \A h, n : Earlier(todoMods', n, h) <=> Earlier(todoMods, n, h) /\ n # Head(todoMods)
    BY <1>1, <1>5, <2>1, TailOf
  <2>3. \A h \in UsedModules : \A x \in ToSet(list[h]) : \A n \in ToSet(subs[x]) \cap ToSet(todoMods') :
          Earlier(todoMods', n, h)
    BY <1>1, <2>2 DEF TodoInv
  <2>4. /\ frames' # <<>> => todoMods' # <<>>
        /\ stage' # "modules" => todoMods' = <<>>
        /\ stage' # "removing"
    BY <1>1, <1>5
  <2> QED BY <1>1, <1>2, <1>3, <2>1, <2>2, <2>3, <2>4 DEF ValidInv, TodoInv
<1> QED BY <1>4, <1>5 DEF RoundEnds

LEMMA ProgramStepValid ==
  ASSUME ValidInv, SignalInv, RunOnProgram \/ ProgramDone PROVE ValidInv' /\ Call
<1>1. /\ ProgramInv /\ TodoInv /\ PassInv /\ running = "none" /\ running' = "none"
      /\ stage # "modules" /\ stage' # "modules" /\ todoMods = <<>> /\ frames = <<>>
      /\ UNCHANGED <<graph, inline, todoMods, frames>>
  BY DEF RunOnProgram, ProgramDone, ValidInv, SignalInv, FramesInv, TodoInv
<1>2. PassInv'
  BY <1>1 DEF PassInv, NoneCopied, NoCopies, inline
<1>3. ProgramInv' /\ Call /\ UsedModules' = UsedModules
  BY <1>1, GraphSame DEF graph
<1>4. IF stage' = "removing" THEN unused' \cap UsedModules = {} ELSE unused' = {}
  BY <1>1 DEF RunOnProgram, ProgramDone, TodoInv
<1> QED BY <1>1, <1>2, <1>3, <1>4 DEF ValidInv, TodoInv, graph

LEMMA RemoveUnusedValid ==
  ASSUME ValidInv, SignalInv, NEW m \in Modules, RemoveUnused(m) PROVE ValidInv' /\ Call
<1>1. /\ ProgramInv /\ TodoInv /\ PassInv /\ running = "none" /\ running' = "none"
      /\ stage = "removing" /\ stage' = stage /\ todoMods = <<>> /\ frames = <<>>
      /\ m \in unused /\ unused' = unused \ {m} /\ unused \cap UsedModules = {}
      /\ RemoveModule(m) /\ UNCHANGED <<op, inline, todoMods, frames>>
  BY DEF RemoveUnused, ValidInv, SignalInv, FramesInv, TodoInv
<1>2. PassInv'
  BY <1>1 DEF PassInv, NoneCopied, NoCopies, inline
<1>3. ProgramInv' /\ Call /\ Used(list', subs') \subseteq UsedModules
  BY <1>1, RemoveModuleKept
<1>4. TodoInv'
  <2>1. UsedModules' \subseteq UsedModules
    BY <1>3 DEF UsedModules
  <2>2. ToSet(todoMods') = {}
    BY <1>1 DEF ToSet
  <2> QED BY <1>1, <2>1, <2>2 DEF TodoInv
<1> QED BY <1>2, <1>3, <1>4 DEF ValidInv

LEMMA StepValid ==
  ASSUME ValidInv, SignalInv, [Next]_vars PROVE ValidInv' /\ Call
<1>1. CASE UNCHANGED vars
  <2>1. UNCHANGED <<modules, list, op, args, subs, outs, todoMods, frames, unused, stage, running, inline>>
    BY <1>1 DEF vars, graph, driver
  <2>2. ProgramInv' /\ Call /\ UsedModules' = UsedModules
    BY <2>1, GraphSame DEF ValidInv
  <2>3. TodoInv'
    BY <2>1, <2>2 DEF ValidInv, TodoInv
  <2>4. UNCHANGED <<modules, list, outs, subs, args, running, stack, cursor, last, leaves, turn,
                    rest, copy, users, results>>
    BY <1>1 DEF vars, graph, driver, walk, inline
  <2>5. PICK m : m = Mod
    OBVIOUS
  <2>6. Mod' = m
    BY <2>1, <2>5 DEF Mod
  <2>7. BehindLast(m)' = BehindLast(m) /\ CursorIn(m)' = CursorIn(m) /\ NoneCopied' = NoneCopied
    BY <2>4 DEF BehindLast, CursorIn, NoneCopied, NoCopies, HasInstruction
  <2>8. DeadInv(m)' = DeadInv(m) /\ IdentityInv(m)' = IdentityInv(m)
    BY <2>4, <2>7 DEF DeadInv, IdentityInv, HasInstruction, FirstOf, LastOf
  <2>9. PromoteInv(m)' = PromoteInv(m)
    BY <2>4, <2>7 DEF PromoteInv, FirstOf, LastOf
  <2>10. ASSUME NEW b PROVE CopyInv(m, b)' = CopyInv(m, b)
    BY <2>4 DEF CopyInv, IsLeaf, HasInstruction
  <2>11. ResultsInv(m)' = ResultsInv(m)
    BY <2>4 DEF ResultsInv, Live, Home, HasInstruction
  <2>12. InlineInv(m)' = InlineInv(m)
    BY <2>4, <2>7, <2>10, <2>11 DEF InlineInv
  <2>13. CseInv(m)' = CseInv(m)
    BY <2>4 DEF CseInv, CseFrames, FrameInv, HasInstruction
  <2>14. PassInv'
    BY <2>4, <2>5, <2>6, <2>7, <2>8, <2>9, <2>12, <2>13 DEF ValidInv, PassInv
  <2> QED BY <2>2, <2>3, <2>14 DEF ValidInv
<1> QED BY <1>1, NextPassValid, SubscribeValid, RunPassValid, PassStepValid, PassReturnsValid,
           RoundEndsValid, ProgramStepValid, RemoveUnusedValid DEF Next

-----------------------------------------------------------------------------
(***************************************************************************)
(* eliminate_common_subexpression merges everything in one sweep.          *)
(***************************************************************************)

(* What a call of cse_range has kept: later instructions are compared with *)
(* it, and those it has replaced are left out.                             *)
Kept(f) == f.instructions \ f.processed_ins

(***************************************************************************)
(* The outermost call: what is in use is still to be taken, in hand, or    *)
(* kept, and what is kept differs.  Equal instructions it has kept are     *)
(* still to be compared with the one in hand.                              *)
(***************************************************************************)
MergeBase(m, f) ==
  /\ \A y \in ToSet(list[m]) : outs[y] # {} => y \in f.todo \/ y = f.ins \/ y \in Kept(f)
  /\ \A y \in Kept(f) : outs[y] # {}
  /\ \A y, z \in Kept(f) : SameInstruction(y, z) => y = z
  /\ \A y \in f.processed_ins : outs[y] = {}
  /\ f.ins # End /\ f.ins \notin f.processed_ins =>
       \A y \in Kept(f) : SameInstruction(y, f.ins) => y \in f.found

(* Every call: what it has kept is in use, or the outermost takes it yet.  *)
MergeFrame(m, f, todo) ==
  /\ f.processed_ins \subseteq f.instructions \cup {f.ins}
  /\ f.ins # End => f.ins # LastOf(m) /\ (f.ins \in f.processed_ins \/ outs[f.ins] # {})
  /\ \A y \in Kept(f) : outs[y] # {} \/ y \in todo

(* Calls of the recursion are made while an instruction just replaced is in hand. *)
MergeOf(m, s) ==
  /\ MergeBase(m, s[1])
  /\ \A k \in DOMAIN s : MergeFrame(m, s[k], s[1].todo)
  /\ \A k \in DOMAIN s : k < Len(s) => s[k].ins # End /\ s[k].ins \in s[k].processed_ins

MergeInv(m) == MergeOf(m, stack)

LEMMA StackIs ==
  ASSUME NEW S, NEW s \in Seq(S), s # <<>>
  PROVE  /\ Len(s) \in Nat /\ Len(s) >= 1 /\ DOMAIN s = 1..Len(s) /\ Last(s) = s[Len(s)]
         /\ \A k \in DOMAIN s : s[k] \in S
         /\ Front(s) \in Seq(S) /\ Len(Front(s)) = Len(s) - 1
         /\ \A k \in 1..(Len(s) - 1) : Front(s)[k] = s[k]
<1>1. Len(s) \in Nat /\ Len(s) >= 1 /\ DOMAIN s = 1..Len(s) /\ Last(s) = s[Len(s)]
      /\ \A k \in DOMAIN s : s[k] \in S
  BY DEF Last
<1>2. PICK u, v : u = 1 /\ v = Len(s) - 1
  OBVIOUS
<1>3. Front(s) = SubSeq(s, u, v)
  BY <1>2 DEF Front
<1>4. \A k \in u..v : s[k] \in S
  BY <1>1, <1>2
<1>5. /\ SubSeq(s, u, v) \in Seq(S) /\ Len(SubSeq(s, u, v)) = Len(s) - 1
      /\ \A k \in 1..(Len(s) - 1) : SubSeq(s, u, v)[k] = s[k]
  BY <1>1, <1>2, <1>4
<1> QED BY <1>1, <1>3, <1>5

(* The innermost call goes on. *)
LEMMA TopSet ==
  ASSUME NEW S, NEW s \in Seq(S), s # <<>>, NEW c \in S, NEW r, r = Append(Front(s), c)
  PROVE  /\ Len(r) = Len(s) /\ DOMAIN r = 1..Len(s)
         /\ \A k \in 1..Len(s) : r[k] = IF k = Len(s) THEN c ELSE s[k]
<1>1. PICK f : f = Front(s)
  OBVIOUS
<1>2. f \in Seq(S) /\ Len(f) = Len(s) - 1 /\ (\A k \in 1..(Len(s) - 1) : f[k] = s[k])
      /\ Len(s) \in Nat /\ Len(s) >= 1
  BY <1>1, StackIs
<1>3. /\ Len(Append(f, c)) = Len(s) /\ DOMAIN Append(f, c) = 1..Len(s)
      /\ \A k \in 1..Len(s) : Append(f, c)[k] = IF k = Len(s) THEN c ELSE f[k]
  BY <1>2
<1>4. \A k \in 1..Len(s) : k # Len(s) => k \in 1..(Len(s) - 1)
  BY <1>2
<1> QED BY <1>1, <1>2, <1>3, <1>4

(* It calls another one. *)
Calling(s, c, d) == Front(s) \o <<c, d>>

LEMMA TopCalls ==
  ASSUME NEW S, NEW s \in Seq(S), s # <<>>, NEW c \in S, NEW d \in S,
         NEW r, r = Calling(s, c, d), NEW n, n = Len(s)
  PROVE  /\ n \in Nat /\ n >= 1 /\ Len(r) = n + 1 /\ DOMAIN r = 1..(n + 1)
         /\ r[n] = c /\ r[n + 1] = d
         /\ n > 1 => r[1] = s[1]
         /\ \A k \in DOMAIN r : k = n \/ k = n + 1 \/ (r[k] = s[k] /\ k \in DOMAIN s /\ k < n)
<1>1. PICK f : f = Front(s)
  OBVIOUS
<1>2. f \in Seq(S) /\ Len(f) = n - 1 /\ (\A k \in 1..(n - 1) : f[k] = s[k])
      /\ n \in Nat /\ n >= 1 /\ DOMAIN s = 1..n
  BY <1>1, StackIs
<1>3. PICK p : p = <<c, d>>
  OBVIOUS
<1>4. p \in Seq(S) /\ Len(p) = 2 /\ p[1] = c /\ p[2] = d
  BY <1>3
<1>5. r = f \o p
  BY <1>1, <1>3 DEF Calling
<1>6. /\ r \in Seq(S) /\ Len(r) = Len(f) + Len(p)
      /\ \A k \in 1..(Len(f) + Len(p)) : r[k] = IF k <= Len(f) THEN f[k] ELSE p[k - Len(f)]
  <2>1. /\ f \o p \in Seq(S) /\ Len(f \o p) = Len(f) + Len(p)
        /\ \A k \in 1..(Len(f) + Len(p)) : (f \o p)[k] = IF k <= Len(f) THEN f[k] ELSE p[k - Len(f)]
    BY <1>2, <1>4, ConcatProperties
  <2> QED BY <1>5, <2>1
<1>7. Len(f) + Len(p) = n + 1
  BY <1>2, <1>4
<1>8. \A k \in 1..(n + 1) : r[k] = IF k <= n - 1 THEN f[k] ELSE p[k - (n - 1)]
  BY <1>2, <1>6, <1>7
<1>9. Len(r) = n + 1 /\ DOMAIN r = 1..(n + 1)
  BY <1>6, <1>7
<1>10. r[n] = c
  <2>1. n \in 1..(n + 1) /\ ~ (n <= n - 1) /\ n - (n - 1) = 1
    BY <1>2
  <2> QED BY <1>4, <1>8, <2>1
<1>11. r[n + 1] = d
  <2>1. n + 1 \in 1..(n + 1) /\ ~ (n + 1 <= n - 1) /\ (n + 1) - (n - 1) = 2
    BY <1>2
  <2> QED BY <1>4, <1>8, <2>1
<1>12. ASSUME NEW k \in 1..(n - 1) PROVE r[k] = s[k] /\ k \in DOMAIN s /\ k < n
  <2>1. k \in 1..(n + 1) /\ k <= n - 1 /\ k \in 1..n /\ k < n
    BY <1>2
  <2> QED BY <1>2, <1>8, <2>1
<1>13. \A k \in 1..(n + 1) : k \in 1..(n - 1) \/ k = n \/ k = n + 1
  BY <1>2
<1>14. n > 1 => 1 \in 1..(n - 1)
  BY <1>2
<1> QED BY <1>2, <1>9, <1>10, <1>11, <1>12, <1>13, <1>14

(* The calls, as CseInv has them. *)
LEMMA StackTyped ==
  ASSUME NEW m, CseInv(m)
  PROVE  /\ stack # <<>> /\ stack \in Seq(CseFrames(m)) /\ Len(stack) \in Nat /\ Len(stack) >= 1
         /\ DOMAIN stack = 1..Len(stack) /\ Top = stack[Len(stack)] /\ 1 \in DOMAIN stack
         /\ \A k \in DOMAIN stack : stack[k] \in CseFrames(m)
<1>1. PICK F : F = CseFrames(m)
  OBVIOUS
<1>2. stack # <<>> /\ stack \in Seq(F)
  BY <1>1 DEF CseInv
<1>3. /\ Len(stack) \in Nat /\ Len(stack) >= 1 /\ DOMAIN stack = 1..Len(stack)
      /\ Last(stack) = stack[Len(stack)] /\ \A k \in DOMAIN stack : stack[k] \in F
  BY <1>2, StackIs
<1> QED BY <1>1, <1>2, <1>3 DEF Top

LEMMA MergeSame ==
  ASSUME NEW m, NEW r, MergeOf(m, r), UNCHANGED graph PROVE MergeOf(m, r)'
<1>1. UNCHANGED <<list, outs, args, op, subs>>
  BY DEF graph
<1>2. ASSUME NEW f PROVE MergeBase(m, f)' = MergeBase(m, f)
  BY <1>1 DEF MergeBase, SameInstruction
<1>3. ASSUME NEW f, NEW d PROVE MergeFrame(m, f, d)' = MergeFrame(m, f, d)
  BY <1>1 DEF MergeFrame, LastOf
<1>4. /\ MergeBase(m, r[1])' /\ \A k \in DOMAIN r : MergeFrame(m, r[k], r[1].todo)'
      /\ \A k \in DOMAIN r : k < Len(r) => r[k].ins # End /\ r[k].ins \in r[k].processed_ins
  BY <1>2, <1>3 DEF MergeOf
<1> QED BY <1>4 DEF MergeOf

(* A step of the innermost call that leaves the program as it is. *)
LEMMA MergeTop ==
  ASSUME NEW m, CseInv(m), MergeInv(m), NEW c \in CseFrames(m),
         stack' = Append(Front(stack), c), UNCHANGED graph,
         MergeFrame(m, c, IF Len(stack) = 1 THEN c.todo ELSE stack[1].todo),
         Len(stack) = 1 => MergeBase(m, c)
  PROVE  MergeInv(m)'
<1>1. PICK F : F = CseFrames(m)
  OBVIOUS
<1>2. PICK s, r : s = stack /\ r = stack'
  OBVIOUS
<1>3. /\ s # <<>> /\ s \in Seq(F) /\ Len(s) \in Nat /\ Len(s) >= 1 /\ DOMAIN s = 1..Len(s)
  BY <1>1, <1>2, StackTyped
<1>31. c \in F /\ r = Append(Front(s), c)
  BY <1>1, <1>2
<1>4. /\ Len(r) = Len(s) /\ DOMAIN r = 1..Len(s)
      /\ \A k \in 1..Len(s) : r[k] = IF k = Len(s) THEN c ELSE s[k]
  <2>1. s \in Seq(F) /\ s # <<>> /\ c \in F /\ r = Append(Front(s), c)
    BY <1>3, <1>31
  <2>2. Len(r) = Len(s)
    BY <2>1, TopSet
  <2>3. DOMAIN r = 1..Len(s)
    BY <2>1, TopSet
  <2>4. \A k \in 1..Len(s) : r[k] = IF k = Len(s) THEN c ELSE s[k]
    BY <2>1, TopSet
  <2> QED BY <2>2, <2>3, <2>4
<1>5. MergeOf(m, s)
  BY <1>2 DEF MergeInv
<1>6. 1 \in 1..Len(s) /\ r[1] = IF Len(s) = 1 THEN c ELSE s[1]
  <2>1. 1 \in 1..Len(s)
    BY <1>3
  <2>2. r[1] = IF 1 = Len(s) THEN c ELSE s[1]
    BY <1>4, <2>1
  <2> QED BY <2>1, <2>2
<1>61. PICK todo : todo = IF Len(s) = 1 THEN c.todo ELSE s[1].todo
  OBVIOUS
<1>62. r[1].todo = todo /\ MergeFrame(m, c, todo) /\ (Len(s) = 1 => MergeBase(m, c))
  <2>1. r[1].todo = todo
    BY <1>6, <1>61
  <2>2. MergeFrame(m, c, todo)
    BY <1>2, <1>61
  <2>3. Len(s) = 1 => MergeBase(m, c)
    BY <1>2
  <2> QED BY <2>1, <2>2, <2>3
<1>63. MergeBase(m, r[1])
  BY <1>5, <1>6, <1>62 DEF MergeOf
<1>7. ASSUME NEW k \in DOMAIN r PROVE MergeFrame(m, r[k], r[1].todo)
  <2>1. CASE k = Len(s)
    BY <1>4, <1>62, <1>7, <2>1
  <2>2. CASE k # Len(s)
    <3>0. k \in 1..Len(s) /\ DOMAIN s = 1..Len(s) /\ Len(s) \in Nat
      BY <1>3, <1>4, <1>7
    <3>1. r[k] = s[k] /\ k \in DOMAIN s /\ Len(s) # 1
      <4>1. r[k] = IF k = Len(s) THEN c ELSE s[k]
        BY <1>4, <3>0
      <4>2. Len(s) # 1
        BY <2>2, <3>0
      <4> QED BY <2>2, <3>0, <4>1, <4>2
    <3>2. MergeFrame(m, s[k], s[1].todo)
      BY <1>5, <3>1 DEF MergeOf
    <3>3. todo = s[1].todo
      BY <1>61, <3>1
    <3> QED BY <1>62, <3>1, <3>2, <3>3
  <2> QED BY <2>1, <2>2
<1>8. ASSUME NEW k \in DOMAIN r, k < Len(r) PROVE r[k].ins # End /\ r[k].ins \in r[k].processed_ins
  <2>0. k \in 1..Len(s) /\ DOMAIN s = 1..Len(s) /\ Len(s) \in Nat /\ k < Len(s)
    BY <1>3, <1>4, <1>8
  <2>1. r[k] = s[k] /\ k \in DOMAIN s /\ k < Len(s)
    <3>1. r[k] = IF k = Len(s) THEN c ELSE s[k]
      BY <1>4, <2>0
    <3>2. k # Len(s)
      BY <2>0
    <3> QED BY <2>0, <3>1, <3>2
  <2> QED BY <1>5, <2>1 DEF MergeOf
<1>9. MergeOf(m, r)
  BY <1>63, <1>7, <1>8 DEF MergeOf
<1> QED BY <1>2, <1>9, MergeSame DEF MergeInv

(* What MergeOf says of the innermost call, t. *)
LEMMA MergeTopOf ==
  ASSUME NEW m, CseInv(m), MergeInv(m), NEW t, t = Top
  PROVE  /\ MergeBase(m, stack[1]) /\ MergeFrame(m, t, stack[1].todo)
         /\ Len(stack) = 1 => t = stack[1]
         /\ Len(stack) > 1 => stack[1].ins # End /\ stack[1].ins \in stack[1].processed_ins
         /\ t \in CseFrames(m) /\ stack[1] \in CseFrames(m)
<1>1. /\ Len(stack) \in Nat /\ Len(stack) >= 1 /\ DOMAIN stack = 1..Len(stack)
      /\ t = stack[Len(stack)] /\ 1 \in DOMAIN stack
      /\ \A k \in DOMAIN stack : stack[k] \in CseFrames(m)
  BY StackTyped
<1>2. Len(stack) \in DOMAIN stack
  BY <1>1
<1>3. MergeOf(m, stack)
  BY DEF MergeInv
<1>4. MergeFrame(m, t, stack[1].todo)
  BY <1>1, <1>2, <1>3 DEF MergeOf
<1>5. Len(stack) > 1 => stack[1].ins # End /\ stack[1].ins \in stack[1].processed_ins
  BY <1>1, <1>3 DEF MergeOf
<1> QED BY <1>1, <1>2, <1>3, <1>4, <1>5 DEF MergeOf

(* What CseInv holds of after a step. *)
LEMMA TopAdded ==
  ASSUME NEW m, CseInv(m), CseInv(m)', NEW c, stack' = Append(Front(stack), c), UNCHANGED list
  PROVE  c \in CseFrames(m)
<1>1. PICK F, s, r : F = CseFrames(m) /\ s = stack /\ r = stack'
  OBVIOUS
<1>2. s \in Seq(F) /\ s # <<>>
  BY <1>1 DEF CseInv
<1>3. CseFrames(m)' = F
  BY <1>1 DEF CseFrames, FrameInv
<1>4. r \in Seq(F) /\ r # <<>>
  BY <1>1, <1>3 DEF CseInv
<1>5. PICK f : f = Front(s)
  OBVIOUS
<1>6. r = Append(f, c) /\ f \in Seq(F)
  BY <1>1, <1>2, <1>5, StackIs
<1>7. Len(f) \in Nat /\ Len(r) = Len(f) + 1 /\ r[Len(f) + 1] = c
  BY <1>6
<1>8. Last(r) = c /\ Last(r) \in F
  BY <1>4, <1>7, TopOf DEF Last
<1> QED BY <1>1, <1>8

LEMMA CseTakeMerge ==
  ASSUME ProgramInv, NEW m \in UsedModules, CseInv(m), MergeInv(m), CseTake(m), CseInv(m)'
  PROVE  MergeInv(m)'
<1>1. PICK t : t = Top
  OBVIOUS
<1>2. PICK i \in t.todo :
        /\ t.ins = End /\ UNCHANGED graph
        /\ stack' = Append(Front(stack),
                      IF outs[i] = {} THEN [t EXCEPT !.todo = @ \ {i}]
                      ELSE [t EXCEPT !.todo = @ \ {i}, !.ins = i,
                                     !.found = {j \in t.instructions : Name(j) = Name(i)}])
  BY <1>1 DEF CseTake, SetTop
<1>3. PICK c : /\ stack' = Append(Front(stack), c)
               /\ c = IF outs[i] = {} THEN [t EXCEPT !.todo = @ \ {i}]
                      ELSE [t EXCEPT !.todo = @ \ {i}, !.ins = i,
                                     !.found = {j \in t.instructions : Name(j) = Name(i)}]
  BY <1>2
<1>4. /\ MergeBase(m, stack[1]) /\ MergeFrame(m, t, stack[1].todo)
      /\ Len(stack) = 1 => t = stack[1]
      /\ t \in CseFrames(m)
  BY <1>1, MergeTopOf
<1>5. /\ t \in [todo : SUBSET Ins, ins : Ins \cup {End}, found : SUBSET Ins,
                instructions : SUBSET Ins, processed_ins : SUBSET Ins]
      /\ FrameInv(m, t)
  BY <1>4 DEF CseFrames
<1>6. /\ c.todo = t.todo \ {i} /\ c.instructions = t.instructions
      /\ c.processed_ins = t.processed_ins /\ Kept(c) = Kept(t)
      /\ outs[i] = {} => c.ins = End
      /\ outs[i] # {} => c.ins = i /\ c.found = {j \in t.instructions : Name(j) = Name(i)}
  BY <1>2, <1>3, <1>5 DEF Kept
<1>7. c \in CseFrames(m)
  BY <1>2, <1>3, TopAdded DEF graph
<1>8. GraphShape /\ Ends /\ m \in Modules /\ i \in ToSet(list[m]) /\ i # End
  <2>1. GraphShape /\ Ends /\ m \in Modules
    BY ShapeOrdered DEF ProgramInv
  <2>2. i \in ToSet(list[m]) /\ i \in Ins
    BY <1>2, <1>5 DEF FrameInv
  <2> QED BY <2>1, <2>2, EndAssumption
<1>9. outs[LastOf(m)] = {}
  BY <1>8 DEF Ends
<1>10. c.processed_ins \subseteq c.instructions \cup {c.ins}
  <2>1. End \notin t.processed_ins
    BY <1>5, EndAssumption
  <2>2. t.processed_ins \subseteq t.instructions
    BY <1>2, <1>4, <2>1 DEF MergeFrame
  <2> QED BY <1>6, <2>2
<1>11. c.ins # End => c.ins # LastOf(m) /\ outs[c.ins] # {}
  BY <1>6, <1>9
<1>12. CASE Len(stack) = 1
  <2>1. MergeBase(m, t) /\ t = stack[1]
    BY <1>4, <1>12
  <2>2. \A y \in Kept(c) : outs[y] # {}
    BY <1>6, <2>1 DEF MergeBase
  <2>3. MergeFrame(m, c, c.todo)
    BY <1>10, <1>11, <2>2 DEF MergeFrame
  <2>4. \A y \in ToSet(list[m]) : outs[y] # {} => y \in c.todo \/ y = c.ins \/ y \in Kept(c)
    <3> SUFFICES ASSUME NEW y \in ToSet(list[m]), outs[y] # {}
                 PROVE  y \in c.todo \/ y = c.ins \/ y \in Kept(c)
      OBVIOUS
    <3>1. y # End
      BY <1>8, ShapeOrdered, EndAssumption
    <3>2. y \in t.todo \/ y \in Kept(t)
      BY <1>2, <2>1, <3>1 DEF MergeBase
    <3> QED BY <1>6, <3>2
  <2>5. c.ins # End => \A y \in Kept(c) : SameInstruction(y, c.ins) => y \in c.found
    BY <1>6 DEF Kept, SameInstruction, Name
  <2>6. MergeBase(m, c)
    BY <1>6, <2>1, <2>2, <2>4, <2>5 DEF MergeBase
  <2> QED BY <1>2, <1>3, <1>7, <1>12, <2>3, <2>6, MergeTop
<1>13. CASE Len(stack) # 1
  <2>1. \A y \in Kept(c) : outs[y] # {} \/ y \in stack[1].todo
    BY <1>4, <1>6 DEF MergeFrame
  <2>2. MergeFrame(m, c, stack[1].todo)
    BY <1>10, <1>11, <2>1 DEF MergeFrame
  <2> QED BY <1>2, <1>3, <1>7, <1>13, <2>2, MergeTop
<1> QED BY <1>12, <1>13

LEMMA CseAddMerge ==
  ASSUME ProgramInv, NEW m \in UsedModules, CseInv(m), MergeInv(m), CseAdd, CseInv(m)'
  PROVE  MergeInv(m)'
<1>1. PICK t, c : /\ t = Top /\ stack' = Append(Front(stack), c) /\ t.ins # End /\ UNCHANGED graph
                  /\ c = [t EXCEPT !.ins = End, !.found = {}, !.instructions = @ \cup {t.ins}]
                  /\ \A eq \in t.found : eq \in t.processed_ins \/ ~ SameInstruction(eq, t.ins)
  BY DEF CseAdd, SetTop, Matches
<1>2. /\ MergeBase(m, stack[1]) /\ MergeFrame(m, t, stack[1].todo)
      /\ Len(stack) = 1 => t = stack[1]
      /\ t \in CseFrames(m)
  BY <1>1, MergeTopOf
<1>3. t \in [todo : SUBSET Ins, ins : Ins \cup {End}, found : SUBSET Ins,
             instructions : SUBSET Ins, processed_ins : SUBSET Ins]
  BY <1>2 DEF CseFrames
<1>4. /\ c.todo = t.todo /\ c.ins = End /\ c.found = {} /\ c.instructions = t.instructions \cup {t.ins}
      /\ c.processed_ins = t.processed_ins
  BY <1>1, <1>3
<1>5. \A y : y \in Kept(c) <=> y \in Kept(t) \/ (y = t.ins /\ y \notin t.processed_ins)
  BY <1>4 DEF Kept
<1>6. c \in CseFrames(m)
  BY <1>1, TopAdded DEF graph
<1>7. c.processed_ins \subseteq c.instructions \cup {c.ins}
  BY <1>2, <1>4 DEF MergeFrame
<1>8. \A y \in Kept(c) : outs[y] # {} \/ y \in stack[1].todo
  BY <1>1, <1>2, <1>5 DEF MergeFrame
<1>9. MergeFrame(m, c, stack[1].todo)
  BY <1>4, <1>7, <1>8 DEF MergeFrame
<1>10. CASE Len(stack) = 1
  <2>1. MergeBase(m, t) /\ t = stack[1]
    BY <1>2, <1>10
  <2>2. \A y \in Kept(c) : outs[y] # {}
    BY <1>1, <1>2, <1>5, <2>1 DEF MergeBase, MergeFrame
  <2>3. \A y \in ToSet(list[m]) : outs[y] # {} => y \in c.todo \/ y \in Kept(c)
    BY <1>4, <1>5, <2>1 DEF MergeBase
  <2>4. ASSUME NEW y \in Kept(c), NEW z \in Kept(c), SameInstruction(y, z) PROVE y = z
    <3>1. SameInstruction(z, y)
      BY <2>4 DEF SameInstruction
    <3>2. t.ins \notin t.processed_ins => \A x \in Kept(t) : ~ SameInstruction(x, t.ins)
      BY <1>1, <2>1 DEF MergeBase, Kept
    <3> QED BY <1>5, <2>1, <2>4, <3>1, <3>2 DEF MergeBase
  <2>5. \A y \in c.processed_ins : outs[y] = {}
    BY <1>4, <2>1 DEF MergeBase
  <2>6. MergeBase(m, c)
    BY <1>4, <2>2, <2>3, <2>4, <2>5 DEF MergeBase
  <2>7. MergeFrame(m, c, c.todo)
    BY <1>4, <1>9, <2>1
  <2> QED BY <1>1, <1>6, <1>10, <2>6, <2>7, MergeTop
<1>11. CASE Len(stack) # 1
  BY <1>1, <1>6, <1>9, <1>11, MergeTop
<1> QED BY <1>10, <1>11

LEMMA CseReturnMerge ==
  ASSUME ProgramInv, NEW m \in UsedModules, CseInv(m), MergeInv(m), CseReturn
  PROVE  MergeInv(m)'
<1>1. PICK F, s, r : F = CseFrames(m) /\ s = stack /\ r = stack'
  OBVIOUS
<1>2. /\ s # <<>> /\ s \in Seq(F) /\ Len(s) \in Nat /\ DOMAIN s = 1..Len(s)
      /\ r = Front(s) /\ Len(s) > 1 /\ UNCHANGED graph
  BY <1>1, StackTyped DEF CseReturn
<1>3. r \in Seq(F) /\ Len(r) = Len(s) - 1 /\ \A k \in 1..(Len(s) - 1) : r[k] = s[k]
  BY <1>2, StackIs
<1>4. MergeOf(m, s)
  BY <1>1 DEF MergeInv
<1>5. /\ DOMAIN r = 1..(Len(s) - 1) /\ 1 \in 1..(Len(s) - 1)
      /\ \A k \in 1..(Len(s) - 1) : k \in DOMAIN s /\ k < Len(s)
  BY <1>2, <1>3
<1>6. r[1] = s[1] /\ \A k \in DOMAIN r : r[k] = s[k] /\ k \in DOMAIN s /\ k < Len(s)
  BY <1>3, <1>5
<1>7. /\ MergeBase(m, r[1]) /\ \A k \in DOMAIN r : MergeFrame(m, r[k], r[1].todo)
      /\ \A k \in DOMAIN r : r[k].ins # End /\ r[k].ins \in r[k].processed_ins
  BY <1>4, <1>6 DEF MergeOf
<1>8. MergeOf(m, r)
  BY <1>7 DEF MergeOf
<1> QED BY <1>1, <1>2, <1>8, MergeSame DEF MergeInv

(***************************************************************************)
(* A match: x, in hand, is replaced by eq.  No use of x but later ones are *)
(* rewritten, and unless it is dead already, the outermost call has it in  *)
(* hand or takes it yet: so what that has kept stays as it is.             *)
(***************************************************************************)
LEMMA MatchLeavesKept ==
  ASSUME ProgramInv, NEW m \in UsedModules, CseInv(m), MergeInv(m), NEW t, t = Top,
         NEW x, x = t.ins, NEW f, f = stack[1], NEW eq \in t.found, x # End, eq \notin t.processed_ins,
         SameInstruction(eq, x), ReplaceInstruction(m, x, eq)
  PROVE  /\ x \in ToSet(list[m]) /\ x \in Ins /\ eq \in ToSet(list[m]) /\ eq # x /\ eq \in Ins
         /\ eq \in Kept(t) /\ x \notin Kept(t)
         /\ outs'[x] = {} /\ outs'[eq] = outs[eq] \cup outs[x]
         /\ \A y \in Ins : y # x /\ y # eq => outs'[y] = outs[y]
         /\ UNCHANGED <<op, subs>>
         /\ \A y \in Kept(f) : args'[y] = args[y] /\ y # x
         /\ Len(stack) > 1 => outs[x] = {} \/ x \in f.todo
<1>2. /\ MergeBase(m, f) /\ MergeFrame(m, t, f.todo)
      /\ Len(stack) = 1 => t = f
      /\ Len(stack) > 1 => f.ins # End /\ f.ins \in f.processed_ins
      /\ t \in CseFrames(m) /\ f \in CseFrames(m)
  BY MergeTopOf
<1>3. /\ t \in [todo : SUBSET Ins, ins : Ins \cup {End}, found : SUBSET Ins,
                instructions : SUBSET Ins, processed_ins : SUBSET Ins]
      /\ f \in [todo : SUBSET Ins, ins : Ins \cup {End}, found : SUBSET Ins,
                instructions : SUBSET Ins, processed_ins : SUBSET Ins]
      /\ FrameInv(m, t) /\ FrameInv(m, f)
  BY <1>2 DEF CseFrames
<1>4. /\ x \in ToSet(list[m]) /\ x \in Ins /\ eq \in t.instructions /\ Earlier(list[m], eq, x)
      /\ \A e \in t.instructions : Earlier(list[m], e, x)
  BY <1>3, EndAssumption DEF FrameInv
<1>5. GraphShape /\ GraphTypeOK /\ UseListsExact /\ InputsEvaluated /\ Ends /\ m \in Modules
  BY ShapeOrdered DEF ProgramInv, GraphInv
<1>6. eq \in ToSet(list[m]) /\ eq # x /\ eq \in Ins /\ eq \in Live
  BY <1>4, <1>5, OrderIn, LiveIs, ShapeOrdered
<1>7. x # LastOf(m)
  BY <1>2 DEF MergeFrame
<1>8. Available(list, subs, m, x, eq) /\ ReplaceInstruction(m, x, eq)
  BY <1>4 DEF Available
<1>9. /\ outs'[x] = {} /\ outs'[eq] = outs[eq] \cup outs[x]
      /\ \A y \in Ins : y # x /\ y # eq => outs'[y] = outs[y]
      /\ UNCHANGED <<op, subs>>
      /\ \A u \in Ins : u \notin outs[x] => args'[u] = args[u]
  <2>1. IF x = LastOf(m)
          THEN /\ \A u \in Ins : args'[u] = IF u = x THEN <<eq>> ELSE args[u]
               /\ \A u \in Ins : op'[u] = IF u = x THEN <<"identity", End>> ELSE op[u]
               /\ \A j \in Ins : outs'[j] = (outs[j] \ {x}) \cup (IF j = eq THEN {x} ELSE {})
          ELSE /\ outs'[x] = {} /\ outs'[eq] = outs[eq] \cup outs[x]
               /\ \A j \in Ins : j # x /\ j # eq => outs'[j] = outs[j]
               /\ UNCHANGED <<op, subs>>
               /\ \A u \in Ins : args'[u] = IF u \in outs[x] THEN ReplaceAll(args[u], x, eq)
                                            ELSE args[u]
    BY <1>6, <1>8, ReplaceInstructionOrder
  <2> QED BY <1>7, <2>1
<1>10. eq \in Kept(t)
  BY <1>4 DEF Kept
<1>11. \A e : ~ Earlier(list[m], e, e)
  BY <1>5, OrderIn
<1>12. x \notin Kept(t)
  BY <1>4, <1>11 DEF Kept
<1>13. ASSUME Len(stack) > 1
       PROVE  /\ \A y \in Kept(f) : y # x /\ (Earlier(list[m], y, x) \/ outs[x] = {})
              /\ outs[x] = {} \/ x \in f.todo
  <2>1. outs[f.ins] = {}
    BY <1>2, <1>13 DEF MergeBase
  <2>2. \A e \in f.instructions, y \in f.todo : Earlier(list[m], e, y)
    BY <1>3 DEF FrameInv
  <2>3. outs[x] # {} => x \in f.todo \/ x \in Kept(f)
    BY <1>2, <1>4, <2>1 DEF MergeBase
  <2>4. \A e \in f.instructions : e # f.ins /\ Earlier(list[m], e, f.ins)
    BY <1>2, <1>3, <1>11, <1>13 DEF FrameInv
  <2>5. ASSUME x \in Kept(f) PROVE FALSE
    <3>1. eq \notin f.todo
      <4>1. eq \in f.todo => Earlier(list[m], x, eq)
        BY <2>2, <2>5 DEF Kept
      <4> QED BY <1>4, <1>5, <4>1, OrderIn
    <3>2. outs[eq] # {} /\ eq # f.ins
      BY <1>2, <1>10, <2>1, <3>1 DEF MergeFrame
    <3>3. eq \in Kept(f)
      BY <1>2, <1>6, <3>1, <3>2 DEF MergeBase
    <3> QED BY <1>2, <1>6, <2>5, <3>3 DEF MergeBase
  <2> QED BY <1>12, <1>13, <2>1, <2>2, <2>3, <2>4, <2>5 DEF Kept
<1>14. ASSUME ~ (Len(stack) > 1)
       PROVE  \A y \in Kept(f) : y # x /\ Earlier(list[m], y, x)
  <2>0. PICK n : n = Len(stack)
    OBVIOUS
  <2>a. n \in Nat /\ n >= 1 /\ ~ (n > 1)
    BY <1>14, <2>0, StackTyped
  <2>b. n = 1
    BY <2>a
  <2>1. Len(stack) = 1
    BY <2>0, <2>b
  <2> QED BY <1>2, <1>4, <1>12, <1>14, <2>1 DEF Kept
<1>15. /\ \A y \in Kept(f) : y # x /\ (Earlier(list[m], y, x) \/ outs[x] = {})
       /\ Len(stack) > 1 => outs[x] = {} \/ x \in f.todo
  BY <1>13, <1>14
<1>16. ASSUME NEW y \in Kept(f) PROVE args'[y] = args[y]
  <2>1. y \in ToSet(list[m]) /\ y \in Ins
    BY <1>3 DEF Kept, FrameInv
  <2>2. ASSUME y \in outs[x] PROVE FALSE
    <3>1. x \in ToSet(args[y])
      BY <1>4, <1>5, <2>1, <2>2 DEF UseListsExact, ArgsOf
    <3>2. Available(list, subs, m, y, x)
      BY <1>5, <2>1, <3>1 DEF InputsEvaluated, InOrder
    <3>3. Earlier(list[m], x, y)
      BY <1>4, <1>5, <2>1, <3>2, NotBeforeItself, ShapeOrdered DEF UsedModules
    <3>4. Earlier(list[m], y, x)
      BY <1>15, <2>2
    <3> QED BY <1>5, <3>3, <3>4, OrderIn
  <2> QED BY <1>9, <2>1, <2>2
<1> QED BY <1>4, <1>6, <1>9, <1>10, <1>12, <1>15, <1>16

LEMMA CseMatchMerge ==
  ASSUME ProgramInv, NEW m \in UsedModules, CseInv(m), MergeInv(m), NEW eq \in Top.found,
         CseMatch(m, eq), CseInv(m)'
  PROVE  MergeInv(m)'
<1>1. PICK F, s, r, t, x, f, range :
        /\ F = CseFrames(m) /\ s = stack /\ r = stack' /\ t = Top /\ x = t.ins /\ f = stack[1]
        /\ range = outs'[eq] \cap ToSet(list[m])
  OBVIOUS
<1>2. PICK g, h :
        /\ g = [t EXCEPT !.found = @ \ {eq}, !.processed_ins = @ \cup {x}]
        /\ h = Frame(range) /\ r = Front(s) \o <<g, h>>
        /\ x # End /\ eq \in t.found /\ eq \notin t.processed_ins /\ SameInstruction(eq, x)
        /\ ReplaceInstruction(m, x, eq) /\ UNCHANGED list
  BY <1>1 DEF CseMatch, Matches
<1>3. /\ MergeBase(m, f) /\ MergeFrame(m, t, f.todo) /\ t \in F /\ f \in F
      /\ Len(stack) = 1 => t = f
      /\ Len(stack) > 1 => f.ins # End /\ f.ins \in f.processed_ins
  BY <1>1, MergeTopOf
<1>4. /\ x \in ToSet(list[m]) /\ x \in Ins /\ eq \in ToSet(list[m]) /\ eq # x /\ eq \in Ins
      /\ eq \in Kept(t) /\ x \notin Kept(t)
      /\ outs'[x] = {} /\ outs'[eq] = outs[eq] \cup outs[x]
      /\ \A y \in Ins : y # x /\ y # eq => outs'[y] = outs[y]
      /\ UNCHANGED <<op, subs>>
      /\ \A y \in Kept(f) : args'[y] = args[y] /\ y # x
      /\ Len(stack) > 1 => outs[x] = {} \/ x \in f.todo
  BY <1>1, <1>2, MatchLeavesKept
<1>5. /\ t \in [todo : SUBSET Ins, ins : Ins \cup {End}, found : SUBSET Ins,
                instructions : SUBSET Ins, processed_ins : SUBSET Ins]
      /\ f \in [todo : SUBSET Ins, ins : Ins \cup {End}, found : SUBSET Ins,
                instructions : SUBSET Ins, processed_ins : SUBSET Ins]
      /\ FrameInv(m, t) /\ FrameInv(m, f)
  BY <1>1, <1>3 DEF CseFrames
<1>6. /\ g.todo = t.todo /\ g.ins = x /\ g.instructions = t.instructions
      /\ g.processed_ins = t.processed_ins \cup {x} /\ Kept(g) = Kept(t)
  BY <1>1, <1>2, <1>4, <1>5 DEF Kept
<1>7. /\ h.todo = range /\ h.ins = End /\ h.found = {} /\ h.instructions = {}
      /\ h.processed_ins = {} /\ Kept(h) = {}
  BY <1>2 DEF Kept, Frame
<1>8. GraphShape /\ m \in Modules
  BY ShapeOrdered DEF ProgramInv
<1>9. /\ Len(s) \in Nat /\ Len(s) >= 1 /\ DOMAIN s = 1..Len(s) /\ s # <<>> /\ s \in Seq(F)
      /\ \A k \in DOMAIN s : s[k] \in F
  BY <1>1, StackTyped
<1>10. ASSUME NEW y \in Ins, outs'[y] # {} PROVE y = eq \/ (outs[y] # {} /\ y # x)
  BY <1>4, <1>10
<1>11. ASSUME NEW y \in Ins, outs[y] # {} PROVE outs'[y] # {} \/ y = x
  BY <1>4, <1>11
<1>a. PICK n : n = Len(s)
  OBVIOUS
<1>12. /\ n \in Nat /\ n >= 1 /\ Len(r) = n + 1 /\ DOMAIN r = 1..(n + 1)
       /\ r[n] = g /\ r[n + 1] = h
       /\ n > 1 => r[1] = s[1]
       /\ \A k \in DOMAIN r : k = n \/ k = n + 1 \/ (r[k] = s[k] /\ k \in DOMAIN s /\ k < n)
  <2>1. g \in [todo : SUBSET Ins, ins : Ins \cup {End}, found : SUBSET Ins,
               instructions : SUBSET Ins, processed_ins : SUBSET Ins]
    BY <1>2, <1>4, <1>5
  <2>2. h \in [todo : SUBSET Ins, ins : Ins \cup {End}, found : SUBSET Ins,
               instructions : SUBSET Ins, processed_ins : SUBSET Ins]
    BY <1>1, <1>2, <1>8, ShapeOrdered DEF Frame
  <2>3. FrameInv(m, g) /\ FrameInv(m, h)
    <3>1. g.found \subseteq t.found
      BY <1>2, <1>5
    <3>2. range \subseteq ToSet(list[m])
      BY <1>1
    <3> QED BY <1>1, <1>5, <1>6, <1>7, <3>1, <3>2 DEF FrameInv
  <2>4. g \in F /\ h \in F
    BY <1>1, <2>1, <2>2, <2>3 DEF CseFrames
  <2>5. s \in Seq(F) /\ s # <<>> /\ r = Calling(s, g, h)
    BY <1>2, <1>9 DEF Calling
  <2>6. /\ n \in Nat /\ n >= 1 /\ Len(r) = n + 1 /\ DOMAIN r = 1..(n + 1)
    BY <1>a, <2>4, <2>5, TopCalls
  <2>7. r[n] = g /\ r[n + 1] = h
    BY <1>a, <2>4, <2>5, TopCalls
  <2>8. n > 1 => r[1] = s[1]
    BY <1>a, <2>4, <2>5, TopCalls
  <2>9. \A k \in DOMAIN r : k = n \/ k = n + 1 \/ (r[k] = s[k] /\ k \in DOMAIN s /\ k < n)
    BY <1>a, <2>4, <2>5, TopCalls
  <2> QED BY <2>6, <2>7, <2>8, <2>9
<1>13. /\ x # LastOf(m) /\ LastOf(m)' = LastOf(m) /\ t.processed_ins \subseteq t.instructions \cup {x}
  BY <1>1, <1>2, <1>3 DEF MergeFrame, LastOf
<1>14. Kept(t) \subseteq Ins /\ Kept(f) \subseteq Ins
  BY <1>5 DEF Kept
<1>15. \A y, z \in Kept(f) : SameInstruction(y, z)' <=> SameInstruction(y, z)
  BY <1>4 DEF SameInstruction
<1>16. MergeFrame(m, g, f.todo)'
  <2>1. \A y \in Kept(t) : outs'[y] # {} \/ y \in f.todo
    BY <1>3, <1>4, <1>11, <1>14 DEF MergeFrame
  <2>2. g.processed_ins \subseteq g.instructions \cup {g.ins}
    BY <1>6, <1>13
  <2> QED BY <1>6, <1>13, <2>1, <2>2 DEF MergeFrame
<1>17. MergeFrame(m, h, f.todo)'
  BY <1>7 DEF MergeFrame
<1>18. CASE n = 1
  <2>1. t = f /\ r[1] = g /\ r[2] = h /\ \A k \in DOMAIN r : k = 1 \/ k = 2
    <3>1. t = f
      BY <1>1, <1>3, <1>a, <1>18
    <3>2. \A k \in 1..(n + 1) : k = 1 \/ k = 2
      BY <1>18
    <3>3. n + 1 = 2
      BY <1>18
    <3> QED BY <1>12, <1>18, <3>1, <3>2, <3>3
  <2>2. \A y \in ToSet(list[m]) : outs'[y] # {} => y \in g.todo \/ y = g.ins \/ y \in Kept(g)
    <3> SUFFICES ASSUME NEW y \in ToSet(list[m]), outs'[y] # {}
                 PROVE  y \in g.todo \/ y = g.ins \/ y \in Kept(g)
      OBVIOUS
    <3>1. y \in Ins
      BY <1>8, ShapeOrdered
    <3>2. y = eq \/ outs[y] # {}
      BY <1>10, <3>1
    <3> QED BY <1>1, <1>3, <1>4, <1>6, <2>1, <3>2 DEF MergeBase
  <2>3. \A y \in Kept(g) : outs'[y] # {}
    BY <1>3, <1>4, <1>6, <1>11, <1>14, <2>1 DEF MergeBase
  <2>4. \A y, z \in Kept(g) : SameInstruction(y, z)' => y = z
    BY <1>3, <1>6, <1>15, <2>1 DEF MergeBase
  <2>5. \A y \in g.processed_ins : outs'[y] = {}
    <3>1. \A y \in t.processed_ins : outs[y] = {} /\ y \in Ins /\ y # eq
      BY <1>2, <1>3, <1>5, <2>1 DEF MergeBase
    <3> QED BY <1>4, <1>6, <3>1
  <2>6. x \in g.processed_ins
    BY <1>6
  <2>7. MergeBase(m, g)'
    BY <1>2, <1>6, <2>2, <2>3, <2>4, <2>5, <2>6 DEF MergeBase
  <2>8. MergeBase(m, r[1])' /\ r[1].todo = f.todo
    BY <1>6, <2>1, <2>7
  <2>9. \A k \in DOMAIN r : MergeFrame(m, r[k], r[1].todo)'
    BY <1>16, <1>17, <2>1, <2>8
  <2>10. \A k \in DOMAIN r : k < Len(r) => r[k].ins # End /\ r[k].ins \in r[k].processed_ins
    <3>1. ~ (2 < Len(r))
      <4>1. n + 1 = 2
        BY <1>18
      <4>2. Len(r) = 2
        BY <1>12, <4>1
      <4>3. ~ (2 < 2)
        OBVIOUS
      <4> QED BY <4>2, <4>3, Zenon
    <3>2. r[1].ins # End /\ r[1].ins \in r[1].processed_ins
      BY <1>2, <1>6, <2>1, <2>6
    <3>3. ASSUME NEW k \in DOMAIN r, k < Len(r) PROVE k = 1
      <4>1. k # 2
        BY <3>1, <3>3, Zenon
      <4> QED BY <2>1, <4>1
    <3> QED BY <3>2, <3>3
  <2>11. MergeOf(m, r)'
    BY <2>8, <2>9, <2>10 DEF MergeOf
  <2> QED BY <1>1, <2>11 DEF MergeInv
<1>19. CASE n > 1
  <2>0. MergeOf(m, s) /\ 1 \in DOMAIN s /\ f = s[1] /\ Len(s) > 1
    BY <1>1, <1>9, <1>a, <1>19 DEF MergeInv
  <2>1. r[1] = f
    BY <1>12, <1>19, <2>0
  <2>2. MergeFrame(m, f, f.todo)
    BY <2>0 DEF MergeOf
  <2>3. f.ins # End /\ f.ins \in f.processed_ins /\ (outs[x] = {} \/ x \in f.todo)
    BY <1>1, <1>3, <1>4, <2>0
  <2>4. outs[eq] # {} \/ eq \in f.todo
    BY <1>3, <1>4 DEF MergeFrame
  <2>5. \A y \in ToSet(list[m]) : outs'[y] # {} => y \in f.todo \/ y = f.ins \/ y \in Kept(f)
    <3> SUFFICES ASSUME NEW y \in ToSet(list[m]), outs'[y] # {}
                 PROVE  y \in f.todo \/ y = f.ins \/ y \in Kept(f)
      OBVIOUS
    <3>1. y \in Ins
      BY <1>8, ShapeOrdered
    <3>2. outs[y] # {} \/ y \in f.todo
      BY <1>10, <2>4, <3>1
    <3> QED BY <1>3, <3>2 DEF MergeBase
  <2>6. \A y \in Kept(f) : outs'[y] # {}
    BY <1>3, <1>4, <1>11, <1>14 DEF MergeBase
  <2>7. \A y, z \in Kept(f) : SameInstruction(y, z)' => y = z
    BY <1>3, <1>15 DEF MergeBase
  <2>8. ASSUME NEW y \in f.processed_ins PROVE outs'[y] = {}
    <3>1. outs[y] = {} /\ y \in Ins /\ (y \in f.instructions \/ y = f.ins)
      BY <1>3, <1>5, <2>2 DEF MergeBase, MergeFrame
    <3>2. \A z \in f.todo : Earlier(list[m], y, z)
      BY <1>5, <2>3, <3>1 DEF FrameInv
    <3>3. y # eq
      BY <1>8, <2>4, <3>1, <3>2, OrderIn
    <3> QED BY <1>4, <3>1, <3>3
  <2>9. MergeBase(m, f)'
    BY <1>2, <2>3, <2>5, <2>6, <2>7, <2>8 DEF MergeBase
  <2>10. ASSUME NEW k \in DOMAIN s, k < n PROVE MergeFrame(m, s[k], f.todo)'
    <3>1. MergeFrame(m, s[k], f.todo) /\ s[k].ins # End /\ s[k].ins \in s[k].processed_ins
      BY <1>a, <2>0, <2>10 DEF MergeOf
    <3>2. Kept(s[k]) \subseteq Ins
      <4>1. s[k] \in CseFrames(m)
        BY <1>1, <1>9
      <4> QED BY <4>1 DEF CseFrames, Kept
    <3>3. \A y \in Kept(s[k]) : outs'[y] # {} \/ y \in f.todo
      BY <1>11, <2>3, <3>1, <3>2 DEF MergeFrame
    <3> QED BY <1>13, <3>1, <3>3 DEF MergeFrame
  <2>11. ASSUME NEW k \in DOMAIN r
         PROVE  MergeFrame(m, r[k], f.todo)' /\ (k < Len(r) => r[k].ins # End /\ r[k].ins \in r[k].processed_ins)
    <3>1. CASE k = n + 1
      <4>1. ~ (k < Len(r))
        BY <1>12, <3>1
      <4> QED BY <1>12, <1>17, <3>1, <4>1
    <3>2. CASE k = n
      BY <1>2, <1>6, <1>12, <1>16, <3>2
    <3>3. CASE r[k] = s[k] /\ k \in DOMAIN s /\ k < n
      <4>1. r[k] = s[k] /\ k \in DOMAIN s /\ k < n
        BY <3>3
      <4>2. MergeFrame(m, s[k], f.todo)'
        BY <2>10, <4>1
      <4>3. s[k].ins # End /\ s[k].ins \in s[k].processed_ins
        BY <1>a, <2>0, <4>1 DEF MergeOf
      <4> QED BY <4>1, <4>2, <4>3
    <3> QED BY <1>12, <2>11, <3>1, <3>2, <3>3
  <2>12. MergeOf(m, r)'
    BY <2>1, <2>9, <2>11 DEF MergeOf
  <2> QED BY <1>1, <2>12 DEF MergeInv
<1> QED
  <2>1. n = 1 \/ n > 1
    BY <1>12
  <2> QED BY <1>18, <1>19, <2>1

-----------------------------------------------------------------------------
(***************************************************************************)
(* dead_code_elimination leaves nothing dead.                              *)
(***************************************************************************)

(* Nothing in list l is between x and y. *)
NoneBetween(l, x, y) == \A z \in ToSet(l) : ~ (Earlier(l, x, z) /\ Earlier(l, z, y))

(* Dead instructions the loop has yet to find. *)
StillDead(m, x) ==
  /\ x \in ToSet(list[m]) /\ x # last /\ ~ Earlier(list[m], last, x)
  /\ outs[x] = {} /\ Name(x) # "@param" /\ ~ Skipped(x)

(***************************************************************************)
(* What dies in front of the iterator is right in front of it or a leaf    *)
(* the recursion still visits; the iterator goes no further than right     *)
(* behind `last`, and what has been moved there has lost its inputs.       *)
(***************************************************************************)
SweepInv(m) ==
  /\ \A x \in ToSet(list[m]) : Earlier(list[m], last, x) => args[x] = <<>>
  /\ cursor # End => cursor \in ToSet(list[m])
  /\ turn = "next" /\ cursor = End => \A x \in Ins : ~ StillDead(m, x)
  /\ turn = "next" /\ cursor # End =>
       \A x \in ToSet(list[m]) : StillDead(m, x) \/ x = last =>
          ~ Earlier(list[m], x, cursor) \/ NoneBetween(list[m], x, cursor)
  /\ turn = "visit" =>
       /\ cursor # End /\ ~ Earlier(list[m], last, cursor)
       /\ \A x \in ToSet(list[m]) : StillDead(m, x) => x \in leaves \/ ~ Earlier(list[m], x, cursor)
       /\ \A x \in leaves : x \in ToSet(list[m]) => Earlier(list[m], x, cursor)
       /\ \A x \in visited : Earlier(list[m], last, x) \/ Name(x) = "@param"

LEMMA SweepStarts ==
  ASSUME ProgramInv, NEW m \in UsedModules, WalkStart(m), UNCHANGED graph
  PROVE  SweepInv(m)'
<1>1. GraphShape /\ Ends /\ m \in Modules /\ last' = LastOf(m) /\ cursor' = FirstOf(m) /\ turn' = "next"
  BY ShapeOrdered DEF ProgramInv, WalkStart
<1>2. list[m] # <<>> /\ list[m] \in Seq(Ins) /\ IsInjective(list[m])
  BY <1>1, ShapeOrdered DEF Ends
<1>3. /\ cursor' \in ToSet(list[m]) /\ \A x : ~ Earlier(list[m], x, cursor') /\ ~ Earlier(list[m], last', x)
  BY <1>1, <1>2, EndsOf DEF FirstOf, LastOf
<1>4. cursor' # End
  BY <1>1, <1>3, ShapeOrdered, EndAssumption
<1>5. list' = list
  BY DEF graph
<1> QED BY <1>1, <1>3, <1>4, <1>5 DEF SweepInv

(* ++ins: the dead among P, and the end of the walk, are not yet passed. *)
LEMMA GoesOn ==
  ASSUME GraphShape, NEW m \in Modules, NEW c \in ToSet(list[m]), NEW n, n = NextOf(m, c),
         NEW P, \A x \in P : x \in ToSet(list[m]) /\ ~ Earlier(list[m], x, c)
  PROVE  IF n = End THEN \A x \in P : x = c
         ELSE /\ n \in ToSet(list[m])
              /\ \A x \in P : ~ Earlier(list[m], x, n) \/ NoneBetween(list[m], x, n)
<1>1. CASE c = LastOf(m)
  <2>1. n = End
    BY <1>1, NextOfIs
  <2>2. list[m] \in Seq(Ins) /\ IsInjective(list[m]) /\ list[m] # <<>>
    BY ShapeOrdered DEF ToSet
  <2>3. \A x : ~ Earlier(list[m], c, x)
    BY <1>1, <2>2, EndsOf DEF LastOf
  <2> QED BY <2>1, <2>3, OrderIn
<1>2. CASE c # LastOf(m)
  <2>1. /\ n \in ToSet(list[m]) /\ Earlier(list[m], c, n) /\ n # End
        /\ \A z : Earlier(list[m], c, z) => z = n \/ Earlier(list[m], n, z)
    BY <1>2, NextOfIs
  <2>2. NoneBetween(list[m], c, n)
    <3>1. ASSUME NEW z \in ToSet(list[m]), Earlier(list[m], c, z), Earlier(list[m], z, n) PROVE FALSE
      BY <2>1, <3>1, OrderIn
    <3> QED BY <3>1 DEF NoneBetween
  <2>3. ASSUME NEW x \in P, Earlier(list[m], x, n) PROVE x = c
    <3>1. x \in ToSet(list[m]) /\ ~ Earlier(list[m], x, c)
      BY <2>3
    <3>2. x # c => Earlier(list[m], c, x)
      BY <3>1, OrderIn
    <3>3. Earlier(list[m], c, x) => x = n \/ Earlier(list[m], n, x)
      BY <2>1
    <3>4. ~ Earlier(list[m], n, x) /\ x # n
      BY <2>3, OrderIn
    <3> QED BY <3>2, <3>3, <3>4
  <2> QED BY <2>1, <2>2, <2>3
<1> QED BY <1>1, <1>2

(* The end of a turn that leaves nothing dead in front of the iterator. *)
LEMMA SweepGoesOn ==
  ASSUME GraphShape, NEW m \in Modules, SweepInv(m), HasInstruction(m, last),
         cursor # End, cursor' = NextOf(m, cursor), turn' = "next", UNCHANGED <<graph, last>>,
         \A x \in ToSet(list[m]) : StillDead(m, x) \/ x = last => ~ Earlier(list[m], x, cursor)
  PROVE  SweepInv(m)'
<1>1. PICK P, c, n : /\ P = {x \in ToSet(list[m]) : StillDead(m, x) \/ x = last}
                     /\ c = cursor /\ n = NextOf(m, c)
  OBVIOUS
<1>2. c \in ToSet(list[m]) /\ n = cursor'
  BY <1>1 DEF SweepInv
<1>3. IF n = End THEN \A x \in P : x = c
      ELSE /\ n \in ToSet(list[m])
           /\ \A x \in P : ~ Earlier(list[m], x, n) \/ NoneBetween(list[m], x, n)
  BY <1>1, <1>2, GoesOn
<1>4. UNCHANGED <<list, args, outs, op>>
  BY DEF graph
<1>5. \A x : StillDead(m, x)' <=> StillDead(m, x)
  BY <1>4 DEF StillDead, Name, Skipped
<1>6. n = End => \A x : ~ StillDead(m, x)
  <2>1. last \in P
    BY <1>1 DEF HasInstruction
  <2>2. \A x : StillDead(m, x) => x \in P /\ x # last
    BY <1>1 DEF StillDead
  <2> QED BY <1>3, <2>1, <2>2
<1>7. n # End => \A x \in ToSet(list[m]) : StillDead(m, x) \/ x = last =>
          ~ Earlier(list[m], x, n) \/ NoneBetween(list[m], x, n)
  BY <1>1, <1>3
<1>8. \A x \in ToSet(list'[m]) : Earlier(list'[m], last', x) => args'[x] = <<>>
  BY <1>4 DEF SweepInv
<1>9. /\ cursor' # End => cursor' \in ToSet(list'[m])
      /\ cursor' = End => \A x \in Ins : ~ StillDead(m, x)'
      /\ cursor' # End => \A x \in ToSet(list'[m]) : StillDead(m, x)' \/ x = last' =>
           ~ Earlier(list'[m], x, cursor') \/ NoneBetween(list'[m], x, cursor')
  BY <1>2, <1>3, <1>4, <1>5, <1>6, <1>7
<1> QED BY <1>8, <1>9 DEF SweepInv

(* Right in front of c is std::prev(c) alone. *)
LEMMA JustBefore ==
  ASSUME GraphShape, NEW m \in Modules, NEW c \in ToSet(list[m]), c # FirstOf(m),
         NEW x, Earlier(list[m], x, c), NoneBetween(list[m], x, c)
  PROVE  x = PrevOf(m, c)
<1>1. /\ PrevOf(m, c) \in ToSet(list[m]) /\ Earlier(list[m], PrevOf(m, c), c)
      /\ x = PrevOf(m, c) \/ Earlier(list[m], x, PrevOf(m, c))
  BY PrevOfIs
<1> QED BY <1>1 DEF NoneBetween

(* Behind `last` nothing uses anything, so nothing dies that is used there. *)
LEMMA SweepTurn ==
  ASSUME GraphShape, NEW m \in Modules, HasInstruction(m, last), SweepInv(m), DeadTurn(m)
  PROVE  SweepInv(m)'
<1>1. /\ turn = "next" /\ cursor # End /\ cursor \in ToSet(list[m])
      /\ UNCHANGED <<graph, last, list, args, outs, op>>
      /\ \A x \in ToSet(list[m]) : StillDead(m, x) \/ x = last =>
           ~ Earlier(list[m], x, cursor) \/ NoneBetween(list[m], x, cursor)
      /\ \A x \in ToSet(list[m]) : Earlier(list[m], last, x) => args[x] = <<>>
  BY DEF DeadTurn, SweepInv, graph
<1>2. CASE cursor = FirstOf(m)
  <2>1. cursor' = NextOf(m, cursor) /\ turn' = "next"
    BY <1>1, <1>2 DEF DeadTurn
  <2>2. \A x : ~ Earlier(list[m], x, cursor)
    BY <1>1, <1>2, EndsIn
  <2> QED BY <1>1, <2>1, <2>2, SweepGoesOn
<1>3. CASE cursor # FirstOf(m)
  <2>1. PICK i : i = PrevOf(m, cursor)
    OBVIOUS
  <2>2. i \in ToSet(list[m]) /\ Earlier(list[m], i, cursor)
    BY <1>1, <1>3, <2>1, PrevOfIs
  <2>3. \A x \in ToSet(list[m]) : (StillDead(m, x) \/ x = last) /\ Earlier(list[m], x, cursor) => x = i
    BY <1>1, <1>3, <2>1, JustBefore
  <2>4. \A x : StillDead(m, x)' <=> StillDead(m, x)
    BY <1>1 DEF StillDead, Name, Skipped
  <2>5. CASE i = last
    <3>1. cursor' = End /\ turn' = "next"
      BY <1>1, <1>3, <2>1, <2>5 DEF DeadTurn, AtLast
    <3>2. \A x : ~ StillDead(m, x)
      <4> SUFFICES ASSUME NEW x, StillDead(m, x) PROVE FALSE
        OBVIOUS
      <4>1. x \in ToSet(list[m]) /\ x # last /\ ~ Earlier(list[m], last, x)
        BY DEF StillDead
      <4>2. Earlier(list[m], x, last)
        BY <2>2, <2>5, <4>1, OrderIn
      <4>3. Earlier(list[m], x, cursor)
        BY <2>2, <2>5, <4>2, OrderIn
      <4> QED BY <2>3, <2>5, <4>1, <4>3
    <3> QED BY <1>1, <2>4, <3>1, <3>2 DEF SweepInv
  <2>6. ASSUME i # last PROVE ~ Earlier(list[m], last, cursor)
    BY <2>3, <2>6 DEF HasInstruction
  <2>7. CASE i # last /\ Skipped(i)
    <3>1. cursor' = NextOf(m, cursor) /\ turn' = "next"
      BY <1>1, <1>3, <2>1, <2>7 DEF DeadTurn, AtLast
    <3>2. \A x \in ToSet(list[m]) : StillDead(m, x) \/ x = last => ~ Earlier(list[m], x, cursor)
      BY <2>3, <2>7 DEF StillDead
    <3> QED BY <1>1, <3>1, <3>2, SweepGoesOn
  <2>8. CASE i # last /\ ~ Skipped(i)
    <3>1. leaves' = {i} /\ visited' = {} /\ turn' = "visit" /\ cursor' = cursor
      BY <1>1, <1>3, <2>1, <2>8 DEF DeadTurn, AtLast
    <3> QED BY <1>1, <2>2, <2>3, <2>4, <2>6, <2>8, <3>1 DEF SweepInv
  <2> QED BY <2>5, <2>7, <2>8
<1> QED BY <1>2, <1>3

LEMMA SweepAdvance ==
  ASSUME GraphShape, NEW m \in Modules, HasInstruction(m, last), SweepInv(m), DeadAdvance(m)
  PROVE  SweepInv(m)'
<1>1. /\ turn = "visit" /\ leaves = {} /\ cursor' = NextOf(m, cursor) /\ turn' = "next"
      /\ UNCHANGED <<graph, last>>
  BY DEF DeadAdvance
<1>2. /\ cursor # End
      /\ \A x \in ToSet(list[m]) : StillDead(m, x) \/ x = last => ~ Earlier(list[m], x, cursor)
  BY <1>1 DEF SweepInv
<1> QED BY <1>1, <1>2, SweepGoesOn

(* What is moved behind the end takes no use with it. *)
LEMMA SweepRemoved ==
  ASSUME ProgramInv, NEW m \in Modules, HasInstruction(m, last), SweepInv(m), RemoveMoved(m)
  PROVE  NothingDead(m)'
<1>1. GraphShape /\ UseListsExact /\ turn = "next" /\ cursor = End /\ UNCHANGED op
  BY DEF ProgramInv, GraphInv, RemoveMoved
<1>2. /\ \A x \in Ins : ~ StillDead(m, x)
      /\ \A x \in ToSet(list[m]) : Earlier(list[m], last, x) => args[x] = <<>>
      /\ last \in ToSet(list[m]) /\ ToSet(list[m]) \subseteq Ins
  BY <1>1, ShapeOrdered DEF SweepInv, HasInstruction
<1>3. \A x \in ToSet(list[m]) : x = last \/ Earlier(list[m], last, x) \/ outs[x] # {}
                                  \/ Name(x) = "@param" \/ Skipped(x)
  BY <1>2 DEF StillDead
<1>4. CASE last = LastOf(m)
  <2>1. UNCHANGED <<list, outs>>
    BY <1>4 DEF RemoveMoved
  <2>2. \A x : ~ Earlier(list[m], last, x)
    BY <1>1, <1>2, <1>4, EndsIn
  <2> QED BY <1>1, <1>3, <1>4, <2>1, <2>2 DEF NothingDead, Name, Skipped, LastOf
<1>5. CASE last # LastOf(m)
  <2>1. PICK x, l : x = last /\ l = SubSeq(list[m], 1, Position(m, x))
    OBVIOUS
  <2>2. ClearArguments(ToSet(list[m]) \ ToSet(l)) /\ list' = [list EXCEPT ![m] = l]
    BY <1>5, <2>1 DEF RemoveMoved
  <2>3. /\ Last(list'[m]) = x /\ list'[m] = l
        /\ \A i : i \in ToSet(list'[m]) <=> i \in ToSet(list[m]) /\ ~ Earlier(list[m], x, i)
    BY <1>1, <1>2, <2>1, <2>2, TruncateIs DEF GraphShape
  <2>4. \A i \in ToSet(list[m]) \ ToSet(l) : Earlier(list[m], x, i)
    BY <2>3
  <2>5. \A j \in Ins : outs'[j] = outs[j] \ (ToSet(list[m]) \ ToSet(l))
    BY <1>2, <2>2, ClearOrder
  <2>6. \A j \in Ins : outs[j] \cap (ToSet(list[m]) \ ToSet(l)) = {}
    <3> SUFFICES ASSUME NEW j \in Ins, NEW u \in outs[j], u \in ToSet(list[m]) \ ToSet(l) PROVE FALSE
      OBVIOUS
    <3>1. u \in Ins /\ args[u] = <<>>
      BY <1>2, <2>1, <2>4
    <3>2. j \in ArgsOf(u)
      BY <1>1, <3>1 DEF UseListsExact
    <3> QED BY <3>1, <3>2 DEF ArgsOf, ToSet
  <2>7. \A j \in Ins : outs'[j] = outs[j]
    BY <2>5, <2>6
  <2> QED BY <1>1, <1>2, <1>3, <2>1, <2>3, <2>7 DEF NothingDead, Name, Skipped, LastOf
<1> QED BY <1>4, <1>5

(* A dead leaf moves behind the end; what it was the last to use is a leaf. *)
LEMMA SweepVisit ==
  ASSUME ProgramInv, NEW m \in UsedModules, DeadInv(m), SweepInv(m),
         NEW leaf \in leaves, DeadVisit(m, leaf)
  PROVE  SweepInv(m)'
<1>1. GraphShape /\ UseListsExact /\ InputsEvaluated /\ m \in Modules
  BY ShapeOrdered DEF ProgramInv, GraphInv
<1>2. /\ turn = "visit" /\ UNCHANGED <<op, cursor, last, turn>> /\ last \notin leaves
      /\ last \in ToSet(list[m]) /\ ToSet(list[m]) \subseteq Ins
  BY <1>1, ShapeOrdered DEF DeadVisit, DeadInv, BehindLast, HasInstruction
<1>3. /\ cursor # End /\ cursor \in ToSet(list[m]) /\ ~ Earlier(list[m], last, cursor)
      /\ \A x \in ToSet(list[m]) : Earlier(list[m], last, x) => args[x] = <<>>
      /\ \A x \in ToSet(list[m]) : StillDead(m, x) => x \in leaves \/ ~ Earlier(list[m], x, cursor)
      /\ \A x \in leaves : x \in ToSet(list[m]) => Earlier(list[m], x, cursor)
      /\ \A x \in visited : Earlier(list[m], last, x) \/ Name(x) = "@param"
  BY <1>2 DEF SweepInv
<1>4. CASE ~ IsDead(m, leaf)
  <2>1. UNCHANGED <<visited, args, outs, list>> /\ leaves' = leaves \ {leaf}
    BY <1>4 DEF DeadVisit
  <2>2. ~ StillDead(m, leaf)
    BY <1>3, <1>4 DEF IsDead, StillDead, HasInstruction
  <2>3. \A x : StillDead(m, x)' <=> StillDead(m, x)
    BY <1>2, <2>1 DEF StillDead, Name, Skipped
  <2> QED BY <1>2, <1>3, <2>1, <2>2, <2>3 DEF SweepInv, Name
<1>5. CASE IsDead(m, leaf)
  <2>1. /\ leaf \in ToSet(list[m]) /\ outs[leaf] = {} /\ leaf # last /\ leaf # cursor
        /\ ClearArguments({leaf}) /\ leaves' = (leaves \ {leaf}) \cup ArgsOf(leaf)
        /\ visited' = visited \cup {leaf}
    <3>1. leaf \in ToSet(list[m]) /\ leaf # last
      BY <1>2, <1>5 DEF IsDead, HasInstruction
    <3>2. leaf # cursor
      BY <1>1, <1>3, <3>1, OrderIn
    <3> QED BY <1>5, <3>1, <3>2 DEF DeadVisit, IsDead
  <2>2. /\ \A i \in Ins : args'[i] = IF i = leaf THEN <<>> ELSE args[i]
        /\ \A j \in Ins : outs'[j] = outs[j] \ {leaf}
    BY <1>2, <2>1, ClearOrder
  <2>3. /\ ToSet(list'[m]) = ToSet(list[m])
        /\ \A x, y : x # leaf /\ y # leaf => (Earlier(list'[m], y, x) <=> Earlier(list[m], y, x))
        /\ Name(leaf) = "@param" \/ Earlier(list'[m], last, leaf)
    <3>1. CASE Name(leaf) = "@param"
      BY <1>5, <3>1 DEF DeadVisit
    <3>2. CASE Name(leaf) # "@param"
      <4>1. MoveToEnd(m, leaf)
        BY <1>5, <3>2 DEF DeadVisit
      <4>2. /\ ToSet(list'[m]) = ToSet(list[m])
            /\ \A x, y : Earlier(list'[m], y, x) <=> \/ Earlier(list[m], y, x) /\ x # leaf /\ y # leaf
                                                     \/ x = leaf /\ y \in ToSet(list[m]) \ {leaf}
        BY <1>1, <2>1, <4>1, MoveToEndIs
      <4> QED BY <1>2, <2>1, <4>2
    <3> QED BY <3>1, <3>2
  <2>4. ASSUME NEW x \in ArgsOf(leaf), x \in ToSet(list[m]) PROVE x # leaf /\ Earlier(list[m], x, cursor)
    <3>1. Available(list, subs, m, leaf, x)
      BY <1>1, <2>1 DEF InputsEvaluated, InOrder, ArgsOf
    <3>2. Earlier(list[m], x, leaf)
      BY <1>1, <2>1, <2>4, <3>1, ShapeOrdered, NotBeforeItself DEF UsedModules
    <3>3. Earlier(list[m], leaf, cursor)
      BY <1>3, <2>1
    <3> QED BY <1>1, <3>2, <3>3, OrderIn
  <2>5. \A x \in leaves' : x \in ToSet(list'[m]) => Earlier(list'[m], x, cursor)
    BY <1>3, <2>1, <2>3, <2>4
  <2>6. ASSUME NEW x \in ToSet(list[m]), StillDead(m, x)' PROVE x \in leaves' \/ ~ Earlier(list'[m], x, cursor)
    <3>1. /\ x # last /\ ~ Earlier(list'[m], last, x) /\ outs'[x] = {} /\ Name(x) # "@param"
          /\ ~ Skipped(x)
      BY <1>2, <2>6 DEF StillDead, Name, Skipped
    <3>2. x # leaf /\ ~ Earlier(list[m], last, x) /\ outs[x] \subseteq {leaf}
      BY <1>2, <2>1, <2>2, <2>3, <3>1
    <3>3. CASE outs[x] = {}
      <4>1. StillDead(m, x)
        BY <3>1, <3>2, <3>3 DEF StillDead
      <4> QED BY <1>3, <2>1, <2>3, <3>2, <4>1
    <3>4. CASE leaf \in outs[x]
      BY <1>1, <1>2, <2>1, <3>4 DEF UseListsExact
    <3> QED BY <3>2, <3>3, <3>4
  <2>7. \A x \in ToSet(list'[m]) : Earlier(list'[m], last, x) => args'[x] = <<>>
    BY <1>2, <1>3, <2>1, <2>2, <2>3
  <2>8. \A x \in visited' : Earlier(list'[m], last, x) \/ Name(x) = "@param"
    BY <1>3, <2>1, <2>3
  <2>9. ~ Earlier(list'[m], last, cursor)
    BY <1>3, <2>1, <2>3
  <2> QED BY <1>2, <1>3, <2>3, <2>5, <2>6, <2>7, <2>8, <2>9 DEF SweepInv, Name
<1> QED BY <1>4, <1>5

(* The pass, from its first turn to its last. *)
Sweep(m) == IF turn = "removed" THEN NothingDead(m) ELSE SweepInv(m)

LEMMA SweepStep ==
  ASSUME ProgramInv, NEW m \in UsedModules, DeadInv(m), Sweep(m), DeadNext(m)
  PROVE  Sweep(m)'
<1>1. GraphShape /\ m \in Modules
  BY ShapeOrdered DEF ProgramInv
<1>2. turn \in {"next", "visit"}
  BY DEF DeadNext, DeadTurn, DeadVisit, DeadAdvance, RemoveMoved
<1>3. HasInstruction(m, last) /\ SweepInv(m)
  BY <1>2 DEF DeadInv, BehindLast, Sweep
<1>4. CASE DeadTurn(m)
  <2>1. turn' # "removed"
    BY <1>4 DEF DeadTurn
  <2> QED BY <1>1, <1>3, <1>4, <2>1, SweepTurn DEF Sweep
<1>5. ASSUME NEW leaf \in leaves, DeadVisit(m, leaf) PROVE Sweep(m)'
  <2>1. turn' # "removed"
    BY <1>5 DEF DeadVisit
  <2> QED BY <1>3, <1>5, <2>1, SweepVisit DEF Sweep
<1>6. CASE DeadAdvance(m)
  <2>1. turn' # "removed"
    BY <1>6 DEF DeadAdvance
  <2> QED BY <1>1, <1>3, <1>6, <2>1, SweepAdvance DEF Sweep
<1>7. CASE RemoveMoved(m)
  <2>1. turn' = "removed"
    BY <1>7 DEF RemoveMoved
  <2> QED BY <1>1, <1>3, <1>7, <2>1, SweepRemoved DEF Sweep
<1> QED BY <1>4, <1>5, <1>6, <1>7 DEF DeadNext

-----------------------------------------------------------------------------
(***************************************************************************)
(* What a pass on one module leaves alone in the others.                   *)
(***************************************************************************)

(* Of another module a pass on m changes no list and no operator, and what *)
(* is there loses no users but those in m; literals go to main.            *)
ElsewhereKept(m) ==
  \A h \in Modules \ {m, Main} :
    /\ list'[h] = list[h]
    /\ \A x \in ToSet(list[h]) : op'[x] = op[x] /\ outs[x] \ outs'[x] \subseteq ToSet(list[m])

LEMMA SameElsewhere ==
  ASSUME NEW m, UNCHANGED <<list, op, outs>> PROVE ElsewhereKept(m)
BY DEF ElsewhereKept

LEMMA ReplaceElsewhere ==
  ASSUME GraphShape, NEW m \in Modules, NEW i, NEW rep, ReplaceInstruction(m, i, rep),
         \A h \in Modules \ {m} : list'[h] = list[h]
  PROVE  ElsewhereKept(m)
<1>1. i \in ToSet(list[m])
  BY DEF ReplaceInstruction, HasInstruction
<1> SUFFICES ASSUME NEW h \in Modules \ {m, Main}, NEW x \in ToSet(list[h])
             PROVE  op'[x] = op[x] /\ outs[x] \ outs'[x] \subseteq {i}
  BY <1>1 DEF ElsewhereKept
<1>2. x \in Ins /\ x # i
  BY <1>1, ShapeOrdered DEF GraphShape, OneHome
<1>3. CASE ReplaceOperation(i, <<"identity", End>>, <<rep>>)
  <2>1. op' = [op EXCEPT ![i] = <<"identity", End>>] /\ DOMAIN op = Ins
    BY <1>3 DEF ReplaceOperation, GraphShape
  <2>2. WithoutUses({i})[x] \subseteq outs'[x] /\ outs[x] \ WithoutUses({i})[x] \subseteq {i}
    BY <1>2, <1>3 DEF ReplaceOperation, WithoutUses
  <2> QED BY <1>2, <2>1, <2>2
<1>4. CASE ReplaceArgument(i, rep) /\ UNCHANGED op
  BY <1>2, <1>4 DEF ReplaceArgument, ReplaceArgumentIn
<1> QED BY <1>3, <1>4 DEF ReplaceInstruction

LEMMA ClearElsewhere ==
  ASSUME GraphShape, NEW m \in Modules, NEW S \in SUBSET ToSet(list[m]), ClearArguments(S), UNCHANGED op,
         \A h \in Modules \ {m} : list'[h] = list[h]
  PROVE  ElsewhereKept(m)
<1> SUFFICES ASSUME NEW h \in Modules \ {m, Main}, NEW x \in ToSet(list[h])
             PROVE  outs[x] \ outs'[x] \subseteq ToSet(list[m])
  BY DEF ElsewhereKept
<1>1. x \in Ins
  BY ShapeOrdered
<1> QED BY <1>1 DEF ClearArguments, WithoutUses

(* A new instruction of m or main *)
LEMMA NewElsewhere ==
  ASSUME GraphShape, NEW m \in Modules, NEW n \in {m, Main}, NEW i \in Ins \ Live, NEW l, NEW o,
         list' = [list EXCEPT ![n] = l], op' = [op EXCEPT ![i] = o],
         \A j \in Ins : outs[j] \subseteq outs'[j]
  PROVE  ElsewhereKept(m)
<1> SUFFICES ASSUME NEW h \in Modules \ {m, Main}, NEW x \in ToSet(list[h])
             PROVE  op'[x] = op[x] /\ outs[x] \ outs'[x] \subseteq ToSet(list[m])
  BY DEF ElsewhereKept, GraphShape
<1>1. x \in Ins /\ x # i
  BY ShapeOrdered, LiveIs
<1> QED BY <1>1 DEF GraphShape

LEMMA AddFirstElsewhere ==
  ASSUME GraphShape, NEW m \in Modules, NEW n \in {m, Main}, NEW i, NEW o, AddFirst(n, i, o)
  PROVE  ElsewhereKept(m)
<1>1. PICK l : l = <<i>> \o list[n]
  OBVIOUS
<1>2. n \in Modules /\ i \in Ins \ Live /\ outs' = outs /\ op' = [op EXCEPT ![i] = o]
  BY MainAssumption DEF AddFirst
<1>3. list' = [list EXCEPT ![n] = l]
  BY <1>1, <1>2 DEF AddFirst, GraphShape
<1> QED BY <1>2, <1>3, NewElsewhere

LEMMA InsertElsewhere ==
  ASSUME GraphShape, NEW m \in Modules, NEW b, NEW i, NEW o, NEW a, NEW s, InsertInstruction(m, b, i, o, a, s)
  PROVE  ElsewhereKept(m)
<1>1. PICK l : l = InsertAt(list[m], Position(m, b), i)
  OBVIOUS
<1>2. /\ i \in Ins \ Live /\ op' = [op EXCEPT ![i] = o]
      /\ outs' = [j \in Ins |-> outs[j] \cup (IF j \in ToSet(a) THEN {i} ELSE {})]
  BY DEF InsertInstruction, InsertUses
<1>3. list' = [list EXCEPT ![m] = l]
  BY <1>1 DEF InsertInstruction, GraphShape
<1>4. \A j \in Ins : outs[j] \subseteq outs'[j]
  BY <1>2
<1> QED BY <1>2, <1>3, <1>4, NewElsewhere

(* remove_instructions at the end of a walk *)
LEMMA RemoveElsewhere ==
  ASSUME GraphShape, NEW m \in Modules, RemoveMoved(m) PROVE ElsewhereKept(m)
<1>1. PICK l : l = SubSeq(list[m], 1, Position(m, last))
  OBVIOUS
<1>2. CASE UNCHANGED <<list, outs>>
  BY <1>2, SameElsewhere DEF RemoveMoved
<1>3. CASE ClearArguments(ToSet(list[m]) \ ToSet(l)) /\ list' = [list EXCEPT ![m] = l]
  BY <1>3, ClearElsewhere DEF RemoveMoved
<1> QED BY <1>1, <1>2, <1>3 DEF RemoveMoved

LEMMA DeadElsewhere ==
  ASSUME GraphShape, NEW m \in Modules, DeadNext(m) PROVE ElsewhereKept(m)
<1>1. CASE DeadTurn(m) \/ DeadAdvance(m)
  BY <1>1, SameElsewhere DEF DeadTurn, DeadAdvance, graph
<1>2. ASSUME NEW leaf \in leaves, DeadVisit(m, leaf) PROVE ElsewhereKept(m)
  <2>1. CASE ~ IsDead(m, leaf)
    BY <1>2, <2>1, SameElsewhere DEF DeadVisit
  <2>2. CASE IsDead(m, leaf)
    <3>1. leaf \in ToSet(list[m]) /\ ClearArguments({leaf}) /\ UNCHANGED op
      BY <1>2, <2>2 DEF DeadVisit, IsDead, HasInstruction
    <3>2. \A h \in Modules \ {m} : list'[h] = list[h]
      BY <1>2, <2>2 DEF DeadVisit, MoveToEnd, GraphShape
    <3> QED BY <3>1, <3>2, ClearElsewhere
  <2> QED BY <2>1, <2>2
<1> QED BY <1>1, <1>2, RemoveElsewhere DEF DeadNext

LEMMA IdentityElsewhere ==
  ASSUME GraphShape, NEW m \in Modules, IdentityNext(m) PROVE ElsewhereKept(m)
<1>1. CASE IdentityTurn(m)
  <2>1. CASE UNCHANGED graph
    BY <2>1, SameElsewhere DEF graph
  <2>2. ASSUME NEW i, NEW rep, ReplaceInstruction(m, i, rep), MoveToEnd(m, i) PROVE ElsewhereKept(m)
    <3>1. \A h \in Modules \ {m} : list'[h] = list[h]
      BY <2>2 DEF MoveToEnd, GraphShape
    <3> QED BY <2>2, <3>1, ReplaceElsewhere
  <2> QED BY <1>1, <2>1, <2>2 DEF IdentityTurn
<1>2. CASE IdentityMove(m)
  <2>1. UNCHANGED <<op, outs>> /\ \A h \in Modules \ {m} : list'[h] = list[h]
    BY <1>2 DEF IdentityMove, GraphShape
  <2> QED BY <2>1 DEF ElsewhereKept
<1> QED BY <1>1, <1>2, RemoveElsewhere DEF IdentityNext

LEMMA InlineElsewhere ==
  ASSUME GraphShape, NEW m \in Modules, InlineNext(m) PROVE ElsewhereKept(m)
<1>1. CASE InlineTurn(m) \/ InlineResults(m) \/ InlineAdvance(m)
  BY <1>1, SameElsewhere DEF InlineTurn, InlineResults, InlineAdvance, graph
<1>2. CASE InlineCopy(m)
  <2>1. PICK i, a : i = Head(rest) /\ a = [k \in DOMAIN args[i] |-> Copied(args[i][k])]
    OBVIOUS
  <2>2. AddFirst(m, NewIns, op[i]) \/ InsertInstruction(m, cursor, NewIns, op[i], a, subs[i])
    BY <1>2, <2>1 DEF InlineCopy
  <2> QED BY <2>2, AddFirstElsewhere, InsertElsewhere
<1>3. ASSUME NEW user \in users, InlineReplace(m, user) PROVE ElsewhereKept(m)
  BY <1>3, ReplaceElsewhere DEF InlineReplace
<1> QED BY <1>1, <1>2, <1>3 DEF InlineNext

(* promote_literals replaces uses of what is in m. *)
LEMMA PromoteElsewhere ==
  ASSUME GraphShape, NEW m \in Modules, PromoteInv(m), PromoteNext(m) PROVE ElsewhereKept(m)
<1>1. CASE PromoteTurn(m)
  BY <1>1, SameElsewhere, AddFirstElsewhere DEF PromoteTurn, AddLiteral, graph
<1>2. ASSUME NEW user \in users, PromoteReplace(user) PROVE ElsewhereKept(m)
  <2>1. /\ cursor \in ToSet(list[m]) /\ UNCHANGED <<list, op>>
        /\ ReplaceArgumentIn({user}, cursor, results[1])
    BY <1>2 DEF PromoteReplace, PromoteInv, CursorIn
  <2>2. ASSUME NEW h \in Modules \ {m, Main}, NEW x \in ToSet(list[h]) PROVE outs[x] \subseteq outs'[x]
    <3>1. x \in Ins /\ x # cursor
      BY <2>1, <2>2, ShapeOrdered DEF GraphShape, OneHome
    <3> QED BY <2>1, <3>1 DEF ReplaceArgumentIn
  <2> QED BY <2>1, <2>2 DEF ElsewhereKept
<1>3. CASE InlineAdvance(m)
  BY <1>3, SameElsewhere DEF InlineAdvance, graph
<1> QED BY <1>1, <1>2, <1>3 DEF PromoteNext

LEMMA CseElsewhere ==
  ASSUME GraphShape, NEW m \in Modules, CseNext(m) PROVE ElsewhereKept(m)
<1>1. CASE UNCHANGED graph
  BY <1>1, SameElsewhere DEF graph
<1>2. ASSUME NEW eq \in Top.found, CseMatch(m, eq) PROVE ElsewhereKept(m)
  BY <1>2, ReplaceElsewhere DEF CseMatch
<1> QED BY <1>1, <1>2 DEF CseNext, CseTake, CseAdd, CseReturn

LEMMA ConstElsewhere ==
  ASSUME GraphShape, NEW m \in Modules, ConstNext(m) PROVE ElsewhereKept(m)
<1>1. CASE UNCHANGED graph
  BY <1>1, SameElsewhere DEF graph
<1>2. CASE ConstAdd(m)
  BY <1>2, AddFirstElsewhere DEF ConstAdd, AddLiteral
<1>3. CASE ConstReplace(m)
  BY <1>3, ReplaceElsewhere DEF ConstReplace
<1> QED BY <1>1, <1>2, <1>3 DEF ConstNext, ConstSpawn, ConstEval, ConstJoin

LEMMA PassElsewhere ==
  ASSUME GraphShape, NEW m \in Modules, m = Mod, PassStep,
         running = "promote_literals" => PromoteInv(m)
  PROVE  ElsewhereKept(m)
<1>1. CASE running = "find_unit_ops" /\ UnitTurn
  <2>1. CASE UNCHANGED graph
    BY <2>1, SameElsewhere DEF graph
  <2>2. CASE ReplaceInstruction(m, cursor, UnitOf(cursor)) /\ UNCHANGED list
    BY <2>2, ReplaceElsewhere
  <2> QED BY <1>1, <2>1, <2>2 DEF UnitTurn
<1> QED BY <1>1, DeadElsewhere, IdentityElsewhere, InlineElsewhere, PromoteElsewhere, CseElsewhere,
           ConstElsewhere DEF PassStep

-----------------------------------------------------------------------------
(* main is the last module a pass runs on. *)
LEMMA MainIsLeft ==
  ASSUME GraphShape, TodoInv, todoMods # <<>> PROVE Main \in ToSet(todoMods)
<1> DEFINE S == UsedModules \ ToSet(todoMods)
<1>1. Ordered(list, subs) /\ UsedModules \subseteq Modules /\ Main \in UsedModules
  BY ShapeOrdered
<1>2. ASSUME NEW h \in S, NEW x \in ToSet(list[h]), NEW n \in ToSet(subs[x]) PROVE n \in S
  <2>1. n \in UsedModules
    BY <1>1, UsedNext DEF UsedModules
  <2>2. n \notin ToSet(todoMods)
    <3>1. todoMods \in Seq(Modules) /\ IsInjective(todoMods) /\ (n \in ToSet(todoMods) => Earlier(todoMods, n, h))
      BY DEF TodoInv
    <3> QED BY <3>1, EarlierOrder
  <2> QED BY <2>1, <2>2
<1>3. Main \in S => UsedModules \subseteq S
  <2>1. Main \in S => Reached(list, subs, End, S)
    BY <1>2 DEF Reached
  <2> HIDE DEF S
  <2>2. S \in SUBSET Modules
    BY <1>1 DEF S
  <2> QED BY <2>1, <2>2, EnteredLeast DEF UsedModules, Used
<1>4. Mod \in UsedModules /\ Mod \in ToSet(todoMods)
  BY NothingBelow
<1> QED BY <1>1, <1>3, <1>4

(***************************************************************************)
(* No module a pass is still to run on uses what is in one it is through   *)
(* with: evaluation enters it without having entered the other.            *)
(***************************************************************************)
LEMMA NotUsedAbove ==
  ASSUME GraphShape, InputsEvaluated, TodoInv, NEW h \in Modules, h \notin ToSet(todoMods),
         NEW x \in ToSet(list[h]), NEW m \in ToSet(todoMods), NEW u \in ToSet(list[m])
  PROVE  x \notin ArgsOf(u)
<1> DEFINE E == EnteredBefore(list, subs, x)
           S == E \cup (UsedModules \ ToSet(todoMods))
<1>1. /\ Ordered(list, subs) /\ UsedModules \subseteq Modules /\ m \in UsedModules /\ m \in Modules
      /\ todoMods \in Seq(Modules) /\ IsInjective(todoMods)
  BY ShapeOrdered DEF TodoInv
<1>2. E \subseteq Modules /\ Main \in E /\ Hung(list, subs) /\ E \subseteq UsedModules
  BY <1>1, EnteredReached, EnteredIsUsed DEF Ordered, UsedModules
<1>3. ASSUME NEW g \in UsedModules, g \notin ToSet(todoMods), NEW y \in ToSet(list[g]), NEW n \in ToSet(subs[y])
      PROVE  n \in UsedModules \ ToSet(todoMods)
  <2>1. n \in UsedModules
    BY <1>1, UsedNext DEF UsedModules
  <2>2. n \in ToSet(todoMods) => Earlier(todoMods, n, g)
    BY DEF TodoInv
  <2> QED BY <1>1, <1>3, <2>1, <2>2, EarlierOrder
<1>4. ASSUME NEW g \in E, g \in ToSet(todoMods), NEW y \in ToSet(list[g]), NEW n \in ToSet(subs[y])
      PROVE  n \in E
  <2>1. ~ Earlier(list[g], x, y)
    <3>1. Earlier(list[g], x, y) => x \in ToSet(list[g])
      BY <1>2, OrderIn
    <3> QED BY <1>2, <1>4, <3>1 DEF GraphShape, OneHome
  <2> QED BY <1>2, <2>1, EnteredNext
<1>5. \A g \in S : \A y \in ToSet(list[g]) : ToSet(subs[y]) \subseteq S
  BY <1>2, <1>3, <1>4
<1>6. UsedModules \subseteq S
  <2>1. Reached(list, subs, End, S)
    BY <1>2, <1>5 DEF Reached
  <2> HIDE DEF S
  <2>2. S \in SUBSET Modules
    BY <1>1, <1>2 DEF S
  <2> QED BY <2>1, <2>2, EnteredLeast DEF UsedModules, Used
<1>7. m \in E
  BY <1>1, <1>6
<1>8. x \in ArgsOf(u) => Available(list, subs, m, u, x)
  BY <1>1 DEF InputsEvaluated, InOrder, ArgsOf
<1>9. ~ Earlier(list[m], x, u)
  <2>1. Earlier(list[m], x, u) => x \in ToSet(list[m])
    BY <1>1, OrderIn
  <2> QED BY <1>1, <2>1 DEF GraphShape, OneHome
<1> QED BY <1>7, <1>8, <1>9 DEF Available

-----------------------------------------------------------------------------
(***************************************************************************)
(* Whatever the programs and the lists of passes.                          *)
(***************************************************************************)

LEMMA InitValid == Init => ValidInv
<1> SUFFICES ASSUME Init PROVE ValidInv
  OBVIOUS
<1>1. GraphInit /\ InlineIdle /\ todoMods = <<>> /\ frames = <<>> /\ unused = {} /\ running = "none" /\ stage = "next"
  BY DEF Init
<1>2. PICK p \in Programs :
        /\ list = p.list /\ op = p.op /\ args = p.args /\ subs = p.subs
        /\ modules = {m \in Modules : list[m] # <<>>}
        /\ outs = [j \in Ins |-> {i \in Ins : j \in ArgsOf(i)}]
  BY <1>1 DEF GraphInit
<1>3. /\ list \in [Modules -> Seq(Ins)] /\ OneHome(list) /\ subs \in [Ins -> Seq(Modules)]
      /\ DOMAIN op = Ins /\ InOrder(list, args, subs)
      /\ \A m \in Used(list, subs) : list[m] # <<>> /\ \A i \in Ins : Last(list[m]) \notin ToSet(args[i])
  BY <1>2, ProgramsAssumption
<1>4. GraphShape /\ InputsEvaluated
  BY <1>2, <1>3 DEF GraphShape, InputsEvaluated
<1>5. Ends
  <2> SUFFICES ASSUME NEW m \in UsedModules PROVE list[m] # <<>> /\ outs[LastOf(m)] = {}
    BY DEF Ends
  <2>1. list[m] # <<>> /\ \A i \in Ins : LastOf(m) \notin ToSet(args[i])
    BY <1>3 DEF UsedModules, LastOf
  <2>2. list[m] \in Seq(Ins) /\ IsInjective(list[m])
    BY <1>4, ShapeOrdered
  <2>3. LastOf(m) \in Ins
    BY <2>1, <2>2, EndsOf DEF LastOf
  <2> QED BY <1>2, <2>1, <2>3 DEF ArgsOf
<1>6. ProgramInv
  BY <1>1, <1>4, <1>5, InitGraphInv DEF ProgramInv
<1>7. TodoInv
  <2>1. todoMods \in Seq(Modules) /\ ToSet(todoMods) = {} /\ IsInjective(todoMods)
    BY <1>1 DEF ToSet, IsInjective
  <2> QED BY <1>1, <2>1 DEF TodoInv
<1>8. PassInv
  BY <1>1 DEF PassInv, NoneCopied, InlineIdle
<1> QED BY <1>6, <1>7, <1>8 DEF ValidInv

LEMMA ValidHolds == Spec => [](ValidInv /\ SignalInv)
<1>1. ValidInv /\ SignalInv /\ [Next]_vars => ValidInv' /\ SignalInv'
  BY StepValid, SignalStep
<1> QED BY <1>1, InitValid, SignalInit, PTL DEF Spec

(***************************************************************************)
(* module::validate holds after every call of every pass, and so does the  *)
(* assertion of generic_eval that an input has a result: no pass puts a    *)
(* use in front of its definition, in its module or in the ones below.     *)
(***************************************************************************)
THEOREM InputsStayEvaluated == Spec => []InputsEvaluated
<1>1. ValidInv => InputsEvaluated
  BY DEF ValidInv, ProgramInv
<1> QED BY <1>1, ValidHolds, PTL

(***************************************************************************)
(* Passes change a program by calls of module.cpp alone, and never against *)
(* the assertions there: what remove_instructions and remove_module free   *)
(* has no users left, and what replaces an instruction is in a module.     *)
(***************************************************************************)
THEOREM PassesMakeCalls == Spec => OnlyCalls
<1>1. ValidInv /\ SignalInv /\ [Next]_vars => [Call]_graph
  BY StepValid
<1> QED BY <1>1, ValidHolds, PTL DEF Spec, OnlyCalls

(***************************************************************************)
(* instruction::valid throughout compilation: use lists hold exactly the   *)
(* users, and no instruction of a module uses a freed one.                 *)
(***************************************************************************)
THEOREM UseListsExactThroughout == Spec => [](UseListsExact /\ NothingDangles)
<1>1. ValidInv => UseListsExact /\ NothingDangles
  BY DEF ValidInv, ProgramInv, GraphInv
<1> QED BY <1>1, ValidHolds, PTL

(***************************************************************************)
(* run_passes takes the modules of a program before it runs a pass on the  *)
(* first: whatever the pass then does to one, the others are still part of *)
(* the program when their turn comes, submodules before what they hang off *)
(* and no module is removed that a pass has still to run on.               *)
(***************************************************************************)
THEOREM SubmodulesFirst == Spec => []TodoInv
<1>1. ValidInv => TodoInv
  BY DEF ValidInv
<1> QED BY <1>1, ValidHolds, PTL

LEMMA CseMergeKept ==
  ASSUME ProgramInv, NEW m \in UsedModules, CseInv(m), MergeInv(m), CseNext(m)
  PROVE  MergeInv(m)'
<1>1. CseInv(m)'
  BY CseKept
<1> QED BY <1>1, CseTakeMerge, CseMatchMerge, CseAddMerge, CseReturnMerge DEF CseNext

LEMMA CseStartMerges ==
  ASSUME NEW m, CseStart(m), UNCHANGED graph PROVE MergeInv(m)'
<1>1. PICK f, r : /\ f = Frame(ToSet(list[m])) /\ r = <<f>> /\ r = stack'
  BY DEF CseStart
<1>2. /\ f.todo = ToSet(list[m]) /\ f.ins = End /\ f.found = {} /\ f.instructions = {}
      /\ f.processed_ins = {} /\ Kept(f) = {}
  BY <1>1 DEF Frame, Kept
<1>3. MergeBase(m, f) /\ MergeFrame(m, f, f.todo)
  BY <1>2 DEF MergeBase, MergeFrame
<1>4. DOMAIN r = {1} /\ Len(r) = 1 /\ r[1] = f /\ ~ (1 < 1)
  BY <1>1
<1>5. /\ MergeBase(m, r[1]) /\ \A k \in DOMAIN r : MergeFrame(m, r[k], r[1].todo)
      /\ \A k \in DOMAIN r : ~ (k < Len(r))
  BY <1>3, <1>4
<1>6. MergeOf(m, r)
  BY <1>5 DEF MergeOf
<1> QED BY <1>1, <1>6, MergeSame DEF MergeInv

MergingInv == running = "eliminate_common_subexpression" => MergeInv(Mod)

LEMMA MergingStep ==
  ASSUME ValidInv, SignalInv, MergingInv, [Next]_vars PROVE MergingInv'
<1>1. PICK m : m = Mod
  OBVIOUS
<1> SUFFICES ASSUME running' = "eliminate_common_subexpression" PROVE Mod' = m /\ MergeInv(m)'
  BY <1>1 DEF MergingInv
<1>2. CASE PassStep
  <2>1. ProgramInv /\ TodoInv /\ PassInv /\ UNCHANGED driver /\ running = "eliminate_common_subexpression"
    BY <1>2 DEF PassStep, ValidInv, driver
  <2>2. todoMods # <<>> /\ GraphShape
    BY <2>1 DEF SignalInv, FramesInv, TodoInv, ProgramInv
  <2>3. m \in UsedModules
    BY <1>1, <2>1, <2>2, NothingBelow
  <2>4. Mod' = m
    BY <1>1, <2>1 DEF driver, Mod
  <2>5. CseInv(m) /\ MergeInv(m) /\ CseNext(m)
    BY <1>1, <1>2, <2>1 DEF PassStep, PassInv, MergingInv
  <2>6. MergeInv(m)'
    BY <2>1, <2>3, <2>5, CseMergeKept
  <2> QED BY <2>4, <2>6
<1>3. CASE RunPass
  <2>1. Mod' = m /\ CseStart(m) /\ UNCHANGED graph
    BY <1>1, <1>3 DEF RunPass, Mod
  <2> QED BY <2>1, CseStartMerges
<1>4. CASE UNCHANGED vars
  <2>1. Mod' = m /\ MergeOf(m, stack) /\ stack' = stack /\ UNCHANGED graph
    BY <1>1, <1>4 DEF vars, driver, Mod, MergingInv, MergeInv
  <2>2. PICK s : s = stack
    OBVIOUS
  <2>3. MergeOf(m, s)'
    BY <2>1, <2>2, MergeSame
  <2> QED BY <2>1, <2>2, <2>3 DEF MergeInv
<1>5. ASSUME running = "none", running' = running PROVE FALSE
  BY <1>5
<1>6. Next => PassStep \/ RunPass \/ running' = "none" \/ (running = "none" /\ running' = running)
  <2>1. NextPass \/ RunOnProgram \/ ProgramDone \/ (\E h \in Modules : RemoveUnused(h))
          => stage # "modules" /\ running' = running
    BY DEF NextPass, RunOnProgram, ProgramDone, RemoveUnused
  <2>2. stage # "modules" => running = "none"
    BY DEF SignalInv, FramesInv
  <2>3. Subscribe \/ RoundEnds => running = "none" /\ running' = running
    BY DEF Subscribe, RoundEnds
  <2>4. PassReturns => running' = "none"
    BY DEF PassReturns
  <2> QED BY <2>1, <2>2, <2>3, <2>4 DEF Next
<1> QED BY <1>2, <1>3, <1>4, <1>5, <1>6

(***************************************************************************)
(* However instructions replaced make others equal, in modules of any      *)
(* size, one sweep of eliminate_common_subexpression with its recursion    *)
(* over the users leaves no two instructions in use that compute the same. *)
(***************************************************************************)
THEOREM SweepMergesAll == Spec => []MergedAfterCse
<1>1. Init => MergingInv
  BY DEF Init, MergingInv
<1>2. ValidInv /\ SignalInv /\ MergingInv /\ [Next]_vars => MergingInv'
  BY MergingStep
<1>3. ValidInv /\ SignalInv /\ MergingInv => MergedAfterCse
  <2> SUFFICES ASSUME ValidInv, SignalInv, MergingInv, running = "eliminate_common_subexpression", CseOver
               PROVE  NoneTwice(Mod)
    BY DEF MergedAfterCse
  <2>1. PICK m, f : m = Mod /\ f = Top
    OBVIOUS
  <2>2. CseInv(m) /\ MergeInv(m)
    BY <2>1 DEF ValidInv, PassInv, MergingInv
  <2>3. Len(stack) = 1 /\ f.ins = End /\ f.todo = {}
    BY <2>1 DEF CseOver
  <2>4. MergeBase(m, f)
    BY <2>1, <2>2, <2>3, MergeTopOf
  <2>5. \A y \in ToSet(list[m]) : y # End
    <3>1. GraphShape /\ TodoInv /\ todoMods # <<>>
      BY DEF ValidInv, ProgramInv, SignalInv, FramesInv, TodoInv
    <3>2. m \in Modules
      BY <2>1, <3>1, NothingBelow, ShapeOrdered
    <3> QED BY <3>1, <3>2, ShapeOrdered, EndAssumption
  <2>6. \A y \in ToSet(list[m]) : outs[y] # {} => y \in Kept(f)
    BY <2>3, <2>4, <2>5 DEF MergeBase
  <2>7. NoneTwice(m)
    BY <2>4, <2>6 DEF MergeBase, NoneTwice
  <2> QED BY <2>1, <2>7
<1>4. MergingInv /\ ValidInv /\ SignalInv => MergedAfterCse
  BY <1>3
<1> QED BY <1>1, <1>2, <1>4, ValidHolds, PTL DEF Spec

SweepingInv == running = "dead_code_elimination" => Sweep(Mod)

(* A module in which nothing is dead is the one a pass has just run on, or *)
(* one that no pass of the list is still to run on in this round.          *)
CleanInv ==
  stage = "modules" =>
    \A h \in clean :
      /\ h \in Modules /\ NothingDead(h)
      /\ h \in ToSet(todoMods) => h = Mod /\ running = "none"

LEMMA NothingDeadSame ==
  ASSUME UNCHANGED <<list, outs, op>>, NEW h, NothingDead(h) PROVE NothingDead(h)'
BY DEF NothingDead, LastOf, Name, Skipped

LEMMA CleanSame ==
  ASSUME CleanInv, UNCHANGED <<list, outs, op, todoMods, stage>>, clean' \subseteq clean,
         running' = running \/ Mod \notin clean'
  PROVE  CleanInv'
<1> SUFFICES ASSUME stage = "modules", NEW h \in clean'
             PROVE  /\ h \in Modules /\ NothingDead(h)'
                    /\ h \in ToSet(todoMods) => h = Mod /\ running' = "none"
  BY DEF CleanInv, Mod
<1>1. h \in Modules /\ NothingDead(h) /\ (h \in ToSet(todoMods) => h = Mod /\ running = "none")
  BY DEF CleanInv
<1> QED BY <1>1, NothingDeadSame

(* What a pass does to its module takes no last use from one it has left. *)
LEMMA CleanKept ==
  ASSUME ProgramInv, TodoInv, todoMods # <<>>, running # "none", UNCHANGED driver, ElsewhereKept(Mod),
         stage = "modules", CleanInv
  PROVE  CleanInv'
<1>1. PICK m : m = Mod
  OBVIOUS
<1>2. /\ GraphShape /\ UseListsExact /\ GraphTypeOK /\ InputsEvaluated /\ Main \in ToSet(todoMods)
      /\ m \in ToSet(todoMods) /\ m \in Modules
  BY <1>1, MainIsLeft, NothingBelow, ShapeOrdered DEF ProgramInv, GraphInv
<1> SUFFICES ASSUME NEW h \in clean PROVE h \in Modules /\ NothingDead(h)' /\ h \notin ToSet(todoMods)
  BY DEF CleanInv, driver
<1>3. h \in Modules /\ NothingDead(h) /\ h \notin ToSet(todoMods)
  BY DEF CleanInv
<1>4. /\ list'[h] = list[h]
      /\ \A x \in ToSet(list[h]) : op'[x] = op[x] /\ outs[x] \ outs'[x] \subseteq ToSet(list[m])
  BY <1>1, <1>2, <1>3 DEF ElsewhereKept
<1>5. ASSUME NEW x \in ToSet(list[h]), outs'[x] = {} PROVE outs[x] = {}
  <2> SUFFICES ASSUME NEW u \in outs[x] PROVE FALSE
    OBVIOUS
  <2>1. u \in ToSet(list[m])
    BY <1>4, <1>5
  <2>2. x \in Ins /\ u \in Ins
    BY <1>2, <1>3, <2>1, ShapeOrdered
  <2>3. x \in ArgsOf(u)
    BY <1>2, <2>2 DEF UseListsExact
  <2> QED BY <1>2, <1>3, <2>1, <2>3, NotUsedAbove
<1>6. NothingDead(h)'
  BY <1>3, <1>4, <1>5 DEF NothingDead, LastOf, Name, Skipped
<1> QED BY <1>3, <1>6

LEMMA EliminationPass ==
  ASSUME ValidInv, SignalInv, SweepingInv, CleanInv, PassStep
  PROVE  SweepingInv' /\ CleanInv'
<1>1. ProgramInv /\ TodoInv /\ PassInv /\ GraphShape /\ UNCHANGED driver /\ running # "none"
  BY DEF PassStep, ValidInv, ProgramInv
<1>2. todoMods # <<>> /\ stage = "modules"
  BY <1>1 DEF SignalInv, FramesInv, TodoInv
<1>3. PICK m \in UsedModules : m = Mod
  BY <1>1, <1>2, NothingBelow
<1>4. m \in Modules /\ Mod' = m /\ running' = running
  BY <1>1, <1>3, ShapeOrdered DEF driver, Mod
<1>5. ElsewhereKept(m)
  BY <1>1, <1>3, <1>4, PassElsewhere DEF PassInv
<1>6. CleanInv'
  BY <1>1, <1>2, <1>3, <1>5, CleanKept
<1>7. ASSUME running = "dead_code_elimination" PROVE Sweep(m)'
  <2>1. DeadInv(m) /\ Sweep(m) /\ DeadNext(m)
    BY <1>1, <1>3, <1>7 DEF PassStep, PassInv, SweepingInv
  <2> QED BY <1>1, <2>1, SweepStep
<1> QED BY <1>4, <1>6, <1>7 DEF SweepingInv

LEMMA EliminationReturns ==
  ASSUME ValidInv, SignalInv, SweepingInv, CleanInv, PassReturns
  PROVE  SweepingInv' /\ CleanInv'
<1>1. /\ running # "none" /\ running' = "none" /\ Over /\ UNCHANGED <<graph, todoMods, stage>>
      /\ clean' = IF running = "dead_code_elimination" THEN clean \cup {Mod} ELSE clean
  BY DEF PassReturns
<1>2. GraphShape /\ TodoInv /\ todoMods # <<>>
  BY <1>1 DEF ValidInv, ProgramInv, SignalInv, FramesInv, TodoInv
<1>3. Mod \in Modules /\ Mod' = Mod
  BY <1>1, <1>2, NothingBelow, ShapeOrdered DEF Mod
<1>4. ASSUME running = "dead_code_elimination" PROVE NothingDead(Mod)
  BY <1>1, <1>4 DEF Over, SweepingInv, Sweep
<1>5. ASSUME stage = "modules", NEW h \in clean'
      PROVE  h \in Modules /\ NothingDead(h) /\ (h \in ToSet(todoMods) => h = Mod)
  BY <1>1, <1>3, <1>4, <1>5 DEF CleanInv
<1>6. UNCHANGED <<list, outs, op>>
  BY <1>1 DEF graph
<1>7. ASSUME stage = "modules", NEW h \in clean'
      PROVE  h \in Modules /\ NothingDead(h)' /\ (h \in ToSet(todoMods) => h = Mod)
  BY <1>5, <1>6, <1>7, NothingDeadSame
<1> QED BY <1>1, <1>3, <1>7 DEF SweepingInv, CleanInv

LEMMA EliminationRuns ==
  ASSUME ValidInv, SignalInv, CleanInv, RunPass PROVE SweepingInv' /\ CleanInv'
<1>1. /\ frames # <<>> /\ running' = Current /\ clean' = clean \ {Mod}
      /\ UNCHANGED <<graph, todoMods, frames, stage>>
  BY DEF RunPass
<1>2. ProgramInv /\ GraphShape /\ TodoInv /\ todoMods # <<>> /\ UNCHANGED <<list, outs, op>>
  BY <1>1 DEF ValidInv, ProgramInv, TodoInv, graph
<1>3. PICK m \in UsedModules : m = Mod
  BY <1>2, NothingBelow
<1>4. CleanInv'
  BY <1>1, <1>2, CleanSame
<1>5. ASSUME running' = "dead_code_elimination" PROVE Sweep(m)'
  <2>1. WalkStart(m) /\ turn' = "next"
    BY <1>1, <1>3, <1>5 DEF RunPass, WalkStart
  <2>2. SweepInv(m)'
    BY <1>1, <1>2, <2>1, SweepStarts
  <2> QED BY <2>1, <2>2 DEF Sweep
<1>6. Mod' = m
  BY <1>1, <1>3 DEF Mod
<1> QED BY <1>4, <1>5, <1>6 DEF SweepingInv

LEMMA EliminationRounds ==
  ASSUME ValidInv, CleanInv, RoundEnds PROVE SweepingInv' /\ CleanInv'
<1>1. running = "none" /\ running' = "none" /\ UNCHANGED <<list, outs, op, clean>>
  BY DEF RoundEnds
<1>2. CASE UNCHANGED <<todoMods, stage>>
  BY <1>1, <1>2, CleanSame DEF SweepingInv
<1>3. CASE todoMods' = Tail(todoMods) /\ frames # <<>>
           /\ stage' = IF Tail(todoMods) = <<>> THEN "program" ELSE stage
  <2>1. todoMods \in Seq(Modules) /\ IsInjective(todoMods) /\ todoMods # <<>>
    BY <1>3 DEF ValidInv, TodoInv
  <2>2. ToSet(todoMods') = ToSet(todoMods) \ {Mod}
    BY <1>3, <2>1, TailOf DEF Mod
  <2>3. ASSUME stage' = "modules", NEW h \in clean
        PROVE  h \in Modules /\ NothingDead(h) /\ h \notin ToSet(todoMods')
    BY <1>3, <2>2, <2>3 DEF CleanInv
  <2>4. ASSUME stage' = "modules", NEW h \in clean
        PROVE  h \in Modules /\ NothingDead(h)' /\ h \notin ToSet(todoMods')
    BY <1>1, <2>3, <2>4, NothingDeadSame
  <2> QED BY <1>1, <2>4 DEF SweepingInv, CleanInv
<1> QED BY <1>2, <1>3 DEF RoundEnds

LEMMA EliminationStep ==
  ASSUME ValidInv, SignalInv, SweepingInv, CleanInv, [Next]_vars PROVE SweepingInv' /\ CleanInv'
<1>1. CASE UNCHANGED vars
  <2>1. /\ UNCHANGED <<list, outs, op, args, todoMods, stage, clean, running>>
        /\ UNCHANGED <<cursor, last, leaves, visited, turn>>
    BY <1>1 DEF vars, graph, driver, walk
  <2>2. CleanInv'
    BY <2>1, CleanSame
  <2>3. PICK m : m = Mod /\ Mod' = m
    BY <2>1 DEF Mod
  <2>4. Sweep(m)' <=> Sweep(m)
    <3>1. NothingDead(m)' <=> NothingDead(m)
      BY <2>1 DEF NothingDead, LastOf, Name, Skipped
    <3>2. \A x : StillDead(m, x)' <=> StillDead(m, x)
      BY <2>1 DEF StillDead, Name, Skipped
    <3>3. SweepInv(m)' <=> SweepInv(m)
      BY <2>1, <3>2 DEF SweepInv, Name
    <3>4. CASE turn = "removed"
      BY <2>1, <3>1, <3>4 DEF Sweep
    <3>5. CASE turn # "removed"
      BY <2>1, <3>3, <3>5 DEF Sweep
    <3> QED BY <3>4, <3>5
  <2> QED BY <2>1, <2>2, <2>3, <2>4 DEF SweepingInv
<1>2. CASE Subscribe
  <2>1. UNCHANGED <<list, outs, op, todoMods, stage, clean, running>> /\ running = "none"
    BY <1>2 DEF Subscribe
  <2> QED BY <2>1, CleanSame DEF SweepingInv
<1>3. CASE NextPass
  <2>1. running' = running /\ running = "none" /\ clean' = {}
    BY <1>3 DEF NextPass, SignalInv, FramesInv
  <2> QED BY <2>1 DEF SweepingInv, CleanInv
<1>4. CASE RunOnProgram \/ ProgramDone \/ \E m \in Modules : RemoveUnused(m)
  <2>1. running' = running /\ stage # "modules" /\ stage' # "modules"
    BY <1>4 DEF RunOnProgram, ProgramDone, RemoveUnused
  <2>2. running = "none"
    BY <2>1 DEF SignalInv, FramesInv
  <2> QED BY <2>1, <2>2 DEF SweepingInv, CleanInv
<1> QED BY <1>1, <1>2, <1>3, <1>4, EliminationPass, EliminationReturns, EliminationRuns,
           EliminationRounds DEF Next

(***************************************************************************)
(* What dead_code_elimination has been through has nothing dead left, for  *)
(* modules of any size, although it moves instructions behind the end of   *)
(* the list it walks and never looks at them again; and what passes then   *)
(* do to the modules above takes the last use from nothing below.          *)
(***************************************************************************)
THEOREM NothingDeadLeft == Spec => []CleanAfterElimination
<1>1. Init => SweepingInv /\ CleanInv
  BY DEF Init, SweepingInv, CleanInv
<1>2. ValidInv /\ SignalInv /\ SweepingInv /\ CleanInv /\ [Next]_vars => SweepingInv' /\ CleanInv'
  BY EliminationStep
<1>3. CleanInv => CleanAfterElimination
  BY DEF CleanInv, CleanAfterElimination
<1> QED BY <1>1, <1>2, <1>3, ValidHolds, PTL DEF Spec
=============================================================================

------------------------------ MODULE RunLoop ------------------------------
(***************************************************************************)
(* run_loop: the iterations of a loop operator on the buffers of its       *)
(* target.  On the gpu the body writes its results into buffers it is      *)
(* given: one of two sets for carried values, in turn, and the rows of the *)
(* scan outputs.  The ref target allocates results and appends the rows.   *)
(***************************************************************************)
EXTENDS LoopBody

CONSTANT Loops

ASSUME LoopsAssumption == \A l \in Loops : IsLoop(l)

VARIABLES
  loop,    \* the operator; never changes
  pc,      \* "test", "body" or "done"
  iter, cond,
  inArgs,  \* in_args without the iteration: the buffers the body reads
  outArgs, \* out_args without the scan outputs
  todo,    \* the results the body has not made yet in this iteration
  mem      \* what the buffers hold

vars == <<loop, pc, iter, cond, inArgs, outArgs, todo, mem>>

-----------------------------------------------------------------------------
(* Buffers *)
Arg(d)       == <<"arg", d>>
IterArg      == <<"iter">>
Dep(n, d)    == <<"dep", n, d>>
RowOf(s, i)  == <<"row", s, i>>
Fresh(k, i)  == <<"new", k, i>>

(* Mutant: both sets are the first. *)
OneSet(l, n, d) == IF l.target = "ref" /\ d # 0 THEN Arg(d) ELSE Dep(0, d)

(***************************************************************************)
(* loop_carry_deps[n]: dep0 are the allocations of add_loop_op, on ref the *)
(* arguments themselves; dep1 is cond_out and parts of the output.         *)
(***************************************************************************)
CarryDep(l, n, d) ==
  IF l.target = "ref" /\ n = 0 /\ d # 0 THEN Arg(d) ELSE Dep(n, d)

Buffers ==
  {IterArg} \cup {Arg(d) : d \in Carried}
    \cup {Dep(n, d) : n \in {0, 1}, d \in {0} \cup Carried}
    \cup {RowOf(s, i) : s \in Scans, i \in 0..(MaxIterations(loop) - 1)}
    \cup {Fresh(k, i) : k \in Outputs, i \in 0..(IterNum(loop) - 1)}

Stale == <<0>>  \* what uninitialised memory holds

-----------------------------------------------------------------------------
Init ==
  /\ loop \in Loops
  /\ pc = "test" /\ iter = 0 /\ cond = loop.start /\ todo = {}
  /\ inArgs  = [d \in {0} \cup Carried |-> IF d = 0 THEN CarryDep(loop, 1, 0) ELSE Arg(d)]
  /\ outArgs = [d \in {0} \cup Carried |-> CarryDep(loop, 0, d)]
  /\ mem = [b \in Buffers |-> IF \E d \in Carried : b = Arg(d) THEN Initial(b[2]) ELSE Stale]

(* Where the body puts result k: its parameter #output_k, or a new buffer. *)
Destination(k) ==
  IF loop.target = "ref" THEN Fresh(k, iter)
  ELSE IF k > DepNum THEN RowOf(k - DepNum, Row(loop, k - DepNum, iter))
  ELSE outArgs[k]

ResultsOf(l) == {k \in Outputs : l.outs[k] = Made(k)}

(***************************************************************************)
(* Another iteration: its number and the condition are copied.  A row that *)
(* is not in the output fails the assertion, and the loop is over: without *)
(* it the body writes behind the output, and nothing more can be said.     *)
(***************************************************************************)
Test ==
  /\ pc = "test" /\ iter < IterNum(loop) /\ cond
  /\ \A k \in ResultsOf(loop) : Destination(k) \in Buffers
  /\ mem' = [mem EXCEPT ![IterArg] = iter, ![inArgs[0]] = cond]
  /\ todo' = ResultsOf(loop)
  /\ pc' = "body"
  /\ UNCHANGED <<loop, iter, cond, inArgs, outArgs>>

(* The results of the body are made in any order its program may have. *)
Make(k) ==
  /\ pc = "body" /\ k \in todo
  /\ mem' = [mem EXCEPT ![Destination(k)] =
               Result(loop, k, mem[IterArg], [d \in Carried |-> mem[inArgs[d]]])]
  /\ todo' = todo \ {k}
  /\ UNCHANGED <<loop, pc, iter, cond, inArgs, outArgs>>

(* mod_args: the buffers the body returns *)
ModArg(o) ==
  LET out == loop.outs[o]
  IN IF out[1] = "param" THEN inArgs[out[2]] ELSE Destination(out[2])

(* append: on the gpu the rows have been written by the body. *)
Appended ==
  IF loop.target = "gpu" THEN mem
  ELSE [b \in Buffers |-> IF \E s \in Scans : b = RowOf(s, Row(loop, s, iter))
                            THEN mem[ModArg(DepNum + b[2])] ELSE mem[b]]

(* The same assertion is in append on ref. *)
EndIteration ==
  /\ pc = "body" /\ todo = {}
  /\ loop.target = "ref" => \A s \in Scans : RowOf(s, Row(loop, s, iter)) \in Buffers
  /\ cond' = mem[ModArg(0)]
  /\ inArgs' = [d \in {0} \cup Carried |-> ModArg(d)]
  /\ outArgs' = [d \in {0} \cup Carried |-> CarryDep(loop, (iter + 1) % 2, d)]
  /\ mem' = Appended
  /\ iter' = iter + 1
  /\ pc' = "test"
  /\ UNCHANGED <<loop, todo>>

(* Mutant: one row too few is set to zero. *)
ZeroBehind(i) == i + 1..(MaxIterations(loop) - 1)

(* set_zero: the rows from iteration i on *)
ZeroFrom(i) == i..(MaxIterations(loop) - 1)

(* The result are the buffers of the last iteration. *)
Finish ==
  /\ pc = "test" /\ ~ (iter < IterNum(loop) /\ cond)
  /\ mem' = [b \in Buffers |-> IF \E s \in Scans, i \in ZeroFrom(iter) : b = RowOf(s, i)
                                 THEN Zero ELSE mem[b]]
  /\ pc' = "done"
  /\ UNCHANGED <<loop, iter, cond, inArgs, outArgs, todo>>

Next == Test \/ (\E k \in Outputs : Make(k)) \/ EndIteration \/ Finish

Spec == Init /\ [][Next]_vars

-----------------------------------------------------------------------------
(***************************************************************************)
(* What the memory of a gpu loop is enough for.  A value made in one of    *)
(* the two sets is overwritten two iterations later: it is not handed on   *)
(* to another position, unless there is no such iteration.  And a scan     *)
(* output is a result of its own, as only those are given their row.  The  *)
(* parsers accept other bodies too, and lowering copies nothing for them.  *)
(***************************************************************************)
KeepsValues(l) ==
  \A o, d \in Carried : l.outs[o] = Param(d) => \A k \in Carried : l.outs[d] # Made(k)

TwoSetsDo(l) == l.target = "gpu" => KeepsValues(l) \/ IterNum(l) <= 2

RowsAreMade(l) == l.target = "gpu" => \A s \in Scans : l.outs[DepNum + s] = Made(DepNum + s)

(***************************************************************************)
(* Such a loop computes what Loop says, as far as it gets: the buffers the *)
(* next iteration reads hold what the last one returned, and rows are      *)
(* those of the iterations done, the others zero in the end.               *)
(***************************************************************************)
GivenRows == [s \in Scans |->
  [i \in 0..(MaxIterations(loop) - 1) |->
     IF pc = "done" \/ \E j \in 0..(iter - 1) : Row(loop, s, j) = i THEN mem[RowOf(s, i)] ELSE Zero]]

Iteration == INSTANCE Loop
  WITH count <- iter, more <- cond, carried <- [d \in Carried |-> mem[inArgs[d]]],
       rows <- GivenRows, over <- (pc = "done")

ImplementsLoop ==
  /\ Iteration!Init
  /\ [][TwoSetsDo(loop) /\ RowsAreMade(loop) => Iteration!Next]_Iteration!loopVars

(***************************************************************************)
(* What the body makes is never put over an argument of the operator,      *)
(* which may be a literal or be used after the loop, nor, where two sets   *)
(* do, where the body reads, not even by the kernel that makes it.         *)
(***************************************************************************)
WritesApart ==
  \A k \in todo : \A d \in Carried :
    Destination(k) # Arg(d) /\ (TwoSetsDo(loop) => Destination(k) # inArgs[d])
=============================================================================

------------------------------ MODULE LoopBody ------------------------------
(***************************************************************************)
(* A loop operator and what its body computes.  A body has an input for    *)
(* the iteration, the condition (0) and each loop carried value, and as    *)
(* outputs the condition, the carried values and a row for each scan       *)
(* output.  An output is a result the body makes or an input passed on.    *)
(***************************************************************************)
EXTENDS Integers

CONSTANTS
  DepNum,            \* dep_num: the loop carried values
  ScanNum,           \* the scan outputs
  MaxLoopIterations, LimitMaxIterations  \* onnx_options

ASSUME LoopSizeAssumption ==
  /\ DepNum \in Nat /\ ScanNum \in Nat
  /\ MaxLoopIterations \in Nat /\ LimitMaxIterations \in Nat

Carried == 1..DepNum
Scans   == 1..ScanNum
Outputs == 0..(DepNum + ScanNum)

(* An instruction of the body that several outputs return has the number   *)
(* of the last of them.                                                    *)
Made(k)  == <<"made", k>>
Param(d) == <<"param", d>>

(* The number of iterations asked for. *)
IterNum(l) == IF l.kind = "none" THEN MaxLoopIterations ELSE l.trips

Least(m, n) == IF m < n THEN m ELSE n

(***************************************************************************)
(* max_iterations, the number of rows of a scan output.  Where the trip    *)
(* count of a Loop is a parameter ("parameter") it is the default.         *)
(***************************************************************************)
MaxIterations(l) ==
  CASE l.kind \in {"none", "parameter"} -> Least(MaxLoopIterations, LimitMaxIterations)
    [] l.kind = "literal" -> Least(l.trips, LimitMaxIterations)
    [] l.kind = "scan"    -> l.trips

(***************************************************************************)
(* What the body makes of the carried values, as a term.  The condition it *)
(* makes ends the loop after iteration l.stop.                             *)
(***************************************************************************)
Zero       == <<>>
Initial(d) == <<0, d>>

Result(l, k, i, in) == IF k = 0 THEN i # l.stop ELSE <<k, i, in>>

(* The row of a scan output that iteration i gives. *)
Row(l, s, i) == IF l.dir[s] = 0 THEN i ELSE IterNum(l) - 1 - i

(***************************************************************************)
(* The loops that are parsed: a trip count that is a parameter, or cut to  *)
(* the limit, may ask for more iterations than there are rows; only a      *)
(* Scan, which hands its condition on, goes backwards.                     *)
(***************************************************************************)
IsLoop(l) ==
  /\ l.target \in {"ref", "gpu"} /\ l.kind \in {"none", "literal", "parameter", "scan"}
  /\ l.trips \in Nat /\ l.stop \in Nat /\ l.start \in BOOLEAN
  /\ l.dir \in [Scans -> {0, 1}]
  /\ l.outs \in [Outputs -> {Made(k) : k \in Outputs} \cup {Param(d) : d \in {0} \cup Carried}]
  /\ l.outs[0] \in {Made(0), Param(0)}
  /\ \A o \in Outputs \ {0} : \/ \E k \in o..(DepNum + ScanNum) : l.outs[o] = Made(k) /\ l.outs[k] = Made(k)
                              \/ \E d \in Carried : l.outs[o] = Param(d)
  /\ IF l.kind = "scan" THEN l.start /\ l.outs[0] = Param(0) /\ l.trips <= MaxLoopIterations
                        ELSE \A s \in Scans : l.dir[s] = 0
=============================================================================

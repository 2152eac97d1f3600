--------------------------- MODULE RunLoop_proofs ---------------------------
(***************************************************************************)
(* run_loop computes what the loop operator promises, for every number of  *)
(* carried values, scan outputs and iterations: on ref for every body, on  *)
(* the gpu for those TwoSetsDo and RowsAreMade name.  The invariant holds  *)
(* of every loop that is parsed.                                           *)
(***************************************************************************)
EXTENDS RunLoop, TLAPS

Positions == {0} \cup Carried
RowNums   == 0..(MaxIterations(loop) - 1)

LoopInv ==
  /\ loop \in Loops
  /\ pc \in {"test", "body", "done"}
  /\ iter \in Nat /\ iter <= IterNum(loop)
  /\ cond \in BOOLEAN
  /\ todo \subseteq {k \in Outputs : loop.outs[k] = Made(k)}
  /\ pc # "body" => todo = {}
  /\ DOMAIN mem = Buffers /\ mem = [b \in Buffers |-> mem[b]]
  /\ inArgs \in [Positions -> Buffers]
  /\ pc = "body" => \A k \in ResultsOf(loop) : Destination(k) \in Buffers

(* The loop goes on only while the condition the body makes has not ended  *)
(* it; a loop that hands its condition on goes on to the trip count.       *)
CondInv ==
  /\ cond => loop.start /\ (loop.outs[0] = Made(0) => iter <= loop.stop)
  /\ loop.outs[0] = Param(0) => cond = loop.start
  /\ pc = "body" => iter < IterNum(loop) /\ cond
  /\ pc = "body" /\ loop.outs[0] = Param(0) => mem[inArgs[0]] = cond

(* On ref the body reads arguments and what earlier iterations made. *)
RefArgs ==
  loop.target = "ref" =>
    /\ \A d \in Carried :
         inArgs[d] \in {Arg(e) : e \in Carried} \cup
                       {Fresh(k, i) : k \in Outputs \ {0}, i \in 0..(iter - 1)}
    /\ inArgs[0] = Dep(1, 0) \/ \E i \in 0..(iter - 1) : inArgs[0] = Fresh(0, i)

(* On the gpu it reads arguments, rows given, and what the last iteration  *)
(* made: the set not written now.  What is older than that is a value that *)
(* was handed on.                                                          *)
GpuArg(d) ==
  \/ inArgs[d] \in {Arg(e) : e \in Carried}
  \/ \E s \in Scans : \E j \in 0..(iter - 1) : inArgs[d] = RowOf(s, Row(loop, s, j))
  \/ iter > 0 /\ \E k \in Carried : loop.outs[d] = Made(k) /\ inArgs[d] = Dep(1 - (iter % 2), k)
  \/ iter > 1 /\ ~ KeepsValues(loop) /\ \E n \in {0, 1} : \E k \in Carried : inArgs[d] = Dep(n, k)

GpuArgs ==
  loop.target = "gpu" =>
    /\ \A d \in Carried : GpuArg(d)
    /\ \A d \in Positions : outArgs[d] = Dep(iter % 2, d)
    /\ inArgs[0] \in {Dep(0, 0), Dep(1, 0)}

HandedOn == loop.outs[0] = Param(0) => inArgs[0] = Dep(1, 0)

(* What the body has made is where the iteration puts it; the condition it *)
(* makes depends on no carried value.                                      *)
MadeInv ==
  pc = "body" =>
    /\ mem[IterArg] = iter
    /\ \A k \in Outputs : loop.outs[k] = Made(k) /\ k \notin todo /\ (TwoSetsDo(loop) \/ k = 0) =>
         mem[Destination(k)] = Result(loop, k, iter, [d \in Carried |-> mem[inArgs[d]]])

RunInv == LoopInv /\ CondInv /\ RefArgs /\ GpuArgs /\ HandedOn /\ MadeInv

-----------------------------------------------------------------------------
(* No two names of buffers are the same buffer. *)
LEMMA NamesDiffer ==
  ASSUME NEW d, NEW e, NEW i, NEW j
  PROVE  /\ Arg(d) = Arg(e) => d = e
         /\ Dep(d, i) = Dep(e, j) => d = e /\ i = j
         /\ RowOf(d, i) = RowOf(e, j) => d = e /\ i = j
         /\ Fresh(d, i) = Fresh(e, j) => d = e /\ i = j
         /\ Made(d) = Made(e) => d = e
         /\ Param(d) = Param(e) => d = e
         /\ Made(d) # Param(e)
  BY DEF Arg, Dep, RowOf, Fresh, Made, Param

LEMMA KindsDiffer ==
  ASSUME NEW d, NEW e, NEW i, NEW j
  PROVE  /\ Arg(d) # Dep(e, i) /\ Arg(d) # RowOf(e, i) /\ Arg(d) # Fresh(e, i)
         /\ Dep(d, i) # RowOf(e, j) /\ Dep(d, i) # Fresh(e, j)
         /\ RowOf(d, i) # Fresh(e, j)
         /\ IterArg # Arg(d) /\ IterArg # Dep(d, i)
         /\ IterArg # RowOf(d, i) /\ IterArg # Fresh(d, i)
  BY DEF Arg, Dep, RowOf, Fresh, IterArg

LEMMA Parity ==
  ASSUME NEW n \in Nat
  PROVE  n % 2 \in {0, 1} /\ (n + 1) % 2 = 1 - (n % 2)
  OBVIOUS

LEMMA NameParts ==
  ASSUME NEW d, NEW i
  PROVE  /\ Arg(d)[2] = d /\ RowOf(d, i)[2] = d
         /\ Param(d)[1] = "param" /\ Param(d)[2] = d
         /\ Made(d)[1] = "made" /\ Made(d)[2] = d
  BY DEF Arg, RowOf, Param, Made

-----------------------------------------------------------------------------
(* What is known of the operator. *)
LEMMA LoopFacts ==
  ASSUME loop \in Loops
  PROVE  /\ IsLoop(loop)
         /\ IterNum(loop) \in Nat /\ MaxIterations(loop) \in Nat
         /\ loop.target \in {"ref", "gpu"} /\ loop.start \in BOOLEAN /\ loop.stop \in Nat
         /\ \A s \in Scans : loop.dir[s] \in {0, 1}
         /\ \A s \in Scans : loop.dir[s] = 1 =>
              loop.start /\ loop.outs[0] = Param(0) /\ IterNum(loop) = MaxIterations(loop)
         /\ 0 \in Outputs /\ Carried \subseteq Outputs /\ DepNum \in Nat /\ ScanNum \in Nat
<1>1. IsLoop(loop)
  BY LoopsAssumption
<1> USE <1>1, LoopSizeAssumption
<1>2. IterNum(loop) \in Nat
  BY DEF IsLoop, IterNum
<1>3. MaxIterations(loop) \in Nat
  BY DEF IsLoop, MaxIterations, Least
<1>4. loop.kind = "scan" => IterNum(loop) = MaxIterations(loop)
  BY DEF IterNum, MaxIterations
<1>5. /\ loop.target \in {"ref", "gpu"} /\ loop.start \in BOOLEAN /\ loop.stop \in Nat
      /\ \A s \in Scans : loop.dir[s] \in {0, 1}
      /\ \A s \in Scans : loop.dir[s] = 1 =>
           loop.start /\ loop.outs[0] = Param(0) /\ loop.kind = "scan"
  BY DEF IsLoop
<1>6. 0 \in Outputs /\ Carried \subseteq Outputs
  BY DEF Outputs, Carried
<1> QED BY <1>2, <1>3, <1>4, <1>5, <1>6

(* An output is made or passed on; only the condition is passed as one. *)
LEMMA OutputFacts ==
  ASSUME loop \in Loops, NEW o \in Outputs
  PROVE  /\ o = 0 => loop.outs[o] = Made(0) \/ loop.outs[o] = Param(0)
         /\ o # 0 => \/ \E k \in Outputs \ {0} : loop.outs[o] = Made(k) /\ loop.outs[k] = Made(k)
                     \/ \E d \in Carried : loop.outs[o] = Param(d)
<1>1. IsLoop(loop)
  BY LoopFacts
<1>2. o = 0 => loop.outs[o] = Made(0) \/ loop.outs[o] = Param(0)
  BY <1>1 DEF IsLoop
<1>3. ASSUME o # 0
      PROVE  \/ \E k \in o..(DepNum + ScanNum) : loop.outs[o] = Made(k) /\ loop.outs[k] = Made(k)
             \/ \E d \in Carried : loop.outs[o] = Param(d)
  BY <1>1, <1>3 DEF IsLoop
<1>4. o # 0 => o..(DepNum + ScanNum) \subseteq Outputs \ {0}
  BY LoopSizeAssumption DEF Outputs
<1> QED BY <1>2, <1>3, <1>4

LEMMA RowsDiffer ==
  ASSUME loop \in Loops, NEW s \in Scans, NEW i \in Int, NEW j \in Int
  PROVE  Row(loop, s, i) = Row(loop, s, j) => i = j
  BY LoopFacts DEF Row

(* Where a result goes. *)
LEMMA Destinations ==
  ASSUME LoopInv, CondInv, GpuArgs, pc = "body", NEW k \in Outputs, loop.outs[k] = Made(k)
  PROVE  /\ Destination(k) \in Buffers
         /\ loop.target = "ref" => Destination(k) = Fresh(k, iter)
         /\ loop.target = "gpu" /\ k <= DepNum =>
              k \in Positions /\ Destination(k) = Dep(iter % 2, k)
         /\ loop.target = "gpu" /\ k > DepNum =>
              /\ k - DepNum \in Scans
              /\ Destination(k) = RowOf(k - DepNum, Row(loop, k - DepNum, iter))
<1>1. loop \in Loops /\ iter \in Nat
  BY DEF LoopInv
<1>2. k > DepNum => k - DepNum \in Scans
  BY LoopSizeAssumption DEF Outputs, Scans
<1>3. k <= DepNum => k \in Positions
  BY LoopSizeAssumption DEF Outputs, Positions, Carried
<1>4. loop.target = "ref" => Destination(k) = Fresh(k, iter)
  BY DEF Destination
<1>5. loop.target = "gpu" /\ k > DepNum =>
        Destination(k) = RowOf(k - DepNum, Row(loop, k - DepNum, iter))
  BY DEF Destination
<1>6. loop.target = "gpu" /\ k <= DepNum => Destination(k) = Dep(iter % 2, k)
  BY <1>3, LoopSizeAssumption DEF Destination, GpuArgs, Outputs
<1>7. Destination(k) \in Buffers
  BY DEF LoopInv, ResultsOf
<1> QED
  BY <1>1, <1>2, <1>3, <1>4, <1>5, <1>6, <1>7

(* What the body reads are no places of the iteration and the condition. *)
LEMMA InputsApart ==
  ASSUME LoopInv, RefArgs, GpuArgs
  PROVE  /\ inArgs[0] # IterArg /\ 0 \in Positions
         /\ \A s, i : inArgs[0] # RowOf(s, i)
         /\ \A d \in Carried : inArgs[d] # IterArg /\ inArgs[d] # inArgs[0]
<1>1. loop.target \in {"ref", "gpu"}
  BY LoopFacts DEF LoopInv
<1>2. CASE loop.target = "ref"
  <2>1. inArgs[0] = Dep(1, 0) \/ \E i : inArgs[0] = Fresh(0, i)
    BY <1>2 DEF RefArgs
  <2>2. \A d \in Carried : (\E e : inArgs[d] = Arg(e)) \/ (\E k, i : k # 0 /\ inArgs[d] = Fresh(k, i))
    BY <1>2 DEF RefArgs
  <2>3. inArgs[0] # IterArg /\ \A s, i : inArgs[0] # RowOf(s, i)
    BY <2>1, KindsDiffer
  <2>4. ASSUME NEW d \in Carried PROVE inArgs[d] # IterArg /\ inArgs[d] # inArgs[0]
    <3>1. CASE \E e : inArgs[d] = Arg(e)
      BY <2>1, <3>1, KindsDiffer
    <3>2. CASE \E k, i : k # 0 /\ inArgs[d] = Fresh(k, i)
      BY <2>1, <3>2, NamesDiffer, KindsDiffer
    <3> QED BY <2>2, <3>1, <3>2
  <2> QED BY <2>3, <2>4 DEF Positions
<1>3. CASE loop.target = "gpu"
  <2>1. inArgs[0] \in {Dep(0, 0), Dep(1, 0)}
    BY <1>3 DEF GpuArgs
  <2>2. \A d \in Carried : \/ \E e : inArgs[d] = Arg(e)
                           \/ \E n : \E k \in Carried : inArgs[d] = Dep(n, k)
                           \/ \E s, i : inArgs[d] = RowOf(s, i)
    BY <1>3 DEF GpuArgs, GpuArg
  <2>3. 0 \notin Carried
    BY LoopSizeAssumption DEF Carried
  <2> QED BY <2>1, <2>2, <2>3, NamesDiffer, KindsDiffer DEF Positions
<1> QED BY <1>1, <1>2, <1>3

(* What the body makes goes where it does not read, each result elsewhere, *)
(* and not over a row given before.                                        *)
LEMMA DestinationsApart ==
  ASSUME LoopInv, CondInv, RefArgs, GpuArgs, HandedOn, pc = "body",
         NEW k \in Outputs, loop.outs[k] = Made(k)
  PROVE  /\ \A d \in Carried : Destination(k) # Arg(d) /\ (TwoSetsDo(loop) => Destination(k) # inArgs[d])
         /\ Destination(k) # IterArg
         /\ loop.outs[0] = Param(0) => Destination(k) # inArgs[0]
         /\ \A s \in Scans : \A j \in 0..(iter - 1) : Destination(k) # RowOf(s, Row(loop, s, j))
         /\ \A j \in Outputs : loop.outs[j] = Made(j) /\ Destination(j) = Destination(k) => j = k
<1>1. loop \in Loops /\ iter \in Nat
  BY DEF LoopInv
<1>2. loop.target \in {"ref", "gpu"}
  BY <1>1, LoopFacts
<1>3. loop.outs[0] = Param(0) => k # 0
  BY NamesDiffer
<1>4. CASE loop.target = "ref"
  <2>1. Destination(k) = Fresh(k, iter)
    BY <1>4, Destinations
  <2>2. \A d \in Carried : \/ \E e : inArgs[d] = Arg(e)
                           \/ \E l \in Outputs, i \in 0..(iter - 1) : inArgs[d] = Fresh(l, i)
    BY <1>4 DEF RefArgs
  <2>3. \A i \in 0..(iter - 1) : i # iter
    BY <1>1
  <2>4. \A j \in Outputs : loop.outs[j] = Made(j) => Destination(j) = Fresh(j, iter)
    BY <1>4, Destinations
  <2>5. ASSUME NEW d \in Carried PROVE Destination(k) # inArgs[d] /\ Destination(k) # Arg(d)
    <3>1. CASE \E e : inArgs[d] = Arg(e)
      BY <2>1, <3>1, KindsDiffer
    <3>2. CASE \E l \in Outputs, i \in 0..(iter - 1) : inArgs[d] = Fresh(l, i)
      BY <2>1, <2>3, <3>2, NamesDiffer, KindsDiffer
    <3> QED BY <2>2, <3>1, <3>2
  <2>6. Destination(k) # IterArg /\ \A s, i : Destination(k) # RowOf(s, i)
    BY <2>1, KindsDiffer
  <2>7. loop.outs[0] = Param(0) => Destination(k) # inArgs[0]
    BY <2>1, KindsDiffer DEF HandedOn
  <2>8. \A j \in Outputs : loop.outs[j] = Made(j) /\ Destination(j) = Destination(k) => j = k
    BY <2>1, <2>4, NamesDiffer
  <2> QED BY <2>5, <2>6, <2>7, <2>8
<1>5. CASE loop.target = "gpu" /\ k <= DepNum
  <2>1. Destination(k) = Dep(iter % 2, k)
    BY <1>5, Destinations
  <2>2. TwoSetsDo(loop) =>
          \A d \in Carried : \/ \E e : inArgs[d] = Arg(e)
                             \/ \E l : inArgs[d] = Dep(1 - (iter % 2), l)
                             \/ \E s, i : inArgs[d] = RowOf(s, i)
    <3>1. TwoSetsDo(loop) => ~ (iter > 1 /\ ~ KeepsValues(loop))
      <4>1. iter < IterNum(loop) /\ IterNum(loop) \in Nat
        BY <1>1, LoopFacts DEF CondInv
      <4>2. iter > 1 => ~ (IterNum(loop) <= 2)
        BY <1>1, <4>1
      <4> QED BY <1>5, <4>2 DEF TwoSetsDo
    <3> QED BY <1>5, <3>1 DEF GpuArgs, GpuArg
  <2>3. 1 - (iter % 2) # iter % 2
    BY <1>1, Parity
  <2>4. ASSUME NEW j \in Outputs, loop.outs[j] = Made(j)
        PROVE  Destination(j) = Dep(iter % 2, j) \/ \E s, i : Destination(j) = RowOf(s, i)
    BY <1>5, <2>4, Destinations, LoopSizeAssumption DEF Outputs
  <2>5. loop.outs[0] = Param(0) => Destination(k) # inArgs[0]
    BY <1>3, <2>1, NamesDiffer DEF HandedOn
  <2>6. ASSUME NEW d \in Carried, TwoSetsDo(loop) PROVE Destination(k) # inArgs[d]
    <3>1. CASE \E e : inArgs[d] = Arg(e)
      BY <2>1, <3>1, KindsDiffer
    <3>2. CASE \E l : inArgs[d] = Dep(1 - (iter % 2), l)
      BY <2>1, <2>3, <3>2, NamesDiffer, KindsDiffer
    <3>3. CASE \E s, i : inArgs[d] = RowOf(s, i)
      BY <2>1, <3>3, KindsDiffer
    <3> QED BY <2>2, <2>6, <3>1, <3>2, <3>3
  <2>9. \A d : Destination(k) # Arg(d)
    BY <2>1, KindsDiffer
  <2>7. ASSUME NEW j \in Outputs, loop.outs[j] = Made(j), Destination(j) = Destination(k)
        PROVE  j = k
    BY <2>1, <2>4, <2>7, NamesDiffer, KindsDiffer
  <2>8. Destination(k) # IterArg /\ \A s, i : Destination(k) # RowOf(s, i)
    BY <2>1, KindsDiffer
  <2> QED BY <2>5, <2>6, <2>7, <2>8, <2>9
<1>6. CASE loop.target = "gpu" /\ k > DepNum
  <2> DEFINE r == k - DepNum
  <2>1. r \in Scans /\ Destination(k) = RowOf(r, Row(loop, r, iter))
    BY <1>6, Destinations
  <2>2. \A s \in Scans : \A j \in 0..(iter - 1) : Row(loop, s, j) # Row(loop, s, iter)
    BY <1>1, RowsDiffer
  <2>3. \A d \in Carried : \/ \E e : inArgs[d] = Arg(e)
                           \/ \E n, l : inArgs[d] = Dep(n, l)
                           \/ \E s \in Scans : \E j \in 0..(iter - 1) : inArgs[d] = RowOf(s, Row(loop, s, j))
    BY <1>6 DEF GpuArgs, GpuArg
  <2>4. ASSUME NEW j \in Outputs, loop.outs[j] = Made(j), Destination(j) = Destination(k)
        PROVE  j = k
    <3>1. j > DepNum
      <4>1. j <= DepNum => Destination(j) = Dep(iter % 2, j)
        BY <1>6, <2>4, Destinations
      <4>2. ~ (j <= DepNum)
        BY <2>1, <2>4, <4>1, KindsDiffer
      <4> QED BY <4>2, LoopSizeAssumption DEF Outputs
    <3>2. Destination(j) = RowOf(j - DepNum, Row(loop, j - DepNum, iter))
      BY <1>6, <2>4, <3>1, Destinations
    <3>3. j - DepNum = r
      BY <2>1, <2>4, <3>2, NamesDiffer
    <3> QED BY <3>3, LoopSizeAssumption DEF Outputs
  <2>5. inArgs[0] # Destination(k)
    BY <2>1, InputsApart
  <2> HIDE DEF r
  <2>6. ASSUME NEW d \in Carried PROVE Destination(k) # inArgs[d] /\ Destination(k) # Arg(d)
    <3>1. Destination(k) # Arg(d)
      BY <2>1, KindsDiffer
    <3>2. CASE \E e : inArgs[d] = Arg(e)
      BY <2>1, <3>2, KindsDiffer
    <3>3. CASE \E n, l : inArgs[d] = Dep(n, l)
      BY <2>1, <3>3, KindsDiffer
    <3>4. CASE \E s \in Scans : \E j \in 0..(iter - 1) : inArgs[d] = RowOf(s, Row(loop, s, j))
      <4>1. PICK s \in Scans, j \in 0..(iter - 1) : inArgs[d] = RowOf(s, Row(loop, s, j))
        BY <3>4
      <4>2. RowOf(s, Row(loop, s, j)) = RowOf(r, Row(loop, r, iter))
              => s = r /\ Row(loop, s, j) = Row(loop, r, iter)
        BY NamesDiffer
      <4>3. s = r => Row(loop, s, j) # Row(loop, r, iter)
        BY <2>2
      <4> QED BY <2>1, <3>1, <4>1, <4>2, <4>3
    <3> QED BY <2>3, <3>1, <3>2, <3>3, <3>4
  <2>7. \A s \in Scans : \A j \in 0..(iter - 1) : Destination(k) # RowOf(s, Row(loop, s, j))
    BY <2>1, <2>2, NamesDiffer
  <2>8. Destination(k) # IterArg
    BY <2>1, KindsDiffer
  <2> QED BY <2>4, <2>5, <2>6, <2>7, <2>8
<1> QED
  BY <1>2, <1>4, <1>5, <1>6, LoopSizeAssumption DEF Outputs

-----------------------------------------------------------------------------
LEMMA StartsRunning == Init => RunInv
<1> SUFFICES ASSUME Init PROVE RunInv
  OBVIOUS
<1>1. loop \in Loops /\ pc = "test" /\ iter = 0 /\ cond = loop.start /\ todo = {}
  BY DEF Init
<1>2. 0 \notin Carried /\ 0 \in Positions
  BY LoopSizeAssumption DEF Carried, Positions
<1>3. inArgs[0] = Dep(1, 0) /\ \A d \in Carried : inArgs[d] = Arg(d)
  BY <1>2 DEF Init, CarryDep, Positions
<1>4. loop.target = "gpu" => \A d \in Positions : outArgs[d] = Dep(0, d)
  BY DEF Init, CarryDep, Positions
<1>5. \A d \in Positions : inArgs[d] \in Buffers
  BY <1>3 DEF Buffers, Positions
<1>6. LoopInv
  <2>1. IterNum(loop) \in Nat /\ loop.start \in BOOLEAN
    BY <1>1, LoopFacts
  <2>2. inArgs \in [Positions -> Buffers]
    BY <1>5 DEF Init, Positions
  <2>3. DOMAIN mem = Buffers /\ mem = [b \in Buffers |-> mem[b]]
    BY DEF Init
  <2> QED BY <1>1, <2>1, <2>2, <2>3 DEF LoopInv
<1>7. CondInv
  BY <1>1, LoopFacts DEF CondInv
<1>8. RefArgs /\ HandedOn
  BY <1>3 DEF RefArgs, HandedOn
<1>9. GpuArgs
  BY <1>1, <1>3, <1>4, Parity DEF GpuArgs, GpuArg
<1> QED BY <1>1, <1>6, <1>7, <1>8, <1>9 DEF RunInv, MadeInv

LEMMA BuffersStay ==
  ASSUME loop' = loop
  PROVE  Buffers' = Buffers /\ MaxIterations(loop)' = MaxIterations(loop)
<1>1. MaxIterations(loop)' = MaxIterations(loop)
  BY DEF MaxIterations
<1>2. IterNum(loop)' = IterNum(loop)
  BY DEF IterNum
<1> QED BY <1>1, <1>2 DEF Buffers

LEMMA DestinationsStay ==
  ASSUME loop' = loop, iter' = iter, outArgs' = outArgs
  PROVE  /\ Buffers' = Buffers /\ ResultsOf(loop)' = ResultsOf(loop)
         /\ TwoSetsDo(loop)' <=> TwoSetsDo(loop)
         /\ \A k : Destination(k)' = Destination(k)
  BY BuffersStay DEF Destination, Row, IterNum, ResultsOf, TwoSetsDo, KeepsValues

LEMMA ArgsStay ==
  ASSUME RefArgs, GpuArgs, HandedOn,
         loop' = loop, iter' = iter, inArgs' = inArgs, outArgs' = outArgs
  PROVE  RefArgs' /\ GpuArgs' /\ HandedOn'
<1>1. RefArgs' /\ HandedOn'
  BY DEF RefArgs, HandedOn
<1>2. ASSUME NEW d, GpuArg(d) PROVE GpuArg(d)'
  BY <1>2 DEF GpuArg, KeepsValues, Row, IterNum
<1>3. GpuArgs'
  BY <1>2 DEF GpuArgs
<1> QED BY <1>1, <1>3

LEMMA TestKeeps ==
  ASSUME RunInv, Test
  PROVE  /\ RunInv'
         /\ \A d \in Carried : mem'[inArgs'[d]] = mem[inArgs[d]]
         /\ \A b \in Buffers : b # IterArg /\ b # inArgs[0] => mem'[b] = mem[b]
<1> USE DEF RunInv
<1>1. /\ iter < IterNum(loop) /\ cond /\ pc' = "body"
      /\ mem' = [mem EXCEPT ![IterArg] = iter, ![inArgs[0]] = cond]
      /\ todo' = {k \in Outputs : loop.outs[k] = Made(k)}
      /\ loop' = loop /\ iter' = iter /\ cond' = cond /\ inArgs' = inArgs /\ outArgs' = outArgs
      /\ \A k \in ResultsOf(loop) : Destination(k) \in Buffers
  BY DEF Test, ResultsOf
<1>2. Buffers' = Buffers /\ IterArg \in Buffers /\ inArgs[0] \in Buffers
  BY <1>1, InputsApart, BuffersStay DEF Buffers, LoopInv
<1>3. /\ mem'[IterArg] = iter /\ mem'[inArgs[0]] = cond
      /\ \A b \in Buffers : b # IterArg /\ b # inArgs[0] => mem'[b] = mem[b]
      /\ DOMAIN mem' = Buffers /\ mem' = [b \in Buffers |-> mem'[b]]
  BY <1>1, <1>2, InputsApart DEF LoopInv
<1>4. \A d \in Carried : mem'[inArgs'[d]] = mem[inArgs[d]]
  BY <1>1, <1>3, InputsApart DEF LoopInv, Positions
<1>5. LoopInv'
  <2>1. \A k \in ResultsOf(loop)' : Destination(k)' \in Buffers'
    BY <1>1, DestinationsStay
  <2> QED BY <1>1, <1>2, <1>3, <2>1 DEF LoopInv, IterNum, Positions
<1>6. CondInv'
  BY <1>1, <1>3 DEF CondInv, IterNum
<1>7. RefArgs' /\ GpuArgs' /\ HandedOn'
  BY <1>1, ArgsStay
<1>8. MadeInv'
  BY <1>1, <1>3 DEF MadeInv
<1> QED BY <1>3, <1>4, <1>5, <1>6, <1>7, <1>8

LEMMA MakeKeeps ==
  ASSUME RunInv, NEW k \in Outputs, Make(k)
  PROVE  /\ RunInv'
         /\ TwoSetsDo(loop) => \A d \in Carried : mem'[inArgs'[d]] = mem[inArgs[d]]
         /\ \A b \in Buffers : b # Destination(k) => mem'[b] = mem[b]
<1> USE DEF RunInv
<1> DEFINE now == [d \in Carried |-> mem[inArgs[d]]]
<1>1. /\ pc = "body" /\ k \in todo /\ loop.outs[k] = Made(k)
      /\ mem' = [mem EXCEPT ![Destination(k)] = Result(loop, k, mem[IterArg], now)]
      /\ todo' = todo \ {k}
      /\ loop' = loop /\ pc' = pc /\ iter' = iter /\ cond' = cond
      /\ inArgs' = inArgs /\ outArgs' = outArgs
  BY DEF Make, LoopInv
<1>2. Buffers' = Buffers /\ IterArg \in Buffers /\ Destination(k) \in Buffers
  BY <1>1, Destinations, BuffersStay DEF Buffers
<1>3. /\ mem'[Destination(k)] = Result(loop, k, iter, now)
      /\ \A b \in Buffers : b # Destination(k) => mem'[b] = mem[b]
      /\ DOMAIN mem' = Buffers /\ mem' = [b \in Buffers |-> mem'[b]]
  BY <1>1, <1>2 DEF LoopInv, MadeInv
<1>4. TwoSetsDo(loop) => \A d \in Carried : mem'[inArgs'[d]] = mem[inArgs[d]]
  BY <1>1, <1>3, DestinationsApart DEF LoopInv, Positions
<1>5. LoopInv'
  <2>1. \A j \in ResultsOf(loop)' : Destination(j)' \in Buffers'
    BY <1>1, DestinationsStay DEF LoopInv
  <2> QED BY <1>1, <1>2, <1>3, <2>1 DEF LoopInv, IterNum, Positions
<1>6. CondInv'
  <2>1. loop.outs[0] = Param(0) => mem'[inArgs[0]] = mem[inArgs[0]]
    BY <1>1, <1>3, DestinationsApart DEF LoopInv, Positions
  <2> QED BY <1>1, <2>1 DEF CondInv, IterNum
<1>7. RefArgs' /\ GpuArgs' /\ HandedOn'
  BY <1>1, ArgsStay
<1>8. MadeInv'
  <2>1. TwoSetsDo(loop) => [d \in Carried |-> mem[inArgs[d]]]' = now
    BY <1>1, <1>4
  <2>2. mem'[IterArg] = iter
    BY <1>1, <1>2, <1>3, DestinationsApart DEF MadeInv
  <2>3. ASSUME NEW j \in Outputs, loop.outs[j] = Made(j), j \notin todo', TwoSetsDo(loop) \/ j = 0
        PROVE  mem'[Destination(j)'] = Result(loop, j, iter, now)
    <3>1. Destination(j)' = Destination(j)
      BY <1>1 DEF Destination, Row, IterNum
    <3>2. CASE j = k
      BY <1>3, <3>1, <3>2
    <3>3. CASE j # k
      <4>1. mem[Destination(j)] = Result(loop, j, iter, now)
        BY <1>1, <2>3, <3>3 DEF MadeInv
      <4>2. Destination(j) # Destination(k) /\ Destination(j) \in Buffers
        BY <1>1, <2>3, <3>3, Destinations, DestinationsApart
      <4> QED BY <1>3, <3>1, <4>1, <4>2
    <3> QED BY <3>2, <3>3
  <2>4. \A in, other : Result(loop, 0, iter, in) = Result(loop, 0, iter, other)
    BY DEF Result
  <2>5. (TwoSetsDo(loop))' <=> TwoSetsDo(loop)
    BY <1>1, DestinationsStay
  <2> HIDE DEF now
  <2>6. ASSUME NEW j \in Outputs, loop.outs[j] = Made(j), j \notin todo', TwoSetsDo(loop) \/ j = 0
        PROVE  mem'[Destination(j)'] = Result(loop, j, iter, [d \in Carried |-> mem[inArgs[d]]]')
    BY <2>1, <2>3, <2>4, <2>6
  <2> QED BY <1>1, <2>2, <2>5, <2>6 DEF MadeInv, Result
<1> QED BY <1>3, <1>4, <1>5, <1>6, <1>7, <1>8

LEMMA FinishKeeps ==
  ASSUME RunInv, Finish
  PROVE  RunInv'
<1> USE DEF RunInv
<1>1. /\ pc = "test" /\ pc' = "done"
      /\ loop' = loop /\ iter' = iter /\ cond' = cond /\ todo' = todo
      /\ inArgs' = inArgs /\ outArgs' = outArgs
      /\ DOMAIN mem' = Buffers /\ mem' = [b \in Buffers |-> mem'[b]]
  BY DEF Finish
<1>2. Buffers' = Buffers
  BY <1>1, BuffersStay
<1>3. LoopInv' /\ CondInv'
  BY <1>1, <1>2 DEF LoopInv, CondInv, IterNum, Positions
<1>4. RefArgs' /\ GpuArgs' /\ HandedOn' /\ MadeInv'
  BY <1>1, ArgsStay DEF MadeInv
<1> QED BY <1>3, <1>4

(* The buffers the body returns. *)
LEMMA Returned ==
  ASSUME RunInv, pc = "body", NEW o \in Outputs
  PROVE  /\ ModArg(o) \in Buffers
         /\ \A k \in Outputs : loop.outs[o] = Made(k) => ModArg(o) = Destination(k)
         /\ \A d \in Positions : loop.outs[o] = Param(d) => ModArg(o) = inArgs[d]
<1> USE DEF RunInv
<1>1. \A k \in Outputs : loop.outs[o] = Made(k) => ModArg(o) = Destination(k)
  BY NameParts DEF ModArg
<1>2. \A d \in Positions : loop.outs[o] = Param(d) => ModArg(o) = inArgs[d]
  BY NameParts DEF ModArg
<1>3. loop \in Loops /\ \A d \in Positions : inArgs[d] \in Buffers
  BY DEF LoopInv
<1>4. ModArg(o) \in Buffers
  <2>1. CASE \E k \in Outputs : loop.outs[o] = Made(k) /\ loop.outs[k] = Made(k)
    BY <1>1, <2>1, Destinations
  <2>2. CASE \E d \in Positions : loop.outs[o] = Param(d)
    BY <1>2, <1>3, <2>2
  <2> QED BY <1>3, <2>1, <2>2, OutputFacts DEF Positions
<1> QED BY <1>1, <1>2, <1>4

(* What they hold is what the body computes. *)
LEMMA ReturnedValues ==
  ASSUME RunInv, pc = "body", todo = {}, NEW o \in Outputs
  PROVE  /\ \A k \in Outputs : loop.outs[o] = Made(k) /\ loop.outs[k] = Made(k)
                              /\ (TwoSetsDo(loop) \/ k = 0) =>
              mem[ModArg(o)] = Result(loop, k, iter, [d \in Carried |-> mem[inArgs[d]]])
         /\ \A d \in Carried : loop.outs[o] = Param(d) => mem[ModArg(o)] = mem[inArgs[d]]
         /\ loop.outs[0] = Param(0) => mem[ModArg(0)] = cond
<1> USE DEF RunInv
<1>1. \A k \in Outputs : loop.outs[k] = Made(k) /\ (TwoSetsDo(loop) \/ k = 0) =>
        mem[Destination(k)] = Result(loop, k, iter, [d \in Carried |-> mem[inArgs[d]]])
  BY DEF MadeInv
<1>2. 0 \in Outputs /\ 0 \in Positions /\ Carried \subseteq Positions
  BY LoopFacts DEF Positions, LoopInv
<1>3. loop.outs[0] = Param(0) => mem[ModArg(0)] = cond
  BY <1>2, Returned DEF CondInv
<1> QED BY <1>1, <1>2, <1>3, Returned

(* append writes the rows of the iteration only. *)
LEMMA AppendedFacts ==
  ASSUME RunInv, EndIteration
  PROVE  /\ DOMAIN Appended = Buffers /\ Appended = [b \in Buffers |-> Appended[b]]
         /\ \A b \in Buffers : (\A s \in Scans : b # RowOf(s, Row(loop, s, iter))) => Appended[b] = mem[b]
         /\ RowsAreMade(loop) =>
              \A s \in Scans : Appended[RowOf(s, Row(loop, s, iter))] = mem[ModArg(DepNum + s)]
<1> USE DEF RunInv
<1>1. /\ loop \in Loops /\ DOMAIN mem = Buffers /\ mem = [b \in Buffers |-> mem[b]]
      /\ pc = "body" /\ loop.target \in {"ref", "gpu"}
  BY LoopFacts DEF LoopInv, EndIteration
<1>2. CASE loop.target = "gpu"
  <2>1. Appended = mem
    BY <1>2 DEF Appended
  <2>2. ASSUME RowsAreMade(loop), NEW s \in Scans
        PROVE  ModArg(DepNum + s) = RowOf(s, Row(loop, s, iter))
    <3>1. DepNum + s \in Outputs /\ DepNum + s > DepNum /\ (DepNum + s) - DepNum = s
      BY LoopSizeAssumption DEF Scans, Outputs
    <3>2. loop.outs[DepNum + s] = Made(DepNum + s)
      BY <1>2, <2>2 DEF RowsAreMade
    <3>3. ModArg(DepNum + s) = Destination(DepNum + s)
      BY <1>1, <3>1, <3>2, Returned
    <3> QED BY <1>1, <1>2, <3>1, <3>2, <3>3, Destinations
  <2> QED BY <1>1, <2>1, <2>2
<1>3. CASE loop.target = "ref"
  <2>1. Appended = [b \in Buffers |-> IF \E s \in Scans : b = RowOf(s, Row(loop, s, iter))
                                        THEN mem[ModArg(DepNum + b[2])] ELSE mem[b]]
    BY <1>3 DEF Appended
  <2>2. \A s \in Scans : RowOf(s, Row(loop, s, iter)) \in Buffers
    BY <1>3 DEF EndIteration
  <2>3. \A s \in Scans : Appended[RowOf(s, Row(loop, s, iter))] = mem[ModArg(DepNum + s)]
    BY <2>1, <2>2, NameParts
  <2> QED BY <2>1, <2>3
<1> QED BY <1>1, <1>2, <1>3

LEMMA EndKeeps ==
  ASSUME RunInv, EndIteration
  PROVE  RunInv'
<1> USE DEF RunInv
<1>1. /\ pc = "body" /\ todo = {} /\ pc' = "test" /\ todo' = todo /\ loop' = loop
      /\ cond' = mem[ModArg(0)] /\ mem' = Appended /\ iter' = iter + 1
      /\ iter \in Nat /\ loop \in Loops
  BY DEF EndIteration, LoopInv
<1>2. 0 \in Positions /\ 0 \in Outputs /\ Positions \subseteq Outputs /\ Carried \subseteq Positions
      /\ 0 \notin Carried
  BY <1>1, LoopFacts, LoopSizeAssumption DEF Positions, Carried
<1>3. \A d \in Positions : inArgs'[d] = ModArg(d) /\ outArgs'[d] = CarryDep(loop, (iter + 1) % 2, d)
  BY DEF EndIteration, Positions
<1>4. iter < IterNum(loop) /\ cond
  BY <1>1 DEF CondInv
<1>5. \/ loop.outs[0] = Param(0) /\ cond' = cond
      \/ loop.outs[0] = Made(0) /\ cond' = (iter # loop.stop)
  BY <1>1, <1>2, OutputFacts, ReturnedValues DEF Result
<1>6. LoopInv'
  <2>1. inArgs' = [d \in Positions |-> ModArg(d)]
    BY DEF EndIteration, Positions
  <2>2. inArgs' \in [Positions -> Buffers]
    BY <1>1, <1>2, <2>1, Returned
  <2>3. cond' \in BOOLEAN
    BY <1>5 DEF LoopInv
  <2>4. iter + 1 \in Nat /\ iter + 1 <= IterNum(loop)
    BY <1>1, <1>4, LoopFacts
  <2> QED BY <1>1, <2>2, <2>3, <2>4, BuffersStay, AppendedFacts DEF LoopInv, IterNum
<1>7. CondInv'
  <2>1. cond' => loop.start /\ (loop.outs[0] = Made(0) => iter + 1 <= loop.stop)
    <3>1. loop.start /\ (loop.outs[0] = Made(0) => iter <= loop.stop)
      BY <1>4 DEF CondInv
    <3>2. loop.stop \in Nat /\ Made(0) # Param(0)
      BY <1>1, LoopFacts, NamesDiffer
    <3>3. cond' /\ loop.outs[0] = Made(0) => iter # loop.stop
      BY <1>5, <3>2
    <3>4. iter # loop.stop /\ iter <= loop.stop => iter + 1 <= loop.stop
      BY <1>1, <3>2
    <3> QED BY <3>1, <3>3, <3>4
  <2> QED BY <1>1, <1>5, <2>1, NamesDiffer DEF CondInv
<1>8. RefArgs'
  <2> SUFFICES ASSUME loop.target = "ref" PROVE RefArgs'
    BY <1>1 DEF RefArgs
  <2>1. \A k \in Outputs : loop.outs[k] = Made(k) => Destination(k) = Fresh(k, iter)
    BY <1>1, Destinations
  <2>2. iter \in 0..iter /\ iter + 1 - 1 = iter /\ 0..(iter - 1) \subseteq 0..iter
    BY <1>1
  <2>3. ASSUME NEW d \in Carried
        PROVE  ModArg(d) \in {Arg(e) : e \in Carried} \cup
                            {Fresh(k, i) : k \in Outputs \ {0}, i \in 0..iter}
    <3>1. ASSUME NEW k \in Outputs \ {0}, loop.outs[d] = Made(k), loop.outs[k] = Made(k)
          PROVE  ModArg(d) = Fresh(k, iter)
      BY <1>1, <1>2, <2>1, <3>1, Returned
    <3>2. ASSUME NEW e \in Carried, loop.outs[d] = Param(e) PROVE ModArg(d) = inArgs[e]
      BY <1>1, <1>2, <3>2, Returned
    <3> QED BY <1>1, <1>2, <2>2, <3>1, <3>2, OutputFacts DEF RefArgs
  <2>4. ModArg(0) = Dep(1, 0) \/ \E i \in 0..iter : ModArg(0) = Fresh(0, i)
    BY <1>1, <1>2, <2>1, <2>2, OutputFacts, Returned DEF HandedOn
  <2> QED BY <1>1, <1>2, <1>3, <2>2, <2>3, <2>4 DEF RefArgs
<1>9. GpuArgs'
  <2> SUFFICES ASSUME loop.target = "gpu" PROVE GpuArgs'
    BY <1>1 DEF GpuArgs
  <2>1. \A d \in Positions : outArgs'[d] = Dep((iter + 1) % 2, d)
    BY <1>3 DEF CarryDep
  <2>2. 1 - ((iter + 1) % 2) = iter % 2 /\ iter % 2 \in {0, 1} /\ iter \in 0..iter
        /\ 0..(iter - 1) \subseteq 0..iter /\ 0..((iter + 1) - 1) = 0..iter /\ iter + 1 > 0
    BY <1>1, Parity
  <2>3. ASSUME NEW d \in Carried, NEW k \in Outputs \ {0}, loop.outs[d] = Made(k), loop.outs[k] = Made(k)
        PROVE  \/ k \in Carried /\ ModArg(d) = Dep(iter % 2, k)
               \/ \E s \in Scans : ModArg(d) = RowOf(s, Row(loop, s, iter))
    <3>1. ModArg(d) = Destination(k)
      BY <1>1, <1>2, <2>3, Returned
    <3>2. k <= DepNum \/ k > DepNum
      BY LoopSizeAssumption DEF Outputs
    <3> QED BY <1>1, <2>3, <3>1, <3>2, Destinations DEF Positions
  <2>4. ASSUME NEW d \in Carried, NEW e \in Carried, loop.outs[d] = Param(e)
        PROVE  \/ ModArg(d) \in {Arg(f) : f \in Carried}
               \/ \E s \in Scans : \E j \in 0..(iter - 1) : ModArg(d) = RowOf(s, Row(loop, s, j))
               \/ /\ iter > 0 /\ ~ KeepsValues(loop)
                  /\ \E n \in {0, 1} : \E k \in Carried : ModArg(d) = Dep(n, k)
    <3>1. ModArg(d) = inArgs[e] /\ GpuArg(e)
      BY <1>1, <1>2, <2>4, Returned DEF GpuArgs
    <3>2. CASE iter > 0 /\ \E k \in Carried : loop.outs[e] = Made(k) /\ inArgs[e] = Dep(1 - (iter % 2), k)
      <4>1. ~ KeepsValues(loop)
        BY <2>4, <3>2 DEF KeepsValues
      <4>2. 1 - (iter % 2) \in {0, 1}
        BY <2>2
      <4> QED BY <3>1, <3>2, <4>1, <4>2
    <3>3. CASE iter > 1 /\ ~ KeepsValues(loop) /\ \E n \in {0, 1} : \E k \in Carried : inArgs[e] = Dep(n, k)
      <4>1. iter > 0
        BY <1>1, <3>3
      <4> QED BY <3>1, <3>3, <4>1
    <3> QED BY <3>1, <3>2, <3>3 DEF GpuArg
  <2>5. ASSUME NEW d \in Carried PROVE GpuArg(d)'
    <3>1. inArgs'[d] = ModArg(d) /\ iter' = iter + 1 /\ loop' = loop
      BY <1>1, <1>2, <1>3
    <3>2. /\ \A s, j : RowOf(s, Row(loop, s, j))' = RowOf(s, Row(loop, s, j))
          /\ KeepsValues(loop)' <=> KeepsValues(loop)
      BY <1>1 DEF RowOf, Row, IterNum, KeepsValues
    <3>3. CASE \E k \in Outputs \ {0} : loop.outs[d] = Made(k) /\ loop.outs[k] = Made(k)
      <4>1. PICK k \in Outputs \ {0} : loop.outs[d] = Made(k) /\ loop.outs[k] = Made(k)
        BY <3>3
      <4>2. CASE k \in Carried /\ ModArg(d) = Dep(iter % 2, k)
        BY <1>1, <2>2, <3>1, <4>1, <4>2 DEF GpuArg
      <4>3. CASE \E s \in Scans : ModArg(d) = RowOf(s, Row(loop, s, iter))
        <5>1. \E s \in Scans : \E j \in 0..iter : inArgs'[d] = RowOf(s, Row(loop, s, j))'
          BY <2>2, <3>1, <3>2, <4>3
        <5> QED BY <2>2, <3>1, <5>1 DEF GpuArg
      <4> QED BY <2>3, <4>1, <4>2, <4>3
    <3>4. CASE \E e \in Carried : loop.outs[d] = Param(e)
      <4>1. CASE ModArg(d) \in {Arg(f) : f \in Carried}
        BY <3>1, <4>1 DEF GpuArg
      <4>2. CASE \E s \in Scans : \E j \in 0..(iter - 1) : ModArg(d) = RowOf(s, Row(loop, s, j))
        <5>1. \E s \in Scans : \E j \in 0..iter : inArgs'[d] = RowOf(s, Row(loop, s, j))'
          BY <2>2, <3>1, <3>2, <4>2
        <5> QED BY <2>2, <3>1, <5>1 DEF GpuArg
      <4>3. CASE /\ iter > 0 /\ ~ KeepsValues(loop)
                 /\ \E n \in {0, 1} : \E k \in Carried : ModArg(d) = Dep(n, k)
        <5>1. iter + 1 > 1
          BY <1>1, <4>3
        <5> QED BY <3>1, <3>2, <4>3, <5>1 DEF GpuArg
      <4> QED BY <2>4, <3>4, <4>1, <4>2, <4>3
    <3> QED BY <1>1, <1>2, <3>3, <3>4, OutputFacts
  <2>6. ModArg(0) \in {Dep(0, 0), Dep(1, 0)}
    <3>1. CASE loop.outs[0] = Param(0)
      BY <1>1, <1>2, <3>1, Returned DEF HandedOn
    <3>2. CASE loop.outs[0] = Made(0)
      <4>1. 0 <= DepNum
        BY LoopSizeAssumption
      <4>2. ModArg(0) = Destination(0)
        BY <1>1, <1>2, <3>2, Returned
      <4>3. Destination(0) = Dep(iter % 2, 0)
        BY <1>1, <1>2, <3>2, <4>1, Destinations
      <4> QED BY <2>2, <4>2, <4>3
    <3> QED BY <1>1, <1>2, <3>1, <3>2, OutputFacts
  <2> QED BY <1>1, <1>2, <1>3, <2>1, <2>5, <2>6 DEF GpuArgs
<1>10. HandedOn'
  BY <1>1, <1>2, <1>3, Returned DEF HandedOn
<1> QED BY <1>1, <1>6, <1>7, <1>8, <1>9, <1>10 DEF MadeInv

LEMMA RunInductive == RunInv /\ [Next]_vars => RunInv'
<1> SUFFICES ASSUME RunInv, [Next]_vars PROVE RunInv'
  OBVIOUS
<1>1. CASE Test
  BY <1>1, TestKeeps
<1>2. CASE \E k \in Outputs : Make(k)
  BY <1>2, MakeKeeps
<1>3. CASE EndIteration
  BY <1>3, EndKeeps
<1>4. CASE Finish
  BY <1>4, FinishKeeps
<1>5. CASE UNCHANGED vars
  <2>1. /\ loop' = loop /\ pc' = pc /\ iter' = iter /\ cond' = cond /\ inArgs' = inArgs
        /\ outArgs' = outArgs /\ todo' = todo /\ mem' = mem
    BY <1>5 DEF vars
  <2>2. LoopInv' /\ CondInv'
    BY <2>1, DestinationsStay DEF RunInv, LoopInv, CondInv, IterNum, Positions
  <2>3. RefArgs' /\ GpuArgs' /\ HandedOn'
    BY <2>1, ArgsStay DEF RunInv
  <2>4. MadeInv'
    BY <2>1, DestinationsStay DEF RunInv, MadeInv, Result
  <2> QED BY <2>2, <2>3, <2>4 DEF RunInv
<1> QED BY <1>1, <1>2, <1>3, <1>4, <1>5 DEF Next

THEOREM BuffersInv == Spec => []RunInv
<1> QED BY StartsRunning, RunInductive, PTL DEF Spec

(***************************************************************************)
(* No body writes over an argument of its loop, and none writes where its  *)
(* iteration reads if it runs on ref, hands no value of the two sets on or *)
(* ends after two iterations.                                              *)
(***************************************************************************)
THEOREM WritesStayApart == Spec => []WritesApart
<1>1. RunInv => WritesApart
  <2> SUFFICES ASSUME RunInv, NEW k \in todo, NEW d \in Carried
               PROVE  Destination(k) # Arg(d) /\ (TwoSetsDo(loop) => Destination(k) # inArgs[d])
    BY DEF WritesApart
  <2>1. pc = "body" /\ k \in Outputs /\ loop.outs[k] = Made(k)
    BY DEF RunInv, LoopInv
  <2> QED BY <2>1, DestinationsApart DEF RunInv
<1> QED BY <1>1, BuffersInv, PTL

-----------------------------------------------------------------------------
(* The definitions of LoopBody are those of Loop. *)
LEMMA SameBody ==
  ASSUME NEW l, NEW k, NEW i, NEW in, NEW s, NEW d
  PROVE  /\ Iteration!Result(l, k, i, in) = Result(l, k, i, in)
         /\ Iteration!Row(l, s, i) = Row(l, s, i)
         /\ Iteration!IterNum(l) = IterNum(l)
         /\ Iteration!MaxIterations(l) = MaxIterations(l)
         /\ Iteration!Param(d) = Param(d) /\ Iteration!Initial(d) = Initial(d)
         /\ Iteration!Carried = Carried /\ Iteration!Scans = Scans /\ Iteration!Zero = Zero
<1>1. Iteration!IterNum(l) = IterNum(l) /\ Iteration!Result(l, k, i, in) = Result(l, k, i, in)
  BY DEF Iteration!IterNum, IterNum, Iteration!Result, Result
<1>2. Iteration!Row(l, s, i) = Row(l, s, i)
  BY <1>1 DEF Iteration!Row, Row
<1>3. Iteration!MaxIterations(l) = MaxIterations(l)
  BY Zenon DEF Iteration!MaxIterations, MaxIterations, Iteration!Least, Least
<1>4. /\ Iteration!Param(d) = Param(d) /\ Iteration!Initial(d) = Initial(d)
      /\ Iteration!Carried = Carried /\ Iteration!Scans = Scans /\ Iteration!Zero = Zero
  BY DEF Iteration!Param, Param, Iteration!Initial, Initial, Iteration!Carried, Carried,
         Iteration!Scans, Scans, Iteration!Zero, Zero
<1> QED BY <1>1, <1>2, <1>3, <1>4

Values == [d \in Carried |-> mem[inArgs[d]]]

IsGiven(s, i) == \E j \in 0..(iter - 1) : Row(loop, s, j) = i

LEMMA RowsMeaning ==
  GivenRows = [s \in Scans |-> [i \in RowNums |->
                 IF pc = "done" \/ IsGiven(s, i) THEN mem[RowOf(s, i)] ELSE Zero]]
  BY DEF GivenRows, RowNums, IsGiven

LEMMA LoopStarts == Init => Iteration!Init
<1> SUFFICES ASSUME Init PROVE Iteration!Init
  OBVIOUS
<1>1. loop \in Loops /\ iter = 0 /\ cond = loop.start /\ pc = "test"
  BY DEF Init
<1>2. [d \in Carried |-> mem[inArgs[d]]] = [d \in Carried |-> Initial(d)]
  <2>1. ASSUME NEW d \in Carried PROVE mem[inArgs[d]] = Initial(d)
    <3>1. d # 0 /\ Arg(d) \in Buffers
      BY LoopSizeAssumption DEF Carried, Buffers
    <3>2. inArgs[d] = Arg(d)
      BY <3>1 DEF Init
    <3>3. mem[Arg(d)] = Initial(d)
      BY <3>1, NameParts DEF Init
    <3> QED BY <3>2, <3>3
  <2> QED BY <2>1
<1>3. GivenRows = [s \in Scans |-> [i \in RowNums |-> Zero]]
  <2>1. ASSUME NEW s \in Scans, NEW i \in RowNums PROVE ~ IsGiven(s, i)
    BY <1>1 DEF IsGiven
  <2> QED BY <1>1, <2>1, RowsMeaning
<1> QED BY <1>1, <1>2, <1>3, SameBody DEF Iteration!Init, RowNums

(* The rows given stay where another iteration runs. *)
LEMMA RowsStay ==
  ASSUME loop' = loop, iter' = iter, pc # "done", pc' # "done",
         \A s \in Scans : \A i \in RowNums :
           IsGiven(s, i) => mem'[RowOf(s, i)] = mem[RowOf(s, i)]
  PROVE  GivenRows' = GivenRows
<1>1. RowNums' = RowNums
  BY BuffersStay DEF RowNums
<1>2. ASSUME NEW s, NEW i PROVE IsGiven(s, i)' = IsGiven(s, i)
  BY DEF IsGiven, Row, IterNum
<1>3. GivenRows' = [s \in Scans |-> [i \in RowNums' |->
                     IF pc' = "done" \/ IsGiven(s, i)' THEN mem'[RowOf(s, i)] ELSE Zero]]
  BY DEF GivenRows, RowNums, IsGiven
<1> QED BY <1>1, <1>2, <1>3, RowsMeaning

LEMMA TestStutters ==
  ASSUME RunInv, Test
  PROVE  UNCHANGED <<loop, iter, cond, Values, GivenRows, pc = "done">>
<1>1. loop' = loop /\ iter' = iter /\ cond' = cond /\ pc = "test" /\ pc' = "body"
  BY DEF Test
<1>2. Values' = Values
  BY TestKeeps DEF Values
<1>3. GivenRows' = GivenRows
  <2>1. ASSUME NEW s \in Scans, NEW i \in RowNums PROVE mem'[RowOf(s, i)] = mem[RowOf(s, i)]
    <3>1. RowOf(s, i) \in Buffers
      BY DEF Buffers, RowNums
    <3>2. RowOf(s, i) # IterArg /\ RowOf(s, i) # inArgs[0]
      BY KindsDiffer, InputsApart DEF RunInv
    <3> QED BY <3>1, <3>2, TestKeeps
  <2> QED BY <1>1, <2>1, RowsStay
<1> QED BY <1>1, <1>2, <1>3

LEMMA MakeStutters ==
  ASSUME RunInv, TwoSetsDo(loop), NEW k \in Outputs, Make(k)
  PROVE  UNCHANGED <<loop, iter, cond, Values, GivenRows, pc = "done">>
<1>1. loop' = loop /\ iter' = iter /\ cond' = cond /\ pc = "body" /\ pc' = "body"
  BY DEF Make
<1>2. Values' = Values
  BY MakeKeeps DEF Values
<1>3. GivenRows' = GivenRows
  <2>1. loop.outs[k] = Made(k)
    BY DEF Make, RunInv, LoopInv
  <2>2. ASSUME NEW s \in Scans, NEW i \in RowNums, IsGiven(s, i)
        PROVE  mem'[RowOf(s, i)] = mem[RowOf(s, i)]
    <3>1. RowOf(s, i) \in Buffers
      BY DEF Buffers, RowNums
    <3>2. Destination(k) # RowOf(s, i)
      BY <1>1, <2>1, <2>2, DestinationsApart DEF RunInv, IsGiven
    <3> QED BY <3>1, <3>2, MakeKeeps
  <2> QED BY <1>1, <2>2, RowsStay
<1> QED BY <1>1, <1>2, <1>3

(* What is returned are the values the loop promises. *)
LEMMA OutputValue ==
  ASSUME RunInv, TwoSetsDo(loop), pc = "body", todo = {}, NEW o \in Outputs
  PROVE  mem[ModArg(o)] = Iteration!Output(o)
<1>1. loop \in Loops /\ 0 \notin Carried
  BY LoopSizeAssumption DEF RunInv, LoopInv, Carried
<1>2. Iteration!Output(o) = LET out == loop.outs[o]
                            IN IF out = Param(0) THEN cond
                               ELSE IF out[1] = "param" THEN Values[out[2]]
                               ELSE Result(loop, out[2], iter, Values)
  BY SameBody DEF Iteration!Output, Values
<1>3. CASE loop.outs[o] = Param(0)
  BY <1>1, <1>2, <1>3, NamesDiffer, OutputFacts, ReturnedValues
<1>4. CASE \E d \in Carried : loop.outs[o] = Param(d)
  <2>1. PICK d \in Carried : loop.outs[o] = Param(d)
    BY <1>4
  <2>2. Param(d) # Param(0) /\ Param(d)[1] = "param" /\ Param(d)[2] = d
    BY <1>1, NamesDiffer, NameParts
  <2>3. mem[ModArg(o)] = Values[d]
    BY <2>1, ReturnedValues DEF Values
  <2> QED BY <1>2, <2>1, <2>2, <2>3
<1>5. CASE \E k \in Outputs : loop.outs[o] = Made(k) /\ loop.outs[k] = Made(k)
  <2>1. PICK k \in Outputs : loop.outs[o] = Made(k) /\ loop.outs[k] = Made(k)
    BY <1>5
  <2>2. Made(k) # Param(0) /\ Made(k)[1] # "param" /\ Made(k)[2] = k
    BY NamesDiffer, NameParts
  <2>3. mem[ModArg(o)] = Result(loop, k, iter, Values)
    BY <2>1, ReturnedValues DEF Values
  <2> QED BY <1>2, <2>1, <2>2, <2>3
<1> QED BY <1>1, <1>3, <1>4, <1>5, OutputFacts

LEMMA EndIterates ==
  ASSUME RunInv, TwoSetsDo(loop), RowsAreMade(loop), EndIteration
  PROVE  Iteration!Iterate
<1>1. /\ pc = "body" /\ todo = {} /\ pc' = "test" /\ loop' = loop /\ iter' = iter + 1
      /\ cond' = mem[ModArg(0)] /\ mem' = Appended /\ iter \in Nat /\ loop \in Loops
      /\ inArgs' = [d \in {0} \cup Carried |-> ModArg(d)]
  BY DEF EndIteration, RunInv, LoopInv
<1>2. iter < IterNum(loop) /\ cond
  BY <1>1 DEF RunInv, CondInv
<1>3. cond' = Iteration!Output(0)
  BY <1>1, LoopFacts, OutputValue
<1>4. [d \in Carried |-> mem[inArgs[d]]]' = [d \in Carried |-> Iteration!Output(d)]
  <2>1. ASSUME NEW d \in Carried PROVE mem'[inArgs'[d]] = Iteration!Output(d)
    <3>1. d \in Outputs /\ inArgs'[d] = ModArg(d) /\ ModArg(d) \in Buffers
      BY <1>1, LoopFacts, Returned
    <3>2. \A s \in Scans : ModArg(d) = RowOf(s, Row(loop, s, iter)) =>
            Appended[ModArg(d)] = mem[ModArg(d)]
      <4> SUFFICES ASSUME NEW s \in Scans, ModArg(d) = RowOf(s, Row(loop, s, iter))
                   PROVE  Appended[ModArg(d)] = mem[ModArg(d)]
        OBVIOUS
      <4>1. CASE loop.target = "gpu"
        BY <1>1, <4>1 DEF Appended
      <4>2. CASE loop.target = "ref"
        <5>1. \A k \in Outputs : loop.outs[k] = Made(k) => Destination(k) = Fresh(k, iter)
          BY <1>1, <4>2, Destinations DEF RunInv
        <5>2. \A e \in Carried : (\E f : inArgs[e] = Arg(f)) \/ (\E k, i : inArgs[e] = Fresh(k, i))
          BY <4>2 DEF RunInv, RefArgs
        <5>3. (\E f : ModArg(d) = Arg(f)) \/ (\E k, i : ModArg(d) = Fresh(k, i))
          <6>1. d # 0
            BY LoopSizeAssumption DEF Carried
          <6>2. ASSUME NEW k \in Outputs, loop.outs[d] = Made(k), loop.outs[k] = Made(k)
                PROVE  ModArg(d) = Fresh(k, iter)
            BY <1>1, <3>1, <5>1, <6>2, Returned
          <6>3. ASSUME NEW e \in Carried, loop.outs[d] = Param(e)
                PROVE  ModArg(d) = inArgs[e]
            BY <1>1, <3>1, <6>3, Returned DEF Positions
          <6> QED BY <1>1, <3>1, <5>2, <6>1, <6>2, <6>3, OutputFacts
        <5> QED BY <5>3, KindsDiffer
      <4> QED BY <1>1, <4>1, <4>2, LoopFacts
    <3>3. mem'[ModArg(d)] = mem[ModArg(d)]
      BY <1>1, <3>1, <3>2, AppendedFacts
    <3> QED BY <1>1, <3>1, <3>3, OutputValue
  <2> QED BY <2>1
<1>5. GivenRows' = [s \in Scans |->
                      [GivenRows[s] EXCEPT ![Row(loop, s, iter)] = Iteration!Output(DepNum + s)]]
  <2>1. RowNums' = RowNums /\ \A s, i : RowOf(s, i)' = RowOf(s, i)
    BY <1>1, BuffersStay DEF RowNums, RowOf
  <2>2. GivenRows' = [s \in Scans |-> [i \in RowNums |->
                        IF IsGiven(s, i)' THEN mem'[RowOf(s, i)] ELSE Zero]]
    BY <1>1, <2>1 DEF GivenRows, RowNums, IsGiven
  <2>3. GivenRows = [s \in Scans |-> [i \in RowNums |->
                       IF IsGiven(s, i) THEN mem[RowOf(s, i)] ELSE Zero]]
    BY <1>1, RowsMeaning
  <2>4. ASSUME NEW s \in Scans, NEW i \in RowNums
        PROVE  /\ i = Row(loop, s, iter) =>
                    IsGiven(s, i)' /\ mem'[RowOf(s, i)] = Iteration!Output(DepNum + s)
               /\ i # Row(loop, s, iter) =>
                    (IsGiven(s, i)' <=> IsGiven(s, i)) /\ mem'[RowOf(s, i)] = mem[RowOf(s, i)]
    <3>1. Row(loop, s, i)' = Row(loop, s, i) /\ \A j : Row(loop, s, j)' = Row(loop, s, j)
      BY <1>1 DEF Row, IterNum
    <3>2. IsGiven(s, i)' <=> \E j \in 0..iter : Row(loop, s, j) = i
      BY <1>1, <3>1 DEF IsGiven
    <3>3. IsGiven(s, i)' <=> IsGiven(s, i) \/ Row(loop, s, iter) = i
      BY <1>1, <3>2 DEF IsGiven
    <3>4. RowOf(s, i) \in Buffers /\ DepNum + s \in Outputs
      BY LoopSizeAssumption DEF Buffers, RowNums, Scans, Outputs
    <3>5. i # Row(loop, s, iter) => mem'[RowOf(s, i)] = mem[RowOf(s, i)]
      BY <1>1, <3>4, NamesDiffer, AppendedFacts
    <3>6. i = Row(loop, s, iter) => mem'[RowOf(s, i)] = Iteration!Output(DepNum + s)
      BY <1>1, <3>4, AppendedFacts, OutputValue
    <3> QED BY <3>3, <3>5, <3>6
  <2>5. ASSUME NEW s \in Scans
        PROVE  GivenRows'[s] = [GivenRows[s] EXCEPT ![Row(loop, s, iter)] = Iteration!Output(DepNum + s)]
    <3> HIDE DEF RowNums, IsGiven
    <3>1. GivenRows'[s] = [i \in RowNums |-> IF IsGiven(s, i)' THEN mem'[RowOf(s, i)] ELSE Zero]
      BY <2>2
    <3>2. GivenRows[s] = [i \in RowNums |-> IF IsGiven(s, i) THEN mem[RowOf(s, i)] ELSE Zero]
      BY <2>3
    <3> QED BY <2>4, <3>1, <3>2
  <2> QED BY <2>2, <2>5
<1>6. (pc = "done")' = (pc = "done")
  BY <1>1
<1>7. /\ Iteration!Carried = Carried /\ Iteration!Scans = Scans
      /\ Iteration!IterNum(loop) = IterNum(loop)
      /\ \A s : Iteration!Row(loop, s, iter) = Row(loop, s, iter)
  BY SameBody
<1>8. Iteration!GoesOn
  BY <1>2, <1>7 DEF Iteration!GoesOn
<1>9. GivenRows' = [s \in Iteration!Scans |->
        [GivenRows[s] EXCEPT ![Iteration!Row(loop, s, iter)] = Iteration!Output(DepNum + s)]]
  BY <1>5, <1>7
<1>10. [d \in Carried |-> mem[inArgs[d]]]' = [d \in Iteration!Carried |-> Iteration!Output(d)]
  BY <1>4, <1>7
<1> QED BY <1>1, <1>3, <1>6, <1>8, <1>9, <1>10 DEF Iteration!Iterate

LEMMA FinishEnds ==
  ASSUME RunInv, Finish
  PROVE  Iteration!End
<1>1. /\ pc = "test" /\ ~ (iter < IterNum(loop) /\ cond) /\ pc' = "done"
      /\ loop' = loop /\ iter' = iter /\ cond' = cond /\ inArgs' = inArgs
      /\ mem' = [b \in Buffers |-> IF \E s \in Scans, i \in ZeroFrom(iter) : b = RowOf(s, i)
                                     THEN Zero ELSE mem[b]]
      /\ iter \in Nat /\ iter <= IterNum(loop) /\ loop \in Loops /\ loop.target \in {"ref", "gpu"}
  BY LoopFacts DEF Finish, RunInv, LoopInv
<1>2. ASSUME NEW s \in Scans, NEW i \in RowNums
      PROVE  IsGiven(s, i) <=> i \notin ZeroFrom(iter)
  <2>1. CASE loop.dir[s] = 0
    BY <1>1, <2>1 DEF IsGiven, Row, RowNums, ZeroFrom
  <2>2. CASE loop.dir[s] = 1
    <3>1. iter = IterNum(loop) /\ IterNum(loop) = MaxIterations(loop)
      <4>1. loop.start /\ loop.outs[0] = Param(0) /\ IterNum(loop) = MaxIterations(loop)
            /\ IterNum(loop) \in Nat
        BY <1>1, <2>2, LoopFacts
      <4>2. cond
        BY <4>1 DEF RunInv, CondInv
      <4> QED BY <1>1, <4>1, <4>2
    <3>2. iter - 1 - i \in 0..(iter - 1) /\ Row(loop, s, iter - 1 - i) = i
      BY <1>1, <2>2, <3>1 DEF Row, RowNums
    <3>3. i \notin ZeroFrom(iter)
      BY <1>1, <3>1 DEF ZeroFrom, RowNums
    <3> QED BY <3>2, <3>3 DEF IsGiven
  <2> QED BY <1>1, <2>1, <2>2, LoopFacts
<1>3. ASSUME NEW d \in Carried PROVE mem'[inArgs'[d]] = mem[inArgs[d]]
  <2>1. inArgs[d] \in Buffers
    BY DEF RunInv, LoopInv, Positions
  <2>2. \A s \in Scans : \A i \in ZeroFrom(iter) : inArgs[d] # RowOf(s, i)
    <3>1. CASE loop.target = "ref"
      <4>1. (\E e : inArgs[d] = Arg(e)) \/ \E k, i : inArgs[d] = Fresh(k, i)
        BY <3>1 DEF RunInv, RefArgs
      <4> QED BY <4>1, KindsDiffer
    <3>2. CASE loop.target = "gpu"
      <4>1. \/ \E e : inArgs[d] = Arg(e)
            \/ \E n, k : inArgs[d] = Dep(n, k)
            \/ \E s \in Scans : \E j \in 0..(iter - 1) : inArgs[d] = RowOf(s, Row(loop, s, j))
        BY <3>2 DEF RunInv, GpuArgs, GpuArg
      <4>2. ASSUME NEW s \in Scans, NEW t \in Scans, NEW i \in ZeroFrom(iter), NEW j \in 0..(iter - 1)
            PROVE  RowOf(s, Row(loop, s, j)) # RowOf(t, i)
        <5> SUFFICES ASSUME s = t, Row(loop, s, j) = i PROVE FALSE
          BY NamesDiffer
        <5>1. i \in RowNums
          BY <1>1, <4>2 DEF ZeroFrom, RowNums
        <5>2. IsGiven(s, i)
          BY <1>1, <4>2 DEF IsGiven
        <5> QED BY <1>2, <5>1, <5>2
      <4> QED BY <4>1, <4>2, KindsDiffer
    <3> QED BY <1>1, <3>1, <3>2
  <2> QED BY <1>1, <2>1, <2>2
<1>4. GivenRows' = GivenRows
  <2>1. RowNums' = RowNums
    BY <1>1, BuffersStay DEF RowNums
  <2>2. GivenRows' = [s \in Scans |-> [i \in RowNums |-> mem'[RowOf(s, i)]]]
    BY <1>1, <2>1 DEF GivenRows, RowNums
  <2>3. GivenRows = [s \in Scans |-> [i \in RowNums |->
                       IF IsGiven(s, i) THEN mem[RowOf(s, i)] ELSE Zero]]
    BY <1>1, RowsMeaning
  <2>4. ASSUME NEW s \in Scans, NEW i \in RowNums
        PROVE  mem'[RowOf(s, i)] = IF IsGiven(s, i) THEN mem[RowOf(s, i)] ELSE Zero
    <3>1. RowOf(s, i) \in Buffers
      BY DEF Buffers, RowNums
    <3>2. (\E t \in Scans, j \in ZeroFrom(iter) : RowOf(s, i) = RowOf(t, j)) <=> i \in ZeroFrom(iter)
      BY NamesDiffer
    <3> QED BY <1>1, <1>2, <3>1, <3>2
  <2> QED BY <2>2, <2>3, <2>4
<1>5. [d \in Carried |-> mem[inArgs[d]]]' = [d \in Carried |-> mem[inArgs[d]]]
  BY <1>3
<1> QED BY <1>1, <1>4, <1>5, SameBody DEF Iteration!End, Iteration!GoesOn

(***************************************************************************)
(* run_loop implements the loop operator, as far as it gets: on ref for    *)
(* every body, on the gpu for every body that gives its scan outputs       *)
(* results of their own and hands no value of the two sets on, or ends     *)
(* after two iterations.                                                   *)
(***************************************************************************)
THEOREM RunsTheLoop == Spec => ImplementsLoop
<1>1. RunInv /\ [Next]_vars
        => [TwoSetsDo(loop) /\ RowsAreMade(loop) => Iteration!Next]_Iteration!loopVars
  <2> SUFFICES ASSUME RunInv, [Next]_vars, TwoSetsDo(loop), RowsAreMade(loop)
               PROVE  [Iteration!Next]_Iteration!loopVars
    OBVIOUS
  <2>1. CASE Test
    BY <2>1, TestStutters DEF Iteration!loopVars, Values
  <2>2. CASE \E k \in Outputs : Make(k)
    BY <2>2, MakeStutters DEF Iteration!loopVars, Values
  <2>3. CASE EndIteration
    BY <2>3, EndIterates DEF Iteration!Next
  <2>4. CASE Finish
    BY <2>4, FinishEnds DEF Iteration!Next
  <2>5. CASE UNCHANGED vars
    BY <2>5 DEF vars, Iteration!loopVars, GivenRows, Row, IterNum, MaxIterations
  <2> QED BY <2>1, <2>2, <2>3, <2>4, <2>5 DEF Next
<1> QED BY <1>1, LoopStarts, BuffersInv, PTL DEF Spec, ImplementsLoop
=============================================================================

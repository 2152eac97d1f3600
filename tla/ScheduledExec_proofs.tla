------------------------ MODULE ScheduledExec_proofs ------------------------
(***************************************************************************)
(* Race freedom of scheduled evaluation, for modules of any size, any      *)
(* number of streams and any assignment of instructions to streams.        *)
(***************************************************************************)
EXTENDS ScheduledExecInv, TLAPS, WellFoundedInduction

-----------------------------------------------------------------------------
(* What a plan gives the proofs, with IsPlan kept closed afterwards. *)
LEMMA PlanFacts ==
  ASSUME IsPlan(plan)
  PROVE  /\ inputs \in [Ins -> SUBSET Ins]
         /\ deps \in [Ins -> SUBSET Ins]
         /\ reads \in [Ins -> SUBSET Ins]
         /\ kernel \in [Ins -> BOOLEAN]
         /\ stream \in [Ins -> Streams \cup {NoStream}]
         /\ \A i \in Ins : deps[i] \subseteq 1..(i - 1)
         /\ \A i \in Ins : reads[i] \subseteq 1..(i - 1)
         /\ \A i \in Ins : \A j \in deps[i] : HasStream(j)
         /\ \A i \in Ins : HasStream(i) => kernel[i]
         /\ stream[N] = 0
         /\ \A i \in Ins : kernel[i] /\ i # N => \E k \in Ins : kernel[k] /\ i \in reads[k]
  BY DEF IsPlan, inputs, deps, reads, kernel, stream, HasStream

(* Where the module does not change, nothing read from it does. *)
LEMMA PlanUnchanged ==
  ASSUME UNCHANGED plan
  PROVE  /\ inputs' = inputs /\ deps' = deps /\ reads' = reads
         /\ kernel' = kernel /\ stream' = stream
         /\ IsPlan(plan) => IsPlan(plan)'
         /\ IsFlat(plan) => IsFlat(plan)'
<1>1. /\ inputs' = inputs /\ deps' = deps /\ reads' = reads
      /\ kernel' = kernel /\ stream' = stream
  BY DEF inputs, deps, reads, kernel, stream
<1>2. IsPlan(plan) => IsPlan(plan)'
  OBVIOUS
<1>3. IsFlat(plan) => IsFlat(plan)'
  BY DEF IsFlat
<1> QED BY <1>1, <1>2, <1>3

-----------------------------------------------------------------------------
(* Every set of instructions that is not empty has a last one. *)
LEMMA LastExists ==
  ASSUME NEW S \in SUBSET Ins, S # {}
  PROVE  \E m \in S : \A k \in S : k <= m
<1> USE SizeAssumption
<1> DEFINE T == {N - k : k \in S}
<1>0. \A k \in S : k \in Nat /\ N - k \in Nat
  BY DEF Ins
<1>1. T \subseteq Nat /\ T # {}
  BY <1>0
<1>2. PICK x \in T : \A y \in T : ~ (y < x)
  <2> DEFINE R == OpToRel(<, Nat)
  <2>1. IsWellFoundedOn(R, Nat)
    BY NatLessThanWellFounded
  <2>2. \E x \in T : \A y \in T : ~ (<<y, x>> \in R)
    <3> HIDE DEF R, T
    <3> QED BY <1>1, <2>1, WFMin
  <2>3. \A x, y \in Nat : y < x => <<y, x>> \in R
    BY DEF OpToRel
  <2> HIDE DEF R, T
  <2> QED BY <1>1, <2>2, <2>3
<1>3. PICK m \in S : x = N - m
  BY <1>2
<1>4. \A k \in S : N - k >= N - m
  <2> SUFFICES ASSUME NEW k \in S PROVE N - k >= N - m
    OBVIOUS
  <2>1. N - k \in T
    OBVIOUS
  <2>2. ~ (N - k < x) /\ x \in Nat
    BY <2>1, <1>1, <1>2
  <2> QED BY <2>2, <1>0, <1>3
<1> QED BY <1>4, <1>0

(* The set_stream in force exists as soon as there is one before i. *)
LEMMA CurrentSetExists ==
  ASSUME NEW i \in 1..(N + 1), SetBefore(i) # {}
  PROVE  \E q \in Ins : CurrentSet(i, q)
<1>1. SetBefore(i) \in SUBSET Ins
  BY SizeAssumption DEF SetBefore, Ins
<1> QED BY <1>1, LastExists DEF CurrentSet

-----------------------------------------------------------------------------
(* The initial state has the right types. *)
LEMMA InitTypeOK == Init => TypeOK
  BY PlanAssumption, SizeAssumption, RunsAssumption
  DEF Init, TypeOK, ModuleInit, PassInit, ExecInit, ModuleTypeOK, PassTypeOK, ExecTypeOK,
      NoEvent, NoStream, Events, Streams, Ins

(* Every step of the pass and of the evaluation keeps the types. *)
LEMMA StepTypeOK == TypeOK /\ [Next]_vars => TypeOK'
<1> SUFFICES ASSUME TypeOK, [Next]_vars PROVE TypeOK'
  OBVIOUS
<1> USE SizeAssumption
<1> DEFINE unchangedPass == UNCHANGED <<moduleVars, passVars>>
<1>0. /\ stream \in [Ins -> Streams \cup {NoStream}]
      /\ IsPlan(plan)
  BY PlanFacts DEF TypeOK, ModuleTypeOK
<1>1. UNCHANGED moduleVars => ModuleTypeOK'
  BY PlanUnchanged DEF TypeOK, ModuleTypeOK, moduleVars, HasStream
<1>2. UNCHANGED <<moduleVars, passVars>> => PassTypeOK'
  BY PlanUnchanged DEF TypeOK, PassTypeOK, moduleVars, passVars, HasStream
<1>3. UNCHANGED execVars => ExecTypeOK'
  BY DEF TypeOK, ExecTypeOK, execVars
<1>4. CASE Compile
  <2>0. ExecTypeOK'
    BY <1>3, <1>4 DEF Compile
  <2>1. CASE NoConcurrency
    <3>1. PassTypeOK'
      BY <2>1 DEF NoConcurrency, TypeOK, PassTypeOK, Ins
    <3> QED BY <2>0, <3>1, <1>1, <2>1 DEF NoConcurrency, TypeOK
  <2>2. CASE Skip
    <3>1. PassTypeOK'
      BY <2>2 DEF Skip, TypeOK, PassTypeOK, Ins
    <3> QED BY <2>0, <3>1, <1>1, <2>2 DEF Skip, TypeOK
  <2>3. CASE Sched
    <3>1. PassTypeOK'
      <4>1. todo' \subseteq Ins
        BY <2>3, PlanFacts DEF Sched, RecordedInstructions, TypeOK, ModuleTypeOK
      <4> QED BY <2>3, <4>1, PlanUnchanged DEF Sched, TypeOK, PassTypeOK, HasStream
    <3>2. ModuleTypeOK'
      <4>1. NeedsSetStream \in BOOLEAN
        BY DEF NeedsSetStream
      <4>2. /\ setStream' \in [Ins -> BOOLEAN]
            /\ \A i \in Ins : setStream'[i] => HasStream(i)
        BY <2>3, <4>1 DEF Sched, TypeOK, ModuleTypeOK
      <4>3. HasStream(at)' = HasStream(at) /\ stream' = stream
        BY <2>3, PlanUnchanged DEF Sched, HasStream
      <4> QED BY <2>3, <4>1, <4>2, <4>3, PlanUnchanged DEF Sched, TypeOK, ModuleTypeOK, HasStream
    <3> QED BY <2>0, <3>1, <3>2 DEF TypeOK
  <2>4. ASSUME NEW j \in Ins, WaitOn(j) PROVE TypeOK'
    <3> DEFINE w == IF record[j] = NoEvent THEN waitId ELSE record[j]
    <3>1. w \in Events
      BY DEF TypeOK, ModuleTypeOK, PassTypeOK, Events
    <3>2. ModuleTypeOK'
      <4>1. record' \in [Ins -> Events \cup {NoEvent}]
        BY <2>4, <3>1 DEF WaitOn, TypeOK, ModuleTypeOK
      <4>2. waits' \in [Ins -> SUBSET Events]
        BY <2>4, <3>1 DEF WaitOn, TypeOK, ModuleTypeOK
      <4> QED BY <2>4, <4>1, <4>2, PlanUnchanged DEF WaitOn, TypeOK, ModuleTypeOK, HasStream
    <3>3. PassTypeOK'
      <4>1. waitedFor' \in [Streams -> SUBSET Events]
        BY <2>4, <3>1 DEF WaitOn, TypeOK, PassTypeOK
      <4>2. waitId' \in Nat /\ todo' \subseteq Ins
        BY <2>4 DEF WaitOn, TypeOK, PassTypeOK
      <4> QED BY <2>4, <4>1, <4>2, PlanUnchanged DEF WaitOn, TypeOK, PassTypeOK, HasStream
    <3> QED BY <2>0, <3>2, <3>3 DEF TypeOK
  <2>5. CASE Leave
    <3>1. at \in Ins /\ stream[at] \in Streams
      BY <2>5, <1>0 DEF Leave, TypeOK, PassTypeOK, HasStream
    <3>2. at' \in 1..(N + 1)
      BY <2>5, <3>1 DEF Leave, Ins
    <3>3. waitedFor[stream[at]] \in SUBSET Events
      BY <3>1 DEF TypeOK, PassTypeOK
    <3>4. ins2waited' \in [Ins -> SUBSET Events] /\ known' \in [Ins -> SUBSET Events]
      BY <2>5, <3>3 DEF Leave, TypeOK, PassTypeOK
    <3>5. PassTypeOK'
      BY <2>5, <3>2, <3>4 DEF Leave, TypeOK, PassTypeOK
    <3> QED BY <2>0, <3>5, <1>1, <2>5 DEF Leave, TypeOK
  <2> QED BY <1>4, <2>1, <2>2, <2>3, <2>4, <2>5 DEF Compile, PassNext
<1>5. CASE Evaluate
  <2>0. ModuleTypeOK' /\ PassTypeOK'
    BY <1>1, <1>2, <1>5 DEF Evaluate
  <2>1. CASE Finalize
    <3>1. ASSUME SetBefore(N + 1) # {}
          PROVE  stream[CHOOSE q \in Ins : CurrentSet(N + 1, q)] \in Streams
      <4>1. PICK q \in Ins : CurrentSet(N + 1, q)
        BY <3>1, CurrentSetExists DEF Ins
      <4>2. \A r \in Ins : CurrentSet(N + 1, r) => stream[r] \in Streams
        BY <1>0 DEF TypeOK, ModuleTypeOK, CurrentSet, SetBefore, HasStream, NoStream
      <4> QED BY <4>1, <4>2
    <3> QED BY <2>0, <2>1, <3>1 DEF Finalize, TypeOK, ExecTypeOK
  <2>2. CASE Begin
    BY <2>0, <2>2, RunsAssumption DEF Begin, TypeOK, ExecTypeOK, Ins
  <2>3. CASE Launch
    <3>1. cur' \in Streams
      BY <2>3, <1>0 DEF Launch, TypeOK, ModuleTypeOK, ExecTypeOK, HasStream
    <3>2. host' \in 1..(N + 1)
      BY <2>3 DEF Launch, Ins
    <3>3. /\ launched' \in [Ins -> Streams \cup {NoStream}]
          /\ hold' \in [Ins -> SUBSET Ins]
          /\ status' \in [Ins -> {"none", "queued", "running", "done"}]
      BY <2>3, <3>1 DEF Launch, TypeOK, ExecTypeOK
    <3> QED BY <2>0, <2>3, <3>1, <3>2, <3>3 DEF Launch, TypeOK, ExecTypeOK
  <2>4. CASE HostOnly
    BY <2>0, <2>4 DEF HostOnly, TypeOK, ExecTypeOK, Ins
  <2>5. CASE Finish
    BY <2>0, <2>5 DEF Finish, TypeOK, ExecTypeOK
  <2>6. ASSUME NEW i \in Ins, Start(i) \/ Complete(i) PROVE TypeOK'
    BY <2>0, <2>6 DEF Start, Complete, TypeOK, ExecTypeOK
  <2> QED BY <1>5, <2>1, <2>2, <2>3, <2>4, <2>5, <2>6 DEF Evaluate, ExecNext, Host
<1>6. CASE UNCHANGED vars
  BY <1>6, <1>1, <1>2, <1>3 DEF vars, TypeOK
<1> QED BY <1>4, <1>5, <1>6 DEF Next

(***************************************************************************)
(* The bookkeeping of the pass and the queues of the evaluation keep their *)
(* types; a set_stream stands only before an instruction that has a        *)
(* stream.                                                                 *)
(***************************************************************************)
THEOREM TypeCorrect == Spec => []TypeOK
<1>1. Init => TypeOK
  BY InitTypeOK
<1>2. TypeOK /\ [Next]_vars => TypeOK'
  BY StepTypeOK
<1> QED BY <1>1, <1>2, PTL DEF Spec

-----------------------------------------------------------------------------
(***************************************************************************)
(* The insertion loop.  PassInv speaks of the plan, of the inserted        *)
(* instructions and of the loop's state only.                              *)
(***************************************************************************)
LEMMA PlanDerived ==
  ASSUME UNCHANGED plan
  PROVE  /\ Concurrent' = Concurrent
         /\ \A i \in Ins : HasStream(i)' = HasStream(i)
         /\ \A i \in Ins : OtherStream(i)' = OtherStream(i)
         /\ \A i \in 1..(N + 1) : \A s \in Streams : Earlier(i, s)' = Earlier(i, s)
  BY PlanUnchanged DEF Concurrent, HasStream, OtherStream, RecordedInstructions, Earlier

(* The invariant of the insertion loop holds before its first turn. *)
LEMMA PassInvInit == Init => PassInv
<1> SUFFICES ASSUME Init PROVE PassInv
  OBVIOUS
<1> USE SizeAssumption DEF Init, ModuleInit, PassInit
<1>1. EventsInv
  BY DEF EventsInv, NoEvent, Ins
<1>2. LoopInv
  BY DEF LoopInv
<1>3. WaitsInv /\ CoverInv
  BY DEF WaitsInv, CoverInv, Ins
<1>4. KnownInv
  BY DEF KnownInv, Fired, Ins
<1>5. SetStreamInv
  BY DEF SetStreamInv, Entered, Ins
<1> QED BY <1>1, <1>2, <1>3, <1>4, <1>5 DEF PassInv

(* It reads nothing but the module and the state of the loop. *)
LEMMA PassInvUnchanged == PassInv /\ UNCHANGED <<moduleVars, passVars>> => PassInv'
<1> SUFFICES ASSUME PassInv, UNCHANGED <<moduleVars, passVars>> PROVE PassInv'
  OBVIOUS
<1> USE DEF PassInv, moduleVars, passVars
<1>0. UNCHANGED plan
  OBVIOUS
<1>1. stream' = stream /\ deps' = deps
  BY <1>0, PlanUnchanged
<1>2. EventsInv' /\ WaitsInv'
  BY DEF EventsInv, WaitsInv
<1>3. LoopInv' /\ CoverInv'
  BY <1>1 DEF LoopInv, CoverInv, Entered, OtherStream, RecordedInstructions, HasStream
<1>4. KnownInv'
  BY <1>1 DEF KnownInv, Fired, Closed, Earlier, HasStream
<1>5. SetStreamInv'
  BY <1>1 DEF SetStreamInv, Concurrent, Entered, CurrentSet, SetBefore, HasStream
<1> QED BY <1>2, <1>3, <1>4, <1>5

(* Not entering the loop keeps it: nothing was inserted. *)
LEMMA NoConcurrencyStep == TypeOK /\ PassInv /\ NoConcurrency => PassInv'
<1> SUFFICES ASSUME TypeOK, PassInv, NoConcurrency PROVE PassInv'
  OBVIOUS
<1> USE SizeAssumption DEF PassInv, NoConcurrency, moduleVars
<1>0. /\ UNCHANGED plan
      /\ stream' = stream /\ deps' = deps
      /\ \A i \in Ins : \A j \in OtherStream(i) : HasStream(j) /\ j \in Ins
  BY PlanUnchanged, PlanFacts DEF TypeOK, ModuleTypeOK, OtherStream, RecordedInstructions
<1>1. EventsInv' /\ WaitsInv'
  BY DEF EventsInv, WaitsInv
<1>2. LoopInv'
  BY DEF LoopInv, Entered, Ins
<1>3. CoverInv'
  <2>1. \A i \in Ins : HasStream(i) => OtherStream(i) = {}
    BY <1>0 DEF Concurrent, OtherStream
  <2> QED BY <1>0, <2>1, PlanDerived DEF CoverInv
<1>4. KnownInv'
  <2>1. \A i \in Ins : known[i] = {}
    BY DEF LoopInv, Ins
  <2>2. \A s \in Streams : \A D \in SUBSET Ins : Closed(D) => Fired(D, waitedFor[s])
    BY DEF KnownInv, Earlier
  <2> QED BY <2>1, <2>2 DEF KnownInv, Fired, Closed
<1>5. SetStreamInv'
  BY <1>0, PlanDerived DEF SetStreamInv, LoopInv, Entered, Ins
<1> QED BY <1>1, <1>2, <1>3, <1>4, <1>5

(* So does passing an instruction without a stream. *)
LEMMA SkipStep == TypeOK /\ PassInv /\ Skip => PassInv'
<1> SUFFICES ASSUME TypeOK, PassInv, Skip PROVE PassInv'
  OBVIOUS
<1> USE SizeAssumption DEF PassInv, Skip, moduleVars
<1>0. /\ UNCHANGED plan /\ stream' = stream
      /\ at \in Nat /\ Ins \subseteq Nat
  BY PlanUnchanged DEF Ins
<1>1. EventsInv' /\ WaitsInv'
  BY DEF EventsInv, WaitsInv
<1>2. LoopInv'
  BY <1>0 DEF LoopInv, Entered
<1>3. CoverInv'
  BY <1>0, PlanDerived DEF CoverInv
<1>4. KnownInv'
  <2>1. \A s \in Streams : Earlier(at, s) \subseteq Earlier(at, s)'
    BY <1>0 DEF Earlier
  <2>2. \A i \in Ins : HasStream(i) /\ i < at + 1 => i < at
    BY <1>0
  <2>3. \A i \in Ins : HasStream(i)' = HasStream(i)
    BY <1>0, PlanDerived
  <2>4. ASSUME NEW s \in Streams, NEW D \in SUBSET Ins,
               Closed(D)', Earlier(at, s)' \subseteq D
        PROVE  Fired(D, waitedFor[s])'
    BY <2>1, <2>4 DEF KnownInv, Fired, Closed
  <2>5. ASSUME NEW i \in Ins, NEW D \in SUBSET Ins, i < at + 1, HasStream(i),
               Closed(D)', Earlier(i, stream[i])' \subseteq D, Fired(D, waits[i])'
        PROVE  Fired(D, known[i])'
    BY <1>0, <2>2, <2>5 DEF KnownInv, Fired, Closed, Earlier
  <2>6. at' = at + 1 /\ \A i \in Ins : i < at' /\ HasStream(i)' => i < at + 1 /\ HasStream(i)
    BY <2>3
  <2> HIDE DEF PassInv, Skip
  <2> QED BY <2>4, <2>5, <2>6 DEF KnownInv
<1>5. SetStreamInv'
  <2>1. ASSUME NEW i \in Ins, Entered(i)', HasStream(i) PROVE Entered(i)
    BY <1>0, <2>1 DEF Entered
  <2> QED BY <1>0, <2>1, PlanDerived DEF SetStreamInv, CurrentSet, SetBefore
<1> QED BY <1>1, <1>2, <1>3, <1>4, <1>5

(* So does putting an instruction on its stream. *)
LEMMA SchedStep == TypeOK /\ PassInv /\ Sched => PassInv'
<1> SUFFICES ASSUME TypeOK, PassInv, Sched PROVE PassInv'
  OBVIOUS
<1> USE SizeAssumption DEF PassInv
<1>0. /\ UNCHANGED <<plan, waits, record, at, waitId, waitedFor, ins2waited, known>>
      /\ stream' = stream /\ deps' = deps
      /\ at \in Ins /\ Ins \subseteq Nat /\ pc = "visit" /\ pc' = "merge"
      /\ HasStream(at)
      /\ \A i \in Ins : OtherStream(i) \subseteq deps[i]
  BY PlanUnchanged DEF Sched, Ins, OtherStream, RecordedInstructions
<1>1. EventsInv' /\ WaitsInv'
  BY <1>0 DEF EventsInv, WaitsInv
<1>2. LoopInv'
  <2>1. todo' \subseteq OtherStream(at)
    BY DEF Sched, OtherStream
  <2>2. ASSUME NEW i \in Ins, ~ Entered(i)' PROVE waits[i] = {} /\ ~ setStream'[i]
    <3>1. ~ Entered(i) /\ i # at
      BY <1>0, <2>2 DEF Entered
    <3> QED BY <3>1, <2>2 DEF LoopInv, Sched, TypeOK, ModuleTypeOK
  <2> QED BY <1>0, <2>1, <2>2, PlanDerived DEF LoopInv
<1>3. CoverInv'
  <2>1. OtherStream(at) \ todo' = {}
    <3>1. CASE IsMergePoint(at)
      BY <3>1 DEF Sched, OtherStream
    <3>2. CASE ~ IsMergePoint(at)
      BY <3>2, <1>0 DEF IsMergePoint, OtherStream
    <3> QED BY <3>1, <3>2
  <2> QED BY <1>0, <2>1, PlanDerived DEF CoverInv
<1>4. KnownInv'
  <2>1. \A i \in Ins : HasStream(i)' = HasStream(i)
    BY <1>0, PlanDerived
  <2>2. \A D \in SUBSET Ins : Closed(D)' = Closed(D)
    BY <1>0 DEF Closed, Fired
  <2>3. \A i, s : Earlier(i, s)' = Earlier(i, s)
    BY <1>0 DEF Earlier
  <2>4. \A D, E : Fired(D, E)' = Fired(D, E)
    BY <1>0 DEF Fired
  <2> QED BY <1>0, <2>1, <2>2, <2>3, <2>4 DEF KnownInv
<1>5. SetStreamInv'
  <2>1. Concurrent
    BY DEF Sched
  <2>2. \A i \in Ins : i <= at => SetBefore(i)' = SetBefore(i)
    BY <1>0 DEF Sched, SetBefore, TypeOK, ModuleTypeOK, Ins
  <2>3. \A i, q \in Ins : i <= at => (CurrentSet(i, q)' <=> CurrentSet(i, q))
    BY <2>2 DEF CurrentSet
  <2>4. ASSUME NEW i \in Ins, i < at, HasStream(i)
        PROVE  setStream'[i] \/ \E q \in Ins : CurrentSet(i, q)' /\ stream[q] = stream[i]
    <3>1. setStream[i] \/ \E q \in Ins : CurrentSet(i, q) /\ stream[q] = stream[i]
      BY <2>1, <2>4 DEF SetStreamInv, Entered
    <3>2. setStream'[i] = setStream[i]
      BY <1>0, <2>4 DEF Sched, TypeOK, ModuleTypeOK
    <3> QED BY <1>0, <2>3, <2>4, <3>1, <3>2
  <2>5. ASSUME NEW i \in Ins, i = at
        PROVE  setStream'[i] \/ \E q \in Ins : CurrentSet(i, q)' /\ stream[q] = stream[i]
    <3>1. setStream'[i] = NeedsSetStream
      BY <1>0, <2>5 DEF Sched, TypeOK, ModuleTypeOK
    <3>2. NeedsSetStream \/ \E q \in Ins : CurrentSet(i, q) /\ stream[q] = stream[i]
      BY <2>5 DEF NeedsSetStream
    <3> QED BY <1>0, <2>3, <2>5, <3>1, <3>2
  <2>6. \A i \in Ins : Entered(i)' => i < at \/ i = at
    BY <1>0 DEF Entered
  <2>7. \A i \in Ins : HasStream(i)' <=> HasStream(i)
    BY <1>0, PlanDerived
  <2>8. ASSUME NEW i \in Ins, Entered(i)', HasStream(i)'
        PROVE  setStream'[i] \/ \E q \in Ins : CurrentSet(i, q)' /\ stream'[q] = stream'[i]
    BY <1>0, <2>4, <2>5, <2>6, <2>7, <2>8
  <2> QED BY <2>8 DEF SetStreamInv
<1> QED BY <1>1, <1>2, <1>3, <1>4, <1>5

(* So does one turn of the wait loop: the event waited for, and all that   *)
(* had fired when it was recorded, are known on the stream.                *)
LEMMA WaitOnStep ==
  ASSUME TypeOK, PassInv, NEW j \in Ins, WaitOn(j)
  PROVE  PassInv'
<1> DEFINE w == IF record[j] = NoEvent THEN waitId ELSE record[j]
           s == stream[at]
<1> USE SizeAssumption DEF PassInv
<1>1. /\ UNCHANGED <<plan, setStream, at, pc, ins2waited, known>>
      /\ stream' = stream /\ deps' = deps
      /\ at \in Ins /\ Ins \subseteq Nat /\ pc = "merge" /\ HasStream(at)
      /\ j \in todo /\ j \in OtherStream(at) /\ j \in 1..(at - 1)
      /\ \A i \in Ins : OtherStream(i) \subseteq Ins
  BY PlanUnchanged, PlanFacts
     DEF WaitOn, Ins, LoopInv, TypeOK, ModuleTypeOK, PassTypeOK, OtherStream, RecordedInstructions
<1>2. /\ record' = [record EXCEPT ![j] = w]
      /\ waitId' = IF record[j] = NoEvent THEN waitId + 1 ELSE waitId
      /\ waits' = IF w \in waitedFor[s] THEN waits ELSE [waits EXCEPT ![at] = @ \cup {w}]
      /\ waitedFor' = [waitedFor EXCEPT ![s] = @ \cup {w} \cup ins2waited[j]]
      /\ todo' = todo \ {j}
  BY DEF WaitOn
<1>3. /\ record \in [Ins -> Events \cup {NoEvent}]
      /\ waits \in [Ins -> SUBSET Events]
      /\ waitedFor \in [Streams -> SUBSET Events]
      /\ ins2waited \in [Ins -> SUBSET Events]
      /\ known \in [Ins -> SUBSET Events]
      /\ waitId \in Nat /\ s \in Streams
  BY <1>1, PlanFacts DEF TypeOK, ModuleTypeOK, PassTypeOK, HasStream
<1>4. w \in Events /\ record'[j] = w /\ w < waitId' /\ waitId <= waitId' /\ waitId' \in Nat
  BY <1>2, <1>3 DEF Events, EventsInv, NoEvent
<1>5. \A k \in Ins : record[k] # NoEvent => record'[k] = record[k]
  BY <1>2, <1>3
<1>6. /\ \A i \in Ins : waits'[i] \subseteq waits[i] \cup {w}
      /\ \A i \in Ins : waits[i] \subseteq waits'[i]
      /\ \A i \in Ins : i # at => waits'[i] = waits[i]
      /\ w \in waits'[at] \/ w \in waitedFor[s]
  BY <1>1, <1>2, <1>3
<1>7. /\ waitedFor'[s] = waitedFor[s] \cup {w} \cup ins2waited[j]
      /\ \A t \in Streams : t # s => waitedFor'[t] = waitedFor[t]
  BY <1>2, <1>3
<1> HIDE DEF w, s
<1>8. EventsInv'
  <2>1. \A i \in Ins : record'[i] < waitId'
    BY <1>2, <1>3, <1>4 DEF EventsInv, Events, NoEvent
  <2>2. \A i, k \in Ins : record'[i] # NoEvent /\ record'[i] = record'[k] => i = k
    BY <1>2, <1>3 DEF EventsInv, Events, NoEvent, w
  <2>3. ASSUME NEW e \in Events, e < waitId \/ e = w PROVE e < waitId'
    BY <1>3, <1>4, <2>3 DEF Events
  <2>4. \A i \in Ins : \A e \in waits'[i] \cup known'[i] : e < waitId'
    <3> SUFFICES ASSUME NEW i \in Ins, NEW e \in waits'[i] \cup known'[i]
                 PROVE  e \in Events /\ (e < waitId \/ e = w)
      BY <2>3
    <3>1. e \in waits[i] \cup known[i] \/ e = w
      BY <1>1, <1>6
    <3> QED BY <1>3, <1>4, <3>1 DEF EventsInv
  <2>5. \A t \in Streams : \A e \in waitedFor'[t] : e < waitId'
    <3> SUFFICES ASSUME NEW t \in Streams, NEW e \in waitedFor'[t]
                 PROVE  e \in Events /\ (e < waitId \/ e = w)
      BY <2>3
    <3>1. e \in waitedFor[t] \/ e = w \/ e \in known[j]
      BY <1>7 DEF LoopInv
    <3> QED BY <1>3, <1>4, <3>1 DEF EventsInv
  <2> QED BY <2>1, <2>2, <2>4, <2>5 DEF EventsInv
<1>9. LoopInv'
  <2>1. \A i \in Ins : Entered(i)' <=> Entered(i)
    BY <1>1 DEF Entered
  <2>2. \A i \in Ins : ~ Entered(i) => i # at
    BY <1>1 DEF Entered
  <2> QED BY <1>1, <1>2, <1>6, <2>1, <2>2, PlanDerived DEF LoopInv
<1>10. WaitsInv'
  <2> SUFFICES ASSUME NEW i \in Ins, NEW e \in waits'[i]
               PROVE  \E k \in 1..(i - 1) : record'[k] = e
    BY DEF WaitsInv
  <2>1. CASE e \in waits[i]
    <3>1. PICK k \in 1..(i - 1) : record[k] = e
      BY <2>1 DEF WaitsInv
    <3>2. k \in Ins /\ record[k] # NoEvent
      BY <1>3, <2>1, <3>1 DEF Ins, Events, NoEvent
    <3> QED BY <1>5, <3>1, <3>2
  <2>2. CASE e \notin waits[i]
    BY <2>2, <1>1, <1>4, <1>6
  <2> QED BY <2>1, <2>2
<1>11. CoverInv'
  <2>1. ASSUME NEW i \in Ins, i < at, HasStream(i), NEW k \in OtherStream(i)
        PROVE  record'[k] \in known[i]
    <3>1. record[k] \in known[i] /\ k \in Ins
      BY <1>1, <2>1 DEF CoverInv
    <3> QED BY <1>3, <1>5, <2>1, <3>1 DEF Events, NoEvent
  <2>2. ASSUME NEW k \in OtherStream(at) \ todo' PROVE record'[k] \in waitedFor'[s]
    <3>1. CASE k = j
      BY <3>1, <1>4, <1>7
    <3>2. CASE k # j
      <4>1. record[k] \in waitedFor[s] /\ k \in Ins
        BY <1>1, <1>2, <2>2, <3>2 DEF CoverInv, s
      <4> QED BY <1>3, <1>5, <1>7, <4>1 DEF Events, NoEvent
    <3> QED BY <3>1, <3>2
  <2> QED BY <1>1, <2>1, <2>2, PlanDerived DEF CoverInv, s
<1>12. KnownInv'
  <2> DEFINE FiredNext(D, E) == \A k \in Ins : record'[k] \in E => k \in D
  (* A newly recorded event is in no set the loop had before. *)
  <2>1. ASSUME NEW D \in SUBSET Ins, NEW E \in SUBSET Events, \A e \in E : e < waitId
        PROVE  FiredNext(D, E) <=> Fired(D, E)
    <3>1. \A k \in Ins : record'[k] \in E <=> record[k] \in E
      BY <1>2, <1>3, <2>1 DEF Events, NoEvent, w
    <3> QED BY <3>1 DEF Fired
  <2>2. \A D \in SUBSET Ins : Closed(D)' <=> Closed(D)
    <3>1. \A D \in SUBSET Ins : \A i \in Ins : FiredNext(D, known[i]) <=> Fired(D, known[i])
      BY <1>3, <2>1 DEF EventsInv
    <3> QED BY <1>1, <3>1 DEF Closed, Fired
  <2>3. \A k \in Ins : record'[k] = w <=> k = j
    BY <1>2, <1>3, <1>4, <1>8 DEF EventsInv, Events, NoEvent
  <2>4. \A i \in 1..(N + 1) : \A t \in Streams : Earlier(i, t)' = Earlier(i, t)
    BY <1>1, PlanDerived
  <2>5. at \in 1..(N + 1) /\ Ins \subseteq 1..(N + 1)
    BY <1>1 DEF Ins
  <2>6. \A t \in Streams : waitedFor[t] \in SUBSET Events /\ \A e \in waitedFor[t] : e < waitId
    BY <1>3 DEF EventsInv
  <2>7. \A i \in Ins : /\ waits[i] \in SUBSET Events /\ \A e \in waits[i] : e < waitId
                       /\ known[i] \in SUBSET Events /\ \A e \in known[i] : e < waitId
    BY <1>3 DEF EventsInv
  <2>8. ASSUME NEW t \in Streams, NEW D \in SUBSET Ins,
               Closed(D), Earlier(at, t) \subseteq D,
               t = s => FiredNext(D, waits'[at])
        PROVE  FiredNext(D, waitedFor'[t])
    <3>1. t = s => Fired(D, waits[at])
      BY <1>1, <1>6, <2>1, <2>7, <2>8
    <3>2. FiredNext(D, waitedFor[t])
      <4>1. Fired(D, waitedFor[t])
        BY <1>1, <2>8, <3>1 DEF KnownInv, s
      <4> QED BY <2>1, <2>6, <4>1
    <3>3. CASE t = s
      <4>1. j \in D
        BY <1>1, <1>4, <1>6, <2>8, <3>2, <3>3
      <4>2. FiredNext(D, known[j])
        BY <2>1, <2>7, <2>8, <4>1 DEF Closed
      <4>3. ins2waited[j] \subseteq known[j]
        BY DEF LoopInv
      <4> QED BY <1>7, <2>3, <3>2, <3>3, <4>1, <4>2, <4>3
    <3>4. CASE t # s
      BY <1>7, <3>2, <3>4
    <3> QED BY <3>3, <3>4
  <2>9. ASSUME NEW i \in Ins, i < at, HasStream(i), NEW D \in SUBSET Ins,
               Closed(D), Earlier(i, stream[i]) \subseteq D, FiredNext(D, waits'[i])
        PROVE  FiredNext(D, known'[i])
    <3>1. Fired(D, waits[i])
      BY <1>6, <2>1, <2>7, <2>9
    <3>2. Fired(D, known[i])
      BY <2>9, <3>1 DEF KnownInv
    <3> QED BY <1>1, <2>1, <2>7, <3>2
  <2>10. \A i \in Ins : HasStream(i) => stream[i] \in Streams
    BY PlanFacts DEF TypeOK, ModuleTypeOK, HasStream
  <2>11. \A i \in Ins : HasStream(i)' <=> HasStream(i)
    BY <1>1, PlanDerived
  <2>12. \A t \in Streams : \A D \in SUBSET Ins :
           /\ Closed(D)' /\ Earlier(at, t)' \subseteq D
           /\ (pc = "merge" /\ stream[at] = t => Fired(D, waits[at]))'
           => Fired(D, waitedFor[t])'
    BY <1>1, <2>2, <2>4, <2>5, <2>8 DEF Fired, s
  <2>13. \A i \in Ins : \A D \in SUBSET Ins :
           /\ i < at /\ HasStream(i)
           /\ Closed(D)' /\ Earlier(i, stream[i])' \subseteq D
           /\ Fired(D, waits[i])'
           => Fired(D, known[i])'
    BY <1>1, <2>2, <2>4, <2>5, <2>9, <2>10 DEF Fired
  <2> HIDE DEF PassInv
  <2> QED BY <1>1, <2>11, <2>12, <2>13 DEF KnownInv
<1>13. SetStreamInv'
  <2>1. \A i \in Ins : Entered(i)' <=> Entered(i)
    BY <1>1 DEF Entered
  <2>2. \A i, q \in Ins : CurrentSet(i, q)' <=> CurrentSet(i, q)
    BY <1>1 DEF CurrentSet, SetBefore
  <2>3. (Concurrent' <=> Concurrent) /\ \A i \in Ins : HasStream(i)' <=> HasStream(i)
    BY <1>1, PlanDerived
  <2> QED BY <1>1, <2>1, <2>2, <2>3 DEF SetStreamInv
<1> QED BY <1>8, <1>9, <1>10, <1>11, <1>12, <1>13

(* So does leaving an instruction: what the stream has waited for is known *)
(* when the next one on it starts.                                         *)
LEMMA LeaveStep == TypeOK /\ PassInv /\ Leave => PassInv'
<1> SUFFICES ASSUME TypeOK, PassInv, Leave PROVE PassInv'
  OBVIOUS
<1> DEFINE s == stream[at]
<1> USE SizeAssumption DEF PassInv
<1>1. /\ UNCHANGED <<plan, setStream, waits, record, waitId, waitedFor>>
      /\ stream' = stream /\ deps' = deps
      /\ at \in Ins /\ Ins \subseteq Nat /\ pc = "merge" /\ todo = {} /\ HasStream(at)
      /\ at' = at + 1 /\ pc' = "visit"
      /\ s \in Streams /\ waitedFor[s] \in SUBSET Events
  BY PlanUnchanged, PlanFacts
     DEF Leave, moduleVars, Ins, TypeOK, ModuleTypeOK, PassTypeOK, HasStream
<1>2. /\ known' = [known EXCEPT ![at] = waitedFor[s]]
      /\ known \in [Ins -> SUBSET Events] /\ ins2waited \in [Ins -> SUBSET Events]
      /\ known[at] = {}
      /\ ins2waited' = [ins2waited EXCEPT ![at] = waitedFor[s]] \/ ins2waited' = ins2waited
  BY <1>1 DEF Leave, LoopInv, TypeOK, PassTypeOK
<1>3. /\ known'[at] = waitedFor[s]
      /\ \A i \in Ins : i # at => known'[i] = known[i]
  BY <1>1, <1>2
<1> HIDE DEF s
<1>4. EventsInv'
  BY <1>1, <1>3 DEF EventsInv
<1>5. LoopInv'
  <2>1. \A i \in Ins : ~ Entered(i)' => ~ Entered(i)
    BY <1>1 DEF Entered
  <2>2. \A i \in Ins : i >= at' => known'[i] = {}
    BY <1>1, <1>3 DEF LoopInv
  <2>3. \A i \in Ins : ins2waited'[i] \subseteq known'[i]
    BY <1>1, <1>2, <1>3 DEF LoopInv
  <2> QED BY <1>1, <2>1, <2>2, <2>3 DEF LoopInv
<1>6. WaitsInv'
  BY <1>1 DEF WaitsInv
<1>7. CoverInv'
  <2>1. ASSUME NEW i \in Ins, i < at', HasStream(i), NEW j \in OtherStream(i)
        PROVE  record[j] \in known'[i]
    <3>1. CASE i = at
      BY <1>1, <1>3, <2>1, <3>1 DEF CoverInv, s
    <3>2. CASE i # at
      BY <1>1, <1>3, <2>1, <3>2 DEF CoverInv
    <3> QED BY <3>1, <3>2
  <2> QED BY <1>1, <2>1, PlanDerived DEF CoverInv
<1>8. KnownInv'
  <2>1. \A D \in SUBSET Ins : Closed(D)' => Closed(D)
    BY <1>1, <1>2, <1>3 DEF Closed, Fired
  <2>2. \A D \in SUBSET Ins : \A E : Fired(D, E)' <=> Fired(D, E)
    BY <1>1 DEF Fired
  <2>3. \A i \in 1..(N + 1) : \A t \in Streams : Earlier(i, t)' = Earlier(i, t)
    BY <1>1, PlanDerived
  <2>4. at \in 1..(N + 1) /\ at + 1 \in 1..(N + 1) /\ Ins \subseteq 1..(N + 1)
    BY <1>1 DEF Ins
  <2>5. \A t \in Streams : Earlier(at + 1, t) = Earlier(at, t) \cup (IF t = s THEN {at} ELSE {})
    BY <1>1 DEF Earlier, s, Ins
  <2>6. ASSUME NEW t \in Streams, NEW D \in SUBSET Ins,
               Closed(D)', Earlier(at + 1, t) \subseteq D
        PROVE  Fired(D, waitedFor[t])
    <3>1. CASE t = s
      <4>1. at \in D
        BY <2>5, <2>6, <3>1
      <4> QED BY <1>1, <1>3, <2>6, <3>1, <4>1 DEF Closed, Fired
    <3>2. CASE t # s
      BY <1>1, <2>1, <2>5, <2>6, <3>2 DEF KnownInv, s
    <3> QED BY <3>1, <3>2
  <2>7. ASSUME NEW i \in Ins, i < at + 1, HasStream(i), NEW D \in SUBSET Ins,
               Closed(D)', Earlier(i, stream[i]) \subseteq D, Fired(D, waits[i])
        PROVE  Fired(D, known'[i])
    <3>1. CASE i = at
      <4>1. Fired(D, waitedFor[s])
        BY <1>1, <2>1, <2>7, <3>1 DEF KnownInv, s
      <4> QED BY <1>3, <3>1, <4>1
    <3>2. CASE i # at
      <4>1. i < at
        BY <1>1, <2>7, <3>2
      <4>2. Fired(D, known[i])
        BY <2>1, <2>7, <4>1 DEF KnownInv
      <4> QED BY <1>3, <3>2, <4>2
    <3> QED BY <3>1, <3>2
  <2>8. \A i \in Ins : HasStream(i) => stream[i] \in Streams
    BY PlanFacts DEF TypeOK, ModuleTypeOK, HasStream
  <2>9. \A i \in Ins : HasStream(i)' <=> HasStream(i)
    BY <1>1, PlanDerived
  <2>10. \A t \in Streams : \A D \in SUBSET Ins :
           Closed(D)' /\ Earlier(at, t)' \subseteq D => Fired(D, waitedFor[t])'
    <3>1. \A t \in Streams : Earlier(at, t)' = Earlier(at + 1, t)
      BY <1>1 DEF Earlier
    <3>2. \A t \in Streams : \A D \in SUBSET Ins : Fired(D, waitedFor[t])' <=> Fired(D, waitedFor[t])
      BY <1>1 DEF Fired
    <3> QED BY <2>6, <3>1, <3>2
  <2>11. \A i \in Ins : \A D \in SUBSET Ins :
           /\ (i < at /\ HasStream(i))'
           /\ Closed(D)' /\ Earlier(i, stream[i])' \subseteq D
           /\ Fired(D, waits[i])'
           => Fired(D, known[i])'
    <3> SUFFICES ASSUME NEW i \in Ins, NEW D \in SUBSET Ins,
                        (i < at /\ HasStream(i))',
                        Closed(D)', Earlier(i, stream[i])' \subseteq D, Fired(D, waits[i])'
                 PROVE  Fired(D, known[i])'
      OBVIOUS
    <3>1. i < at + 1 /\ HasStream(i)
      BY <1>1, <2>9
    <3>2. Earlier(i, stream[i]) \subseteq D
      BY <1>1 DEF Earlier
    <3>3. Fired(D, waits[i])
      BY <1>1 DEF Fired
    <3>4. Fired(D, known'[i])
      BY <2>7, <3>1, <3>2, <3>3
    <3> QED BY <1>1, <3>4 DEF Fired
  <2> HIDE DEF PassInv
  <2> QED BY <1>1, <2>10, <2>11 DEF KnownInv
<1>9. SetStreamInv'
  <2>1. \A i \in Ins : Entered(i)' => Entered(i)
    BY <1>1 DEF Entered
  <2>2. \A i, q \in Ins : CurrentSet(i, q)' <=> CurrentSet(i, q)
    BY <1>1 DEF CurrentSet, SetBefore
  <2>3. (Concurrent' <=> Concurrent) /\ \A i \in Ins : HasStream(i)' <=> HasStream(i)
    BY <1>1, PlanDerived
  <2> QED BY <1>1, <2>1, <2>2, <2>3 DEF SetStreamInv
<1> QED BY <1>4, <1>5, <1>6, <1>7, <1>8, <1>9

(* So does every step of the system. *)
LEMMA PassInvStep == TypeOK /\ PassInv /\ [Next]_vars => PassInv'
<1> SUFFICES ASSUME TypeOK, PassInv, [Next]_vars PROVE PassInv'
  OBVIOUS
<1>1. CASE Compile
  BY <1>1, NoConcurrencyStep, SkipStep, SchedStep, WaitOnStep, LeaveStep DEF Compile, PassNext
<1>2. CASE Evaluate
  BY <1>2, PassInvUnchanged DEF Evaluate
<1>3. CASE UNCHANGED vars
  BY <1>3, PassInvUnchanged DEF vars
<1> QED BY <1>1, <1>2, <1>3 DEF Next

-----------------------------------------------------------------------------
(***************************************************************************)
(* Evaluation of a scheduled module without submodules: what the streams   *)
(* do is covered by what the insertion loop left behind, PassInv.          *)
(***************************************************************************)

(* The modules compiled have no submodules. *)
FlatPlans == \A p \in Plans : IsFlat(p)

Base == TypeOK /\ IsFlat(plan) /\ PassInv

-----------------------------------------------------------------------------
(* What evaluation relies on, and never changes. *)
LEMMA PlanAtEvaluation ==
  ASSUME Base
  PROVE  /\ \A i \in Ins : kernel[i] <=> HasStream(i)
         /\ \A i \in Ins : setStream[i] => kernel[i]
         /\ \A i \in Ins : reads[i] = deps[i]
         /\ \A i \in Ins : reads[i] \subseteq 1..(i - 1)
         /\ \A i \in Ins : HasStream(i) => stream[i] \in Streams /\ stream[i] # NoStream
         /\ kernel[N]
         /\ \A i \in Ins : kernel[i] /\ i # N => \E k \in Ins : kernel[k] /\ i \in reads[k]
         /\ N \in Ins /\ Ins \subseteq Nat
  BY PlanFacts, SizeAssumption
  DEF Base, TypeOK, ModuleTypeOK, IsFlat, HasStream, kernel, stream, reads, deps, NoStream, Ins

(* Evaluation changes neither the module nor what was derived from it. *)
LEMMA EvaluationKeeps ==
  ASSUME UNCHANGED <<moduleVars, passVars>>
  PROVE  /\ kernel' = kernel /\ stream' = stream /\ reads' = reads
         /\ setStream' = setStream /\ record' = record /\ waits' = waits /\ known' = known
         /\ PassDone' <=> PassDone
         /\ \A i \in Ins : HasStream(i)' <=> HasStream(i)
         /\ \A i, j \in Ins : Awaits(i, j)' <=> Awaits(i, j)
         /\ \A i : SetBefore(i)' = SetBefore(i)
         /\ \A i, q : CurrentSet(i, q)' <=> CurrentSet(i, q)
  BY PlanUnchanged DEF moduleVars, passVars, PassDone, HasStream, Awaits, SetBefore, CurrentSet

(* Before the first evaluation nothing has been launched. *)
LEMMA NothingLaunched ==
  ASSUME HostInv, host = 1
  PROVE  \A i \in Ins : status[i] = "none" /\ launched[i] = NoStream
  BY SizeAssumption DEF HostInv, Ins

(* The invariant holds before the pass has begun. *)
LEMMA InitInv == ASSUME FlatPlans PROVE Init => Inv
<1> SUFFICES ASSUME Init PROVE Inv
  OBVIOUS
<1>1. Base
  BY InitTypeOK, PassInvInit DEF FlatPlans, Init, ModuleInit, Base
<1>2. HostInv
  BY SizeAssumption DEF Init, ExecInit, HostInv, Ins
<1>3. CurInv /\ LaunchedOnItsStream /\ StreamInv /\ InputsReady /\ FinishCoversAllStreams
  BY DEF Init, ExecInit, CurInv, LaunchedOnItsStream, StreamInv, InputsReady,
         FinishCoversAllStreams, Started
<1> QED BY <1>1, <1>2, <1>3 DEF Base, Inv, ExecInv, QueuesInv

(* Types, the module and the facts about the pass are kept by every step. *)
LEMMA BaseStep == Base /\ [Next]_vars => Base'
<1> SUFFICES ASSUME Base, [Next]_vars PROVE Base'
  OBVIOUS
<1>1. UNCHANGED plan
  BY DEF Next, Compile, PassNext, NoConcurrency, Skip, Sched, WaitOn, Leave, Evaluate,
         vars, moduleVars
<1>2. IsFlat(plan)'
  BY <1>1, PlanUnchanged DEF Base
<1> QED BY <1>2, StepTypeOK, PassInvStep DEF Base

-----------------------------------------------------------------------------
(* One lemma per action of the compiler, the host and the streams. *)
LEMMA CompileStep == Base /\ QueuesInv /\ Compile => QueuesInv'
<1> SUFFICES ASSUME Base, QueuesInv, Compile PROVE QueuesInv'
  OBVIOUS
<1>1. phase = "compile" /\ UNCHANGED execVars
  BY DEF Compile
<1>2. host = 1 /\ cur = 0 /\ run = 0 /\ \A i \in Ins : status[i] = "none" /\ launched[i] = NoStream
  BY <1>1, NothingLaunched DEF QueuesInv, HostInv
<1>3. HostInv'
  BY <1>1, <1>2, SizeAssumption DEF execVars, HostInv, Ins
<1>4. CurInv' /\ LaunchedOnItsStream' /\ StreamInv' /\ InputsReady'
  BY <1>1, <1>2 DEF execVars, CurInv, LaunchedOnItsStream, StreamInv, InputsReady,
                    Started
<1> QED BY <1>3, <1>4 DEF QueuesInv

(* Finalization leaves the stream of the last set_stream current. *)
LEMMA FinalizeStep ==
  ASSUME Base, QueuesInv, PassDone, Finalize, UNCHANGED <<moduleVars, passVars>>
  PROVE  QueuesInv'
<1>1. phase = "compile" /\ phase' = "ready" /\ UNCHANGED <<run, host, launched, hold, status>>
  BY DEF Finalize
<1>2. host = 1 /\ cur = 0 /\ run = 0 /\ \A i \in Ins : status[i] = "none" /\ launched[i] = NoStream
  BY <1>1, NothingLaunched DEF QueuesInv, HostInv
<1>3. HostInv'
  BY <1>1, <1>2, EvaluationKeeps, SizeAssumption DEF HostInv, Ins
<1>4. CurInv'
  <2>1. (\A i \in Ins : ~ setStream[i]) => SetBefore(N + 1) = {}
    BY SizeAssumption DEF SetBefore, Ins
  <2> QED BY <1>1, <1>2, <2>1, EvaluationKeeps DEF Finalize, CurInv
<1>5. LaunchedOnItsStream' /\ StreamInv' /\ InputsReady'
  BY <1>1, <1>2 DEF LaunchedOnItsStream, StreamInv, InputsReady,
                    Started
<1> QED BY <1>3, <1>4, <1>5 DEF QueuesInv

(* A new evaluation forgets what the one before it launched. *)
LEMMA BeginStep ==
  ASSUME Base, QueuesInv, Begin, UNCHANGED <<moduleVars, passVars>>
  PROVE  QueuesInv'
<1>1. /\ phase = "ready" /\ phase' = "run" /\ run' = run + 1 /\ host' = 1
      /\ \A i \in Ins : status'[i] = "none" /\ launched'[i] = NoStream
      /\ UNCHANGED cur
  BY DEF Begin
<1>2. HostInv'
  BY <1>1, EvaluationKeeps, SizeAssumption
     DEF HostInv, Ins, QueuesInv, Base, TypeOK, ExecTypeOK
<1>3. CurInv'
  <2>1. \A q \in Ins : ~ CurrentSet(1, q)
    BY DEF CurrentSet, SetBefore
  <2>2. \A q \in Ins : CurrentSet(host, q)' <=> CurrentSet(1, q)
    BY <1>1, EvaluationKeeps DEF CurrentSet, SetBefore
  <2> QED BY <1>1, <2>1, <2>2, EvaluationKeeps DEF QueuesInv, CurInv
<1>4. LaunchedOnItsStream' /\ StreamInv' /\ InputsReady'
  BY <1>1 DEF LaunchedOnItsStream, StreamInv, InputsReady, Started
<1> QED BY <1>2, <1>3, <1>4 DEF QueuesInv

(* The current stream after the set_stream before the instruction the host *)
(* launches, if there is one, is the stream the pass gave the instruction. *)
LEMMA LaunchStream ==
  ASSUME Base, QueuesInv, Launch
  PROVE  cur' = stream[host]
<1>1. /\ phase = "run" /\ host \in Ins /\ HasStream(host) /\ at = N + 1
      /\ cur' = IF setStream[host] THEN stream[host] ELSE cur
  BY PlanAtEvaluation DEF Launch, QueuesInv, HostInv, PassDone
<1>2. Entered(host)
  BY <1>1, SizeAssumption DEF Entered, Ins
<1>3. CASE setStream[host]
  BY <1>1, <1>3
<1>4. CASE ~ setStream[host]
  <2>1. CASE ~ Concurrent /\ \A i \in Ins : ~ setStream[i]
    BY <1>1, <1>4, <2>1 DEF Concurrent, QueuesInv, CurInv
  <2>2. CASE \E q \in Ins : CurrentSet(host, q) /\ stream[q] = stream[host]
    BY <1>1, <1>4, <2>2 DEF QueuesInv, CurInv
  <2> QED BY <1>1, <1>2, <1>4, <2>1, <2>2 DEF Base, PassInv, SetStreamInv
<1> QED BY <1>3, <1>4

(* A launch puts the kernel on its stream, held by the records of what it  *)
(* waits for.                                                              *)
LEMMA LaunchStep ==
  ASSUME Base, QueuesInv, Launch, UNCHANGED <<moduleVars, passVars>>
  PROVE  QueuesInv'
<1> USE SizeAssumption
<1>1. /\ phase = "run" /\ host \in Ins /\ kernel[host] /\ HasStream(host)
      /\ cur' = stream[host] /\ host' = host + 1 /\ Ins \subseteq Nat
      /\ UNCHANGED <<phase, run>>
  BY LaunchStream, PlanAtEvaluation DEF Launch
<1>2. /\ launched'[host] = cur' /\ status'[host] = "queued"
      /\ hold'[host] = {j \in Ins : Awaits(host, j)}
      /\ \A i \in Ins : i # host => /\ launched'[i] = launched[i]
                                    /\ status'[i] = status[i]
                                    /\ hold'[i] = hold[i]
  BY <1>1 DEF Launch, Base, TypeOK, ExecTypeOK
<1>3. status[host] = "none"
  BY <1>1 DEF QueuesInv, HostInv
<1>4. stream[host] # NoStream
  BY <1>1 DEF HasStream
<1>5. HostInv'
  <2>1. \A i \in Ins : i < host + 1 <=> i < host \/ i = host
    BY <1>1
  <2>2. \A i \in Ins : /\ status'[i] # "none" <=> i < host + 1 /\ kernel[i]
                       /\ launched'[i] # NoStream <=> i < host + 1 /\ kernel[i]
    BY <1>1, <1>2, <1>4, <2>1 DEF QueuesInv, HostInv
  <2>3. \A i \in Ins : status'[i] # "none" => hold'[i] = {j \in Ins : Awaits(i, j)}
    BY <1>1, <1>2 DEF QueuesInv, HostInv
  <2>4. \A i \in Ins : {j \in Ins : Awaits(i, j)}' = {j \in Ins : Awaits(i, j)}
    BY EvaluationKeeps
  <2> QED BY <1>1, <2>2, <2>3, <2>4, EvaluationKeeps DEF QueuesInv, HostInv
<1>6. CurInv'
  <2>1. ASSUME NEW q \in Ins, CurrentSet(host + 1, q) PROVE cur' = stream[q]
    <3>1. CASE setStream[host]
      <4>1. q = host
        BY <1>1, <2>1, <3>1 DEF CurrentSet, SetBefore, Ins
      <4> QED BY <1>1, <4>1
    <3>2. CASE ~ setStream[host]
      <4>1. CurrentSet(host, q)
        BY <1>1, <2>1, <3>2 DEF CurrentSet, SetBefore, Ins
      <4> QED BY <1>1, <3>2, <4>1 DEF QueuesInv, CurInv, Launch
    <3> QED BY <3>1, <3>2
  <2>2. \A q \in Ins : CurrentSet(host, q)' <=> CurrentSet(host + 1, q)
    BY <1>1, EvaluationKeeps DEF CurrentSet, SetBefore
  <2>3. (\A i \in Ins : ~ setStream'[i]) => cur' = 0
    BY <1>1, EvaluationKeeps DEF QueuesInv, CurInv, Launch
  <2>4. host' - 1 = host
    BY <1>1
  <2> QED BY <1>1, <1>2, <2>1, <2>2, <2>3, <2>4, EvaluationKeeps DEF CurInv
<1>7. LaunchedOnItsStream'
  BY <1>1, <1>2, EvaluationKeeps DEF QueuesInv, LaunchedOnItsStream
<1>8. /\ Done' = Done
      /\ \A i \in Ins : Started(i)' <=> Started(i)
      /\ \A i \in Ins : Started(i) => i < host
  BY <1>1, <1>2, <1>3 DEF Done, Started, QueuesInv, HostInv
<1>9. StreamInv'
  <2> SUFFICES ASSUME NEW i \in Ins, Started(i)
               PROVE  /\ \A j \in Ins : j < i /\ launched'[j] = launched'[i] => status'[j] = "done"
                      /\ Fired(Done, known[i])'
    BY <1>8 DEF StreamInv
  <2>1. i < host
    BY <1>8
  <2>2. \A j \in Ins : j < i => j # host
    BY <1>1, <2>1
  <2>3. Fired(Done, known[i])'
    BY <1>8, EvaluationKeeps DEF QueuesInv, StreamInv, Fired
  <2> QED BY <1>1, <1>2, <2>1, <2>2, <2>3 DEF QueuesInv, StreamInv
<1>10. InputsReady'
  BY <1>1, <1>8, EvaluationKeeps DEF QueuesInv, InputsReady
<1> QED BY <1>5, <1>6, <1>7, <1>9, <1>10 DEF QueuesInv

(* Passing an instruction that launches nothing keeps the invariant. *)
LEMMA HostOnlyStep ==
  ASSUME Base, QueuesInv, HostOnly, UNCHANGED <<moduleVars, passVars>>
  PROVE  QueuesInv'
<1>1. /\ phase = "run" /\ host \in Ins /\ ~ kernel[host] /\ ~ setStream[host]
      /\ host' = host + 1 /\ Ins \subseteq Nat
      /\ UNCHANGED <<phase, run, cur, launched, hold, status>>
  BY PlanAtEvaluation DEF HostOnly
<1>2. HostInv'
  <2>1. \A i \in Ins : i < host + 1 <=> i < host \/ i = host
    BY <1>1
  <2>2. \A i \in Ins : i < host + 1 /\ kernel[i] <=> i < host /\ kernel[i]
    BY <1>1, <2>1
  <2>3. \A i \in Ins : {j \in Ins : Awaits(i, j)}' = {j \in Ins : Awaits(i, j)}
    BY EvaluationKeeps
  <2> QED BY <1>1, <2>2, <2>3, EvaluationKeeps DEF QueuesInv, HostInv
<1>3. CurInv'
  <2>1. \A q \in Ins : CurrentSet(host, q)' <=> CurrentSet(host + 1, q)
    BY <1>1, EvaluationKeeps DEF CurrentSet, SetBefore
  <2>2. \A q \in Ins : CurrentSet(host + 1, q) => CurrentSet(host, q)
    BY <1>1 DEF CurrentSet, SetBefore, Ins
  <2>3. host' - 1 = host
    BY <1>1
  <2> QED BY <1>1, <2>1, <2>2, <2>3, EvaluationKeeps DEF QueuesInv, CurInv
<1>4. LaunchedOnItsStream' /\ StreamInv' /\ InputsReady'
  BY <1>1, EvaluationKeeps
  DEF QueuesInv, LaunchedOnItsStream, StreamInv, InputsReady,
      Started, Done, Fired
<1> QED BY <1>2, <1>3, <1>4 DEF QueuesInv

-----------------------------------------------------------------------------
(* A started kernel found what it reads: inputs on its own stream by the   *)
(* order of the queue, those of another stream t through the last of them  *)
(* on t, whose record is known to have fired.                              *)
LEMMA StartFindsInputs ==
  ASSUME Base, QueuesInv, NEW i \in Ins, Start(i), PassDone
  PROVE  Fired(Done, known[i]) /\ reads[i] \subseteq Done
<1>1. /\ kernel[i] /\ HasStream(i) /\ i < host /\ i < at
      /\ host \in Nat /\ Ins \subseteq Nat
      /\ hold[i] = {j \in Ins : Awaits(i, j)}
      /\ hold[i] \subseteq Done
  <2>1. status[i] # "none"
    BY DEF Start
  <2> QED BY <2>1, PlanAtEvaluation, SizeAssumption
          DEF Start, QueuesInv, HostInv, PassDone, Base, TypeOK, ExecTypeOK, Ins
<1>2. \A k \in Ins : k <= i /\ HasStream(k) => launched[k] = stream[k]
  BY <1>1, PlanAtEvaluation DEF QueuesInv, HostInv, LaunchedOnItsStream
<1>3. Earlier(i, stream[i]) \subseteq Done
  <2> SUFFICES ASSUME NEW p \in Earlier(i, stream[i]) PROVE p \in Done
    OBVIOUS
  <2>1. p \in Ins /\ p < i /\ stream[p] = stream[i] /\ HasStream(p)
    BY <1>1, SizeAssumption DEF Earlier, Ins, HasStream
  <2>2. launched[p] = launched[i]
    <3>1. p <= i /\ i <= i
      BY <2>1, SizeAssumption DEF Ins
    <3>2. launched[p] = stream[p] /\ launched[i] = stream[i]
      BY <1>1, <1>2, <2>1, <3>1, Zenon
    <3> QED BY <2>1, <3>2
  <2> QED BY <2>1, <2>2 DEF Start, Done
<1>4. Fired(Done, waits[i])
  <2> SUFFICES ASSUME NEW j \in Ins, record[j] \in waits[i] PROVE j \in Done
    BY DEF Fired
  <2>1. record[j] # NoEvent
    BY DEF Base, TypeOK, ModuleTypeOK, Events, NoEvent
  <2>2. \A k \in Ins : record[k] = record[j] => k = j
    BY <2>1 DEF Base, PassInv, EventsInv
  <2>3. PICK k \in 1..(i - 1) : record[k] = record[j]
    BY DEF Base, PassInv, WaitsInv
  <2>4. j < i
    BY <1>1, <2>2, <2>3, SizeAssumption DEF Ins
  <2>5. Awaits(i, j)
    BY <1>1, <2>2, <2>4 DEF Awaits
  <2> QED BY <1>1, <2>5
<1>5. Done \in SUBSET Ins /\ Closed(Done)
  BY DEF Closed, Done, QueuesInv, StreamInv, Started
<1>6. Fired(Done, known[i])
  BY <1>1, <1>3, <1>4, <1>5 DEF Base, PassInv, KnownInv
<1>7. ASSUME NEW k \in reads[i] PROVE k \in Done
  <2>1. k \in deps[i] /\ k \in Ins /\ k < i /\ HasStream(k) /\ deps[i] \subseteq Ins
    <3>1. reads[i] = deps[i] /\ reads[i] \subseteq 1..(i - 1)
      BY PlanAtEvaluation
    <3>2. HasStream(k) /\ deps[i] \subseteq Ins
      BY <1>7, <3>1, PlanFacts DEF Base, TypeOK, ModuleTypeOK
    <3> QED BY <1>1, <1>7, <3>1, <3>2
  <2>2. CASE stream[k] = stream[i]
    BY <1>1, <1>3, <2>1, <2>2 DEF Earlier, Ins
  <2>3. CASE stream[k] # stream[i]
    <3> DEFINE S == {m \in deps[i] : stream[m] = stream[k]}
    <3>1. PICK r \in S : \A m \in S : m <= r
      <4>1. S \in SUBSET Ins /\ S # {}
        BY <2>1
      <4> HIDE DEF S
      <4> QED BY <4>1, LastExists
    <3>2. r \in Ins /\ r \in OtherStream(i) /\ k <= r
      BY <2>1, <2>3, <3>1 DEF OtherStream, RecordedInstructions
    <3>3. r \in Done
      BY <1>1, <1>6, <3>2 DEF Base, PassInv, CoverInv, Fired
    <3>4. CASE k = r
      BY <3>3, <3>4
    <3>5. CASE k # r
      <4>1. k < r /\ r < i
        <5>1. r \in 1..(i - 1)
          BY <3>1, PlanFacts DEF Base, TypeOK, ModuleTypeOK
        <5> QED BY <1>1, <2>1, <3>2, <3>5, <5>1
      <4>2. launched[k] = launched[r]
        <5>1. HasStream(r) /\ stream[r] = stream[k] /\ r <= i /\ k <= i
          BY <1>1, <2>1, <3>1, <3>2, <4>1 DEF HasStream
        <5> QED BY <1>2, <2>1, <3>2, <5>1
      <4>3. status[k] = "done"
        BY <2>1, <3>2, <3>3, <4>1, <4>2 DEF QueuesInv, StreamInv, Started, Done
      <4> QED BY <2>1, <4>3 DEF Done
    <3> QED BY <3>4, <3>5
  <2> QED BY <2>2, <2>3
<1> QED BY <1>6, <1>7

(* A kernel that starts has its inputs complete, by the lemma above. *)
LEMMA StartStep ==
  ASSUME Base, QueuesInv, PassDone, NEW i \in Ins, Start(i), UNCHANGED <<moduleVars, passVars>>
  PROVE  QueuesInv'
<1>1. /\ status[i] = "queued" /\ status'[i] = "running"
      /\ \A k \in Ins : k # i => status'[k] = status[k]
      /\ UNCHANGED <<phase, run, host, cur, launched, hold>>
  BY DEF Start, Base, TypeOK, ExecTypeOK
<1>2. Done' = Done /\ \A k \in Ins : status'[k] = "done" <=> status[k] = "done"
  BY <1>1 DEF Done
<1>3. HostInv'
  <2>1. \A k \in Ins : {j \in Ins : Awaits(k, j)}' = {j \in Ins : Awaits(k, j)}
    BY EvaluationKeeps
  <2> QED BY <1>1, <2>1, EvaluationKeeps DEF QueuesInv, HostInv
<1>4. CurInv' /\ LaunchedOnItsStream'
  BY <1>1, EvaluationKeeps DEF QueuesInv, CurInv, LaunchedOnItsStream, CurrentSet, SetBefore
<1>5. Fired(Done, known[i]) /\ reads[i] \subseteq Done
  BY StartFindsInputs
<1>6. \A k \in Ins : Started(k)' <=> Started(k) \/ k = i
  BY <1>1 DEF Started
<1>7. StreamInv'
  <2>1. ASSUME NEW k \in Ins, Started(k) \/ k = i
        PROVE  /\ \A j \in Ins : j < k /\ launched[j] = launched[k] => status[j] = "done"
               /\ Fired(Done, known[k])
    BY <1>5, <2>1 DEF Start, QueuesInv, StreamInv
  <2>2. \A k \in Ins : Fired(Done, known[k])' <=> Fired(Done, known[k])
    BY <1>2, EvaluationKeeps DEF Fired
  <2> QED BY <1>1, <1>2, <1>6, <2>1, <2>2 DEF StreamInv
<1>8. InputsReady'
  BY <1>1, <1>2, <1>5, <1>6, EvaluationKeeps DEF QueuesInv, InputsReady
<1> QED BY <1>3, <1>4, <1>7, <1>8 DEF QueuesInv

(* Completing a kernel takes nothing from what others rely on. *)
LEMMA CompleteStep ==
  ASSUME Base, QueuesInv, NEW i \in Ins, Complete(i), UNCHANGED <<moduleVars, passVars>>
  PROVE  QueuesInv'
<1>1. /\ status[i] = "running" /\ status'[i] = "done"
      /\ \A k \in Ins : k # i => status'[k] = status[k]
      /\ UNCHANGED <<phase, run, host, cur, launched, hold>>
  BY DEF Complete, Base, TypeOK, ExecTypeOK
<1>2. /\ Done \subseteq Done'
      /\ \A k \in Ins : status[k] = "done" => status'[k] = "done"
      /\ \A k \in Ins : Started(k)' <=> Started(k)
  BY <1>1 DEF Done, Started
<1>3. HostInv'
  <2>1. \A k \in Ins : {j \in Ins : Awaits(k, j)}' = {j \in Ins : Awaits(k, j)}
    BY EvaluationKeeps
  <2> QED BY <1>1, <2>1, EvaluationKeeps DEF QueuesInv, HostInv
<1>4. CurInv' /\ LaunchedOnItsStream'
  BY <1>1, EvaluationKeeps DEF QueuesInv, CurInv, LaunchedOnItsStream, CurrentSet, SetBefore
<1>5. StreamInv'
  <2>1. \A k \in Ins : Fired(Done, known[k]) => Fired(Done, known[k])'
    BY <1>2, EvaluationKeeps DEF Fired
  <2> QED BY <1>1, <1>2, <2>1 DEF QueuesInv, StreamInv
<1>6. InputsReady'
  BY <1>1, <1>2, EvaluationKeeps DEF QueuesInv, InputsReady
<1> QED BY <1>3, <1>4, <1>5, <1>6 DEF QueuesInv

(* The end of an evaluation, whether the host waits for it or not. *)
LEMMA EndStep ==
  ASSUME Base, QueuesInv, phase = "run", host = N + 1, phase' = "ready",
         UNCHANGED <<run, host, cur, launched, hold, status>>, UNCHANGED <<moduleVars, passVars>>
  PROVE  QueuesInv'
<1>1. run > 0
  BY DEF QueuesInv, HostInv
<1>2. HostInv'
  <2>1. \A k \in Ins : {j \in Ins : Awaits(k, j)}' = {j \in Ins : Awaits(k, j)}
    BY EvaluationKeeps
  <2> QED BY <1>1, <2>1, EvaluationKeeps DEF QueuesInv, HostInv
<1>3. CurInv' /\ LaunchedOnItsStream'
  BY <1>1, EvaluationKeeps DEF QueuesInv, CurInv, LaunchedOnItsStream, CurrentSet, SetBefore
<1>4. StreamInv' /\ InputsReady'
  BY <1>1, EvaluationKeeps DEF QueuesInv, StreamInv, InputsReady, Started, Done, Fired
<1> QED BY <1>2, <1>3, <1>4 DEF QueuesInv

(* When @return, the last kernel, has completed, so has all that it reads, *)
(* and what that reads, and so on: all there is.                           *)
LEMMA ReturnIsLast ==
  ASSUME Base, QueuesInv, status[N] = "done", NEW i \in Ins, kernel[i]
  PROVE  status[i] = "done"
<1> DEFINE S == {k \in Ins : kernel[k] /\ status[k] # "done"}
<1> SUFFICES ASSUME S # {} PROVE FALSE
  OBVIOUS
<1>1. PICK m \in S : \A k \in S : k <= m
  <2>1. S \in SUBSET Ins
    OBVIOUS
  <2> HIDE DEF S
  <2> QED BY <2>1, LastExists
<1>2. PICK k \in Ins : kernel[k] /\ m \in reads[k]
  BY <1>1, PlanAtEvaluation
<1>3. m < k /\ m \in Nat /\ k \in Nat
  <2>1. reads[k] \subseteq 1..(k - 1) /\ k \in Nat
    BY PlanAtEvaluation
  <2> QED BY <1>2, <2>1
<1>4. status[k] = "done"
  BY <1>1, <1>2, <1>3
<1>5. m \in Done
  BY <1>2, <1>4 DEF QueuesInv, InputsReady, Started
<1> QED BY <1>1, <1>5 DEF Done

(* @return has been launched last, on the stream that is then current. *)
LEMMA ReturnIsCurrent ==
  ASSUME Base, QueuesInv, phase = "run", host = N + 1
  PROVE  cur = launched[N] /\ N \in Ins /\ kernel[N]
<1>1. host > 1 /\ kernel[host - 1] /\ host - 1 = N /\ N \in Ins
  BY PlanAtEvaluation, SizeAssumption
<1> QED BY <1>1 DEF QueuesInv, CurInv

-----------------------------------------------------------------------------
(* Every step of the system keeps the invariant. *)
LEMMA QueuesStep == Base /\ QueuesInv /\ [Next]_vars => QueuesInv'
<1> SUFFICES ASSUME Base, QueuesInv, [Next]_vars PROVE QueuesInv'
  OBVIOUS
<1>1. CASE Compile
  BY <1>1, CompileStep
<1>2. CASE Evaluate
  <2>1. PassDone /\ ExecNext /\ UNCHANGED <<moduleVars, passVars>>
    BY <1>2 DEF Evaluate
  <2>2. CASE Finish
    BY <2>1, <2>2, EndStep DEF Finish
  <2>3. CASE Host /\ ~ Finish
    BY <2>1, <2>3, FinalizeStep, BeginStep, LaunchStep, HostOnlyStep DEF Host
  <2>4. ASSUME NEW i \in Ins, Start(i) \/ Complete(i) PROVE QueuesInv'
    BY <2>1, <2>4, StartStep, CompleteStep
  <2> QED BY <2>1, <2>2, <2>3, <2>4 DEF ExecNext
<1>3. CASE UNCHANGED vars
  <2>1. UNCHANGED <<moduleVars, passVars>> /\ UNCHANGED execVars
    BY <1>3 DEF vars
  <2>2. HostInv'
    <3>1. \A k \in Ins : {j \in Ins : Awaits(k, j)}' = {j \in Ins : Awaits(k, j)}
      BY <2>1, EvaluationKeeps
    <3> QED BY <2>1, <3>1, EvaluationKeeps DEF QueuesInv, HostInv, execVars
  <2>3. CurInv' /\ LaunchedOnItsStream'
    BY <2>1, EvaluationKeeps
    DEF QueuesInv, CurInv, LaunchedOnItsStream, CurrentSet, SetBefore, execVars
  <2>4. StreamInv' /\ InputsReady'
    BY <2>1, EvaluationKeeps
    DEF QueuesInv, StreamInv, InputsReady, Started, Done, Fired, execVars
  <2> QED BY <2>2, <2>3, <2>4 DEF QueuesInv
<1> QED BY <1>1, <1>2, <1>3 DEF Next

(* Once an evaluation has ended nothing moves before the next begins. *)
LEMMA FinishStep == Inv /\ [Next]_vars => FinishCoversAllStreams'
<1> SUFFICES ASSUME Inv, [Next]_vars, (phase = "ready" /\ run > 0)',
                    NEW i \in Ins, kernel'[i]
             PROVE  status'[i] = "done"
  BY DEF FinishCoversAllStreams
<1>0. Base /\ QueuesInv /\ FinishCoversAllStreams
  BY DEF Inv, ExecInv, Base
<1>1. kernel' = kernel
  BY PlanUnchanged
  DEF Next, Compile, PassNext, NoConcurrency, Skip, Sched, WaitOn, Leave, Evaluate, vars, moduleVars
<1>2. CASE Evaluate /\ Finish
  <2>1. status[N] = "done" /\ status' = status
    BY <1>0, <1>2, ReturnIsCurrent DEF Finish
  <2> QED BY <1>0, <1>1, <2>1, ReturnIsLast
<1>3. CASE ~ (Evaluate /\ Finish)
  <2>1. phase = "ready" /\ run > 0
    BY <1>0, <1>3
    DEF Next, Compile, Evaluate, ExecNext, Host, Finalize, Begin, Launch, HostOnly, Start, Complete,
        vars, execVars, QueuesInv, HostInv
  <2>2. status[i] = "done"
    BY <1>0, <1>1, <2>1 DEF FinishCoversAllStreams
  <2>3. status'[i] = status[i]
    BY <1>0, <1>1, <1>3, <2>1, <2>2
    DEF Next, Compile, Evaluate, ExecNext, Host, Finalize, Begin, Launch, HostOnly, Start, Complete,
        vars, execVars, Base, TypeOK, ExecTypeOK
  <2> QED BY <2>2, <2>3
<1> QED BY <1>2, <1>3

LEMMA StepInv == Inv /\ [Next]_vars => Inv'
BY BaseStep, QueuesStep, FinishStep DEF Inv, ExecInv, Base

(***************************************************************************)
(* The inductive invariant holds for every number of instructions, streams *)
(* and evaluations, every flat module and every assignment of streams.     *)
(***************************************************************************)
THEOREM InvHolds == ASSUME FlatPlans PROVE Spec => []Inv
<1>1. Init => Inv
  BY InitInv
<1>2. Inv /\ [Next]_vars => Inv'
  BY StepInv
<1> QED BY <1>1, <1>2, PTL DEF Spec

(***************************************************************************)
(* No kernel of a scheduled module starts before the kernels it reads have *)
(* completed, for every module without submodules, number of streams and   *)
(* assignment of streams.                                                  *)
(***************************************************************************)
THEOREM RaceFreedom == ASSUME FlatPlans PROVE Spec => []InputsReady
<1>1. Inv => InputsReady
  BY DEF Inv, ExecInv, QueuesInv
<1> QED BY <1>1, InvHolds, PTL

(***************************************************************************)
(* When finish returns every kernel of the evaluation has completed.       *)
(***************************************************************************)
THEOREM FinishIsComplete == ASSUME FlatPlans PROVE Spec => []FinishCoversAllStreams
<1>1. Inv => FinishCoversAllStreams
  BY DEF Inv, ExecInv, QueuesInv
<1> QED BY <1>1, InvHolds, PTL

(***************************************************************************)
(* Every kernel is launched on the stream the pass gave it.                *)
(***************************************************************************)
THEOREM StreamsAsPlanned == ASSUME FlatPlans PROVE Spec => []LaunchedOnItsStream
<1>1. Inv => LaunchedOnItsStream
  BY DEF Inv, ExecInv, QueuesInv
<1> QED BY <1>1, InvHolds, PTL

(***************************************************************************)
(* Each wait names an event that one earlier instruction records; this     *)
(* needs no assumption on the modules.                                     *)
(***************************************************************************)
THEOREM WaitsAreRecorded == Spec => []WaitsFollowRecords
<1>1. Init => TypeOK /\ PassInv
  BY InitTypeOK, PassInvInit
<1>2. TypeOK /\ PassInv /\ [Next]_vars => (TypeOK /\ PassInv)'
  BY StepTypeOK, PassInvStep
<1>3. TypeOK /\ PassInv => WaitsFollowRecords
  <2> SUFFICES ASSUME TypeOK, PassInv, NEW i \in Ins, NEW e \in waits[i]
               PROVE  \E j \in 1..(i - 1) : /\ record[j] = e
                                            /\ \A k \in Ins : record[k] = e => k = j
    BY DEF WaitsFollowRecords
  <2>1. PICK j \in 1..(i - 1) : record[j] = e
    BY DEF PassInv, WaitsInv
  <2>2. j \in Ins /\ e # NoEvent
    BY SizeAssumption DEF TypeOK, ModuleTypeOK, Events, NoEvent, Ins
  <2> QED BY <2>1, <2>2 DEF PassInv, EventsInv
<1> QED BY <1>1, <1>2, <1>3, PTL DEF Spec

-----------------------------------------------------------------------------
(* Whatever an instruction on a stream waits for is known to the stream.   *)
WaitedInv ==
  /\ \A i \in Ins : HasStream(i) => waits[i] \subseteq waitedFor[stream[i]]
  /\ NoRepeatedWait

(* A wait is inserted only for an event the stream does not know.          *)
LEMMA WaitedStep == TypeOK /\ PassInv /\ WaitedInv /\ [Next]_vars => WaitedInv'
<1> SUFFICES ASSUME TypeOK, PassInv, WaitedInv, [Next]_vars PROVE WaitedInv'
  OBVIOUS
<1>0. /\ IsPlan(plan) /\ at \in 1..(N + 1) /\ waits \in [Ins -> SUBSET Events]
      /\ waitedFor \in [Streams -> SUBSET Events]
      /\ \A i \in Ins : HasStream(i) => stream[i] \in Streams
  BY PlanFacts DEF TypeOK, ModuleTypeOK, PassTypeOK, HasStream
<1>1. CASE UNCHANGED <<plan, waits, waitedFor>>
  BY <1>1 DEF WaitedInv, NoRepeatedWait, HasStream, stream
<1>2. ASSUME NEW j \in Ins, WaitOn(j) PROVE WaitedInv'
  <2> DEFINE s == stream[at]
             w == IF record[j] = NoEvent THEN waitId ELSE record[j]
  <2>1. /\ at \in Ins /\ HasStream(at) /\ pc = "merge" /\ s \in Streams
        /\ \A k \in Ins : k > at => waits[k] = {}
    BY <1>0, <1>2 DEF WaitOn, TypeOK, PassTypeOK, PassInv, LoopInv, Entered, Ins
  <2>2. /\ waits' = IF w \in waitedFor[s] THEN waits ELSE [waits EXCEPT ![at] = @ \cup {w}]
        /\ waitedFor' = [waitedFor EXCEPT ![s] = @ \cup {w} \cup ins2waited[j]]
        /\ plan' = plan
    BY <1>2 DEF WaitOn
  <2>3. stream' = stream /\ \A i \in Ins : HasStream(i)' <=> HasStream(i)
    BY <2>2 DEF stream, HasStream
  <2> HIDE DEF s, w
  <2>4. /\ \A i \in Ins : i # at => waits'[i] = waits[i]
        /\ waits'[at] = waits[at] \/ (w \notin waitedFor[s] /\ waits'[at] = waits[at] \cup {w})
        /\ \A t \in Streams : waitedFor[t] \subseteq waitedFor'[t]
        /\ w \in waitedFor'[s]
    BY <1>0, <2>1, <2>2
  <2>5. ASSUME NEW i \in Ins, HasStream(i) PROVE waits'[i] \subseteq waitedFor'[stream[i]]
    <3>1. waits[i] \subseteq waitedFor[stream[i]] /\ stream[i] \in Streams
      BY <1>0, <2>5 DEF WaitedInv
    <3> QED BY <2>4, <3>1 DEF s
  <2>6. ASSUME NEW i \in Ins, NEW k \in Ins, i < k, HasStream(i), stream[i] = stream[k]
        PROVE  waits'[i] \cap waits'[k] = {}
    <3>1. waits[i] \cap waits[k] = {} /\ waits[i] \subseteq waitedFor[stream[i]]
      BY <2>6 DEF WaitedInv, NoRepeatedWait
    <3>2. CASE k = at
      BY <2>4, <2>6, <3>1, <3>2 DEF s, Ins
    <3>3. CASE i = at
      <4>1. waits'[k] = {}
        BY <2>1, <2>4, <2>6, <3>3 DEF Ins
      <4> QED BY <4>1
    <3>4. CASE k # at /\ i # at
      BY <2>4, <3>1, <3>4
    <3> QED BY <3>2, <3>3, <3>4
  <2> QED BY <2>3, <2>5, <2>6 DEF WaitedInv, NoRepeatedWait
<1>3. CASE ~ \E j \in Ins : WaitOn(j)
  <2>1. UNCHANGED <<plan, waits, waitedFor>>
    BY <1>3 DEF Next, vars, Compile, Evaluate, PassNext, NoConcurrency, Skip, Sched, Leave,
                moduleVars, passVars
  <2> QED BY <1>1, <2>1
<1> QED BY <1>2, <1>3

(***************************************************************************)
(* No stream waits for an event twice, with submodules or without.         *)
(***************************************************************************)
THEOREM EventsWaitedOnce == Spec => []NoRepeatedWait
<1>1. Init => TypeOK /\ PassInv /\ WaitedInv
  <2>1. Init => WaitedInv
    BY DEF Init, ModuleInit, WaitedInv, NoRepeatedWait
  <2> QED BY <2>1, InitTypeOK, PassInvInit
<1>2. TypeOK /\ PassInv /\ WaitedInv /\ [Next]_vars => (TypeOK /\ PassInv /\ WaitedInv)'
  BY StepTypeOK, PassInvStep, WaitedStep
<1>3. WaitedInv => NoRepeatedWait
  BY DEF WaitedInv
<1> QED BY <1>1, <1>2, <1>3, PTL DEF Spec

-----------------------------------------------------------------------------
(***************************************************************************)
(* The scheduled module implements the dataflow specification.             *)
(***************************************************************************)
THEOREM Refinement == ASSUME FlatPlans PROVE Spec => ImplementsDataflow
<1>1. Init => Graph!Init
  <2> SUFFICES ASSUME Init PROVE Graph!Init
    OBVIOUS
  <2>1. reads \in [Ins -> SUBSET Ins]
    BY InitTypeOK, PlanFacts DEF TypeOK, ModuleTypeOK
  <2>2. Running = {} /\ Done = {}
    BY DEF Init, ExecInit, Running, Done
  <2> QED BY <2>1, <2>2 DEF Graph!Init, Init, ExecInit
<1>2. Inv /\ Inv' /\ [Next]_vars => [Graph!Next]_(Graph!dataflowVars)
  <2> SUFFICES ASSUME Inv, Inv', [Next]_vars
               PROVE  Graph!Next \/ UNCHANGED Graph!dataflowVars
    OBVIOUS
  <2> USE DEF Inv, ExecInv, QueuesInv
  <2>0. UNCHANGED plan => /\ reads' = reads /\ kernel' = kernel
                          /\ {i \in Ins : kernel[i]}' = {i \in Ins : kernel[i]}
    BY PlanUnchanged
  <2>1. CASE Compile
    <3>1. UNCHANGED plan /\ UNCHANGED execVars
      BY <2>1 DEF Compile, PassNext, NoConcurrency, Skip, Sched, WaitOn, Leave, moduleVars
    <3> QED BY <2>0, <3>1 DEF Graph!dataflowVars, execVars, Running, Done
  <2>2. CASE Evaluate
    <3>1. UNCHANGED <<moduleVars, passVars>> /\ UNCHANGED plan /\ ExecNext /\ PassDone
      BY <2>2 DEF Evaluate, moduleVars
    <3>2. CASE Finalize
      BY <2>0, <3>1, <3>2 DEF Finalize, Graph!dataflowVars, Running, Done
    <3>3. CASE Begin
      <4>1. Running = {}
        BY <3>3, PlanAtEvaluation, NothingLaunched
           DEF Begin, Running, HostInv, FinishCoversAllStreams, Base
      <4>2. Running' = {} /\ Done' = {}
        BY <3>3 DEF Begin, Running, Done
      <4> QED BY <2>0, <3>1, <3>3, <4>1, <4>2 DEF Begin, Graph!Begin, Graph!Next
    <3>4. CASE Launch
      <4>1. status[host] = "none" /\ host \in Ins
        BY <3>4, PlanAtEvaluation DEF Launch, HostInv, Base
      <4>2. Running' = Running /\ Done' = Done
        BY <3>4, <4>1 DEF Launch, Running, Done, TypeOK, ExecTypeOK
      <4> QED BY <2>0, <3>1, <3>4, <4>2 DEF Launch, Graph!dataflowVars
    <3>5. CASE HostOnly
      BY <2>0, <3>1, <3>5 DEF HostOnly, Graph!dataflowVars, Running, Done
    <3>6. CASE Finish
      <4>1. Running' = Running /\ Done' = Done /\ run > 0 /\ run' = run
        BY <3>6 DEF Finish, Running, Done, HostInv
      <4>2. \A i \in Ins : kernel[i] <=> status[i] = "done"
        BY <3>1, <3>6, <4>1, EvaluationKeeps DEF Finish, FinishCoversAllStreams, HostInv
      <4>3. Running = {} /\ Done = {i \in Ins : kernel[i]}
        BY <4>2 DEF Running, Done, HostInv
      <4> QED BY <2>0, <3>1, <3>6, <4>1, <4>3 DEF Finish, Graph!End, Graph!Next
    <3>7. ASSUME NEW i \in Ins, Start(i) PROVE Graph!Start(i)
      <4>1. phase = "run" /\ kernel[i]
        <5>1. status[i] = "queued" /\ status[i] # "none" /\ i \in Nat
          BY <3>7 DEF Start, Ins
        <5>2. kernel[i] /\ i < host /\ host # 1
          BY <5>1, SizeAssumption DEF HostInv, Ins
        <5> QED BY <5>1, <5>2 DEF HostInv, FinishCoversAllStreams, TypeOK, ExecTypeOK
      <4>2. Running' = Running \cup {i} /\ Done' = Done /\ i \notin Running \cup Done
        BY <3>7 DEF Start, Running, Done, TypeOK, ExecTypeOK
      <4>3. reads[i] \subseteq Done
        BY <3>1, <3>7, StartFindsInputs DEF Base
      <4> QED BY <2>0, <3>1, <3>7, <4>1, <4>2, <4>3 DEF Start, Graph!Start
    <3>8. ASSUME NEW i \in Ins, Complete(i) PROVE Graph!Complete(i)
      <4>1. Running' = Running \ {i} /\ Done' = Done \cup {i} /\ i \in Running
        BY <3>8 DEF Complete, Running, Done, TypeOK, ExecTypeOK
      <4> QED BY <2>0, <3>1, <3>8, <4>1 DEF Complete, Graph!Complete
    <3> QED BY <3>1, <3>2, <3>3, <3>4, <3>5, <3>6, <3>7, <3>8 DEF ExecNext, Host, Graph!Next
  <2>3. CASE UNCHANGED vars
    BY <2>0, <2>3 DEF vars, moduleVars, execVars, Graph!dataflowVars, Running, Done
  <2> QED BY <2>1, <2>2, <2>3 DEF Next
<1> QED BY <1>1, <1>2, InvHolds, PTL DEF Spec, ImplementsDataflow, Graph!Spec
=============================================================================

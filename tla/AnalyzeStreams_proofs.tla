----------------------- MODULE AnalyzeStreams_proofs -----------------------
(***************************************************************************)
(* What analyze_streams does not report does not race.  On hand written    *)
(* modules the clocks of the analysis are compared with what the streams   *)
(* do; on scheduled ones no kernel races at all (ScheduledExec_proofs).    *)
(*                                                                         *)
(* As in ScheduledExecInv, "before" is a matter of sets closed under what  *)
(* streams and events order: the kernels completed, and one that starts,   *)
(* are such a set, and a clock covers only members of every such set.      *)
(***************************************************************************)
EXTENDS AnalyzeStreams, ScheduledExec_proofs, FiniteSetTheorems

Clocks == [Streams -> Nat]

(* i follows j on its stream, or waits for what is recorded after j. *)
Follows(i, j) == kernel[j] /\ j < i /\ (ModelStream(j) = ModelStream(i) \/ Awaits(i, j))

Ordered(D) == \A i \in D : \A j \in Ins : Follows(i, j) => j \in D

-----------------------------------------------------------------------------
(* What the analysis needs of a module: kernels are on streams. *)
ModelInv ==
  /\ setStream \in [Ins -> BOOLEAN] /\ waits \in [Ins -> SUBSET EventIds]
  /\ record \in [Ins -> EventIds \cup {NoEvent}]
  /\ \A i \in Ins : record[i] # NoEvent => kernel[i]
  /\ \A i \in Ins : kernel[i] => ModelStream(i) \in Streams
  /\ \A i \in Ins : reads[i] \subseteq 1..(i - 1) /\ \A j \in reads[i] : kernel[j]

(* A hand written module: it does not change. *)
ModuleInv ==
  /\ at = N + 1 /\ pc = "visit"
  /\ IsModule([plan |-> plan, setStream |-> setStream, waits |-> waits, record |-> record])

Visited(i) == kernel[i] /\ (stage = "visit" => i < scan)

ClockTypeOK ==
  /\ stage \in {"visit", "check", "analyzed", "thrown"}
  /\ scan \in 1..(N + 1)
  /\ vclock \in [Streams -> Clocks]
  /\ events \in [EventIds -> Clocks \cup {NoClock}]
  /\ timestamp \in [Ins -> Clocks \cup {NoClock}]
  /\ \A i \in Ins : Visited(i) => stage = "thrown" \/ timestamp[i] \in Clocks

(* No clock is ahead of a stream's own count. *)
OwnCountInv ==
  \A t \in Streams :
    /\ \A s \in Streams : vclock[s][t] <= vclock[t][t]
    /\ \A e \in EventIds : events[e] # NoClock => events[e][t] <= vclock[t][t]
    /\ \A i \in Ins : Visited(i) => timestamp[i][t] <= vclock[t][t]

(* The kernels a clock is not behind of are in D. *)
Covers(D, clock) ==
  \A j \in Ins : Visited(j) /\ timestamp[j][ModelStream(j)] <= clock[ModelStream(j)] => j \in D

OnStream(s) == {j \in Ins : Visited(j) /\ ModelStream(j) = s}

LastRecord(e, k) ==
  /\ Visited(k) /\ record[k] = e
  /\ \A l \in Ins : Visited(l) /\ k < l => record[l] # e

CoverageInv ==
  /\ \A D \in SUBSET Ins : Ordered(D) =>
       /\ \A i \in D : Visited(i) => Covers(D, timestamp[i])
       /\ \A s \in Streams : OnStream(s) \subseteq D => Covers(D, vclock[s])
  /\ \A e \in EventIds : events[e] # NoClock =>
       \E k \in Ins : /\ LastRecord(e, k)
                      /\ \A D \in SUBSET Ins : Ordered(D) /\ k \in D => Covers(D, events[e])

Upto(x, y) == \A t \in Streams : x[t] <= y[t]

(* What an instruction directly follows is behind it, most of all where it *)
(* runs, and no clock of a stream or an event is behind what it tells of.  *)
DirectInv ==
  /\ \A i, j \in Ins : Visited(i) /\ Follows(i, j) =>
       /\ Upto(timestamp[j], timestamp[i])
       /\ timestamp[j][ModelStream(i)] < timestamp[i][ModelStream(i)]
  /\ \A j \in Ins : Visited(j) => Upto(timestamp[j], vclock[ModelStream(j)])
  /\ \A e \in EventIds : \A k \in Ins : LastRecord(e, k) =>
       events[e] # NoClock /\ Upto(timestamp[k], events[e])

(* An instruction that is past the second loop and not reported does not race. *)
ReportedInv ==
  \A i \in Ins : /\ kernel[i]
                 /\ stage = "analyzed" \/ (stage = "check" /\ i < scan)
                 /\ \A j \in Ins : <<i, j>> \notin races
                 => Racing(i) = {}

AnalysisInv == ClockTypeOK /\ (stage # "thrown" => OwnCountInv /\ CoverageInv /\ DirectInv /\ ReportedInv)

-----------------------------------------------------------------------------
(* The set_stream the host has come past is in force. *)
InForce(i) == CHOOSE q \in Ins : CurrentSet(i, q)

CurrentInv == phase = "run" /\ SetBefore(host) # {} => cur = stream[InForce(host)]

(* What has been launched is where the model puts it, and what has started *)
(* found all it follows done.                                              *)
EvaluationInv ==
  /\ status \in [Ins -> {"none", "queued", "running", "done"}]
  /\ launched \in [Ins -> Streams \cup {NoStream}]
  /\ hold \in [Ins -> SUBSET Ins]
  /\ host \in 1..(N + 1)
  /\ CurrentInv
  /\ \A i \in Ins : status[i] # "none" <=> kernel[i] /\ i < host
  /\ \A i \in Ins : status[i] # "none" =>
       launched[i] = ModelStream(i) /\ hold[i] = {j \in Ins : Awaits(i, j)}
  /\ \A i, j \in Ins : Started(i) /\ Follows(i, j) => status[j] = "done"

WrittenInv ==
  /\ ModuleInv /\ AnalysisInv /\ EvaluationInv
  /\ stage # "analyzed" => host = 1

-----------------------------------------------------------------------------
(* What a module analysed is, in the words of the specification. *)
LEMMA ModuleFacts ==
  ASSUME ModuleInv
  PROVE  /\ setStream \in [Ins -> BOOLEAN] /\ waits \in [Ins -> SUBSET EventIds]
         /\ record \in [Ins -> EventIds \cup {NoEvent}]
         /\ kernel \in [Ins -> BOOLEAN] /\ stream \in [Ins -> Streams \cup {NoStream}]
         /\ \A i \in Ins : setStream[i] => kernel[i] /\ stream[i] \in Streams
         /\ \A i \in Ins : record[i] # NoEvent => kernel[i]
         /\ \A i \in Ins : kernel[i] => \E q \in 1..i : setStream[q]
         /\ \A i \in Ins : reads[i] \subseteq 1..(i - 1) /\ \A j \in reads[i] : kernel[j]
         /\ N \in Nat \ {0} /\ 0 \in Streams /\ Ins \subseteq Nat
<1>1. IsPlan(plan)
  BY DEF ModuleInv, IsModule
<1>2. \A i \in Ins : setStream[i] => kernel[i] /\ stream[i] \in Streams
  BY <1>1 DEF ModuleInv, IsModule, IsPlan, kernel, stream
<1>3. /\ kernel \in [Ins -> BOOLEAN] /\ stream \in [Ins -> Streams \cup {NoStream}]
      /\ \A i \in Ins : reads[i] \subseteq 1..(i - 1)
  BY <1>1 DEF IsPlan, kernel, stream, reads
<1>4. /\ setStream \in [Ins -> BOOLEAN] /\ waits \in [Ins -> SUBSET EventIds]
      /\ record \in [Ins -> EventIds \cup {NoEvent}]
      /\ \A i \in Ins : record[i] # NoEvent => kernel[i]
      /\ \A i \in Ins : kernel[i] => \E q \in 1..i : setStream[q]
      /\ \A i \in Ins : \A j \in reads[i] : kernel[j]
  BY DEF ModuleInv, IsModule, kernel, reads
<1>5. N \in Nat \ {0} /\ 0 \in Streams /\ Ins \subseteq Nat
  BY SizeAssumption DEF Streams, Ins
<1> QED BY <1>2, <1>3, <1>4, <1>5

(* A kernel is on some stream: that of the set_stream at or before it. *)
LEMMA KernelsOnStreams ==
  ASSUME ModuleInv, NEW i \in Ins, kernel[i]
  PROVE  /\ ModelStream(i) \in Streams
         /\ ~ setStream[i] => SetBefore(i) # {}
<1>1. ~ setStream[i] => SetBefore(i) # {}
  <2>1. PICK q \in 1..i : setStream[q]
    BY ModuleFacts
  <2> QED BY <2>1, SizeAssumption DEF SetBefore, Ins
<1>2. CASE setStream[i]
  BY <1>2, ModuleFacts DEF ModelStream
<1>3. CASE ~ setStream[i]
  <2> DEFINE c == CHOOSE q \in Ins : CurrentSet(i, q)
  <2>1. i \in 1..(N + 1)
    BY SizeAssumption DEF Ins
  <2>2. c \in Ins /\ CurrentSet(i, c)
    BY <1>1, <1>3, <2>1, CurrentSetExists
  <2>3. setStream[c]
    BY <2>2 DEF CurrentSet, SetBefore
  <2>4. ModelStream(i) = stream[c]
    BY <1>1, <1>3 DEF ModelStream
  <2> HIDE DEF c
  <2> QED BY <1>1, <1>3, <2>2, <2>3, <2>4, ModuleFacts
<1> QED BY <1>1, <1>2, <1>3

(* A hand written module is one to analyse. *)
LEMMA ModuleIsModel == ModuleInv => ModelInv
  BY ModuleFacts, KernelsOnStreams DEF ModelInv

(* The analysis and the evaluation do not change the module. *)
LEMMA ModuleStays ==
  ASSUME UNCHANGED <<plan, setStream, waits, record>>
  PROVE  /\ kernel' = kernel /\ stream' = stream /\ reads' = reads
         /\ \A i : ModelStream(i)' = ModelStream(i)
         /\ \A i, j \in Ins : Awaits(i, j)' <=> Awaits(i, j)
         /\ \A i, j \in Ins : Follows(i, j)' <=> Follows(i, j)
         /\ \A D \in SUBSET Ins : Ordered(D)' <=> Ordered(D)
         /\ \A i, q : CurrentSet(i, q)' <=> CurrentSet(i, q)
         /\ \A i : SetBefore(i)' = SetBefore(i)
<1>1. kernel' = kernel /\ stream' = stream /\ reads' = reads
  BY DEF kernel, stream, reads
<1>2. \A i : SetBefore(i)' = SetBefore(i)
  BY DEF SetBefore
<1>3. \A i, q : CurrentSet(i, q)' <=> CurrentSet(i, q)
  BY <1>2 DEF CurrentSet
<1>4. \A i : ModelStream(i)' = ModelStream(i)
  BY <1>1, <1>2, <1>3 DEF ModelStream, CurrentSet, SetBefore
<1>5. \A i, j \in Ins : Awaits(i, j)' <=> Awaits(i, j)
  BY DEF Awaits
<1>6. \A i, j \in Ins : Follows(i, j)' <=> Follows(i, j)
  BY <1>1, <1>4, <1>5 DEF Follows
<1>7. \A D \in SUBSET Ins : Ordered(D)' <=> Ordered(D)
  BY <1>6 DEF Ordered
<1> QED BY <1>1, <1>2, <1>3, <1>4, <1>5, <1>6, <1>7

-----------------------------------------------------------------------------
(* The stream that is current when the host launches a kernel.             *)
LEMMA LaunchedAsModelled ==
  ASSUME ModuleInv, EvaluationInv, Launch
  PROVE  cur' = ModelStream(host)
<1>1. phase = "run" /\ host \in Ins /\ kernel[host]
      /\ cur' = IF setStream[host] THEN stream[host] ELSE cur
  BY DEF Launch
<1>2. CASE setStream[host]
  BY <1>1, <1>2 DEF ModelStream
<1>3. CASE ~ setStream[host]
  <2>1. SetBefore(host) # {}
    BY <1>1, <1>3, KernelsOnStreams
  <2> QED BY <1>1, <1>3, <2>1 DEF EvaluationInv, CurrentInv, InForce, ModelStream
<1> QED BY <1>2, <1>3

(* The set_stream in force after the host has come past an instruction.    *)
LEMMA SetPassed ==
  ASSUME ModuleInv, NEW i \in Ins
  PROVE  /\ setStream[i] => InForce(i + 1) = i
         /\ ~ setStream[i] => SetBefore(i + 1) = SetBefore(i)
         /\ ~ setStream[i] => InForce(i + 1) = InForce(i)
<1>1. i \in Nat /\ i >= 1 /\ 1..(i + 1 - 1) = 1..(i - 1) \cup {i}
  BY SizeAssumption DEF Ins
<1>2. ASSUME ~ setStream[i]
      PROVE  /\ SetBefore(i + 1) = SetBefore(i)
             /\ InForce(i + 1) = InForce(i)
  <2>1. SetBefore(i + 1) = SetBefore(i)
    BY <1>1, <1>2 DEF SetBefore
  <2>2. \A q \in Ins : CurrentSet(i + 1, q) <=> CurrentSet(i, q)
    BY <2>1 DEF CurrentSet
  <2> QED BY <2>1, <2>2 DEF InForce
<1>3. ASSUME setStream[i]
      PROVE  InForce(i + 1) = i
  <2>1. i \in SetBefore(i + 1) /\ \A r \in SetBefore(i + 1) : r \in Nat /\ r <= i
    BY <1>1, <1>3 DEF SetBefore
  <2>2. \A q \in Ins : CurrentSet(i + 1, q) <=> q = i
    BY <1>1, <2>1 DEF CurrentSet
  <2> QED BY <2>2 DEF InForce
<1> QED BY <1>2, <1>3

(* CurrentInv of the next state, with the host at h.                       *)
LEMMA CurrentNext ==
  ASSUME UNCHANGED <<plan, setStream, waits, record>>, NEW h, host' = h
  PROVE  CurrentInv' <=>
           (phase' = "run" /\ SetBefore(h) # {} => cur' = stream[InForce(h)])
<1>1. stream' = stream /\ SetBefore(host)' = SetBefore(h)
  BY ModuleStays DEF SetBefore
<1>2. \A q \in Ins : CurrentSet(host, q)' <=> CurrentSet(h, q)
  BY <1>1 DEF CurrentSet, SetBefore
<1>3. InForce(host)' = InForce(h)
  BY <1>2 DEF InForce
<1> QED BY <1>1, <1>3 DEF CurrentInv

(* A kernel starts when all it follows is done.                            *)
LEMMA StartsInOrder ==
  ASSUME ModuleInv, EvaluationInv, NEW i \in Ins, Start(i)
  PROVE  kernel[i] /\ i < host /\ \A j \in Ins : Follows(i, j) => status[j] = "done"
<1>1. /\ status[i] = "queued" /\ hold[i] \subseteq Done
      /\ \A j \in Ins : j < i /\ launched[j] = launched[i] => status[j] = "done"
  BY DEF Start
<1>2. kernel[i] /\ i < host /\ launched[i] = ModelStream(i) /\ hold[i] = {j \in Ins : Awaits(i, j)}
  BY <1>1 DEF EvaluationInv
<1>3. ASSUME NEW j \in Ins, Follows(i, j) PROVE status[j] = "done"
  <2>1. kernel[j] /\ j < i /\ j < host
    BY <1>2, <1>3 DEF Follows, EvaluationInv, Ins
  <2>2. launched[j] = ModelStream(j)
    BY <2>1 DEF EvaluationInv
  <2> QED BY <1>1, <1>2, <1>3, <2>1, <2>2 DEF Follows, Done
<1> QED BY <1>2, <1>3

(* Evaluation keeps what it has launched in order.                         *)
LEMMA EvaluationStep ==
  ASSUME ModuleInv, EvaluationInv, ExecNext, UNCHANGED <<plan, setStream, waits, record>>
  PROVE  EvaluationInv'
<1> USE ModuleStays DEF EvaluationInv
<1>1. CASE Finalize
  BY <1>1 DEF Finalize, CurrentInv, Started
<1>2. CASE Begin
  <2>1. host' = 1 /\ SetBefore(1) = {} /\ cur' = cur
    BY <1>2 DEF Begin, SetBefore
  <2>2. CurrentInv'
    BY <2>1 DEF CurrentInv
  <2>3. \A i \in Ins : status'[i] = "none" /\ launched'[i] = NoStream /\ ~ (i < host')
    BY <1>2, <2>1, SizeAssumption DEF Begin, Ins
  <2>4. /\ status' = [i \in Ins |-> "none"] /\ launched' = [i \in Ins |-> NoStream]
        /\ hold' = [i \in Ins |-> {}] /\ host' \in 1..(N + 1)
    BY <1>2, <2>1, SizeAssumption DEF Begin
  <2> QED BY <2>2, <2>3, <2>4 DEF Started
<1>3. CASE Launch
  <2>1. /\ phase = "run" /\ phase' = "run" /\ host \in Ins /\ kernel[host] /\ host' = host + 1
        /\ status' = [status EXCEPT ![host] = "queued"]
        /\ launched' = [launched EXCEPT ![host] = cur']
        /\ hold' = [hold EXCEPT ![host] = {j \in Ins : Awaits(host, j)}]
        /\ cur' = IF setStream[host] THEN stream[host] ELSE cur
    BY <1>3 DEF Launch
  <2>2. cur' = ModelStream(host) /\ cur' \in Streams
    BY <1>3, <2>1, LaunchedAsModelled, KernelsOnStreams
  <2>3. status[host] = "none"
    BY <2>1 DEF Ins
  <2>4. host' \in 1..(N + 1) /\ host' = host + 1 /\ \A i \in Ins : i < host' <=> (i < host \/ i = host)
    BY <2>1, SizeAssumption DEF Ins
  <2>5. CurrentInv'
    <3>1. PICK h \in Ins : h = host
      BY <2>1
    <3>2. h + 1 = host'
      BY <2>1, <3>1
    <3>3. CASE setStream[h]
      BY <2>1, <3>1, <3>2, <3>3, SetPassed, CurrentNext
    <3>4. CASE ~ setStream[h]
      BY <2>1, <3>1, <3>2, <3>4, SetPassed, CurrentNext DEF CurrentInv
    <3> QED BY <3>3, <3>4
  <2>6. \A i \in Ins : status'[i] # "none" <=> kernel[i] /\ i < host'
    BY <2>1, <2>3, <2>4
  <2>7. \A i \in Ins : status'[i] # "none" =>
          launched'[i] = ModelStream(i) /\ hold'[i] = {j \in Ins : Awaits(i, j)}
    BY <2>1, <2>2, <2>3
  <2>8. ASSUME NEW i \in Ins, NEW j \in Ins, Started(i)', Follows(i, j) PROVE status'[j] = "done"
    <3>1. i # host /\ Started(i)
      BY <2>1, <2>8 DEF Started
    <3>2. status[j] = "done"
      BY <2>8, <3>1
    <3> QED BY <2>1, <2>3, <3>2
  <2>9. /\ status' \in [Ins -> {"none", "queued", "running", "done"}]
        /\ launched' \in [Ins -> Streams \cup {NoStream}] /\ hold' \in [Ins -> SUBSET Ins]
    BY <2>1, <2>2
  <2>10. \A i \in Ins : {j \in Ins : Awaits(i, j)'} = {j \in Ins : Awaits(i, j)}
    OBVIOUS
  <2> QED BY <2>4, <2>5, <2>6, <2>7, <2>8, <2>9, <2>10
<1>4. CASE HostOnly
  <2>1. /\ phase' = phase /\ cur' = cur /\ host \in Ins /\ ~ kernel[host] /\ host' = host + 1
        /\ UNCHANGED <<launched, hold, status>>
    BY <1>4 DEF HostOnly
  <2>2. ~ setStream[host]
    BY <2>1, ModuleFacts
  <2>3. CurrentInv'
    <3>1. PICK h \in Ins : h = host
      BY <2>1
    <3>2. h + 1 = host'
      BY <2>1, <3>1
    <3> QED BY <2>1, <2>2, <3>1, <3>2, SetPassed, CurrentNext DEF CurrentInv
  <2>4. host' \in 1..(N + 1) /\ \A i \in Ins : i < host' <=> (i < host \/ i = host)
    BY <2>1, SizeAssumption DEF Ins
  <2> QED BY <2>1, <2>3, <2>4 DEF Started
<1>5. ASSUME NEW i \in Ins, Start(i) PROVE EvaluationInv'
  <2>1. /\ status[i] = "queued" /\ status' = [status EXCEPT ![i] = "running"]
        /\ UNCHANGED <<phase, host, cur, launched, hold>>
    BY <1>5 DEF Start
  <2>2. kernel[i] /\ i < host /\ \A j \in Ins : Follows(i, j) => status[j] = "done"
    BY <1>5, StartsInOrder
  <2>3. ASSUME NEW k \in Ins, NEW j \in Ins, Started(k)', Follows(k, j) PROVE status'[j] = "done"
    <3>1. status[j] = "done"
      BY <2>1, <2>2, <2>3 DEF Started
    <3> QED BY <2>1, <3>1
  <2>4. \A k \in Ins : status'[k] # "none" <=> status[k] # "none"
    BY <2>1
  <2>5. CurrentInv'
    BY <2>1, CurrentNext DEF CurrentInv
  <2> QED BY <2>1, <2>3, <2>4, <2>5
<1>6. ASSUME NEW i \in Ins, Complete(i) PROVE EvaluationInv'
  <2>1. /\ status[i] = "running" /\ status' = [status EXCEPT ![i] = "done"]
        /\ UNCHANGED <<phase, host, cur, launched, hold>>
    BY <1>6 DEF Complete
  <2>2. ASSUME NEW k \in Ins, NEW j \in Ins, Started(k)', Follows(k, j) PROVE status'[j] = "done"
    <3>1. status[j] = "done"
      BY <2>1, <2>2 DEF Started
    <3> QED BY <2>1, <3>1
  <2>3. \A k \in Ins : status'[k] # "none" <=> status[k] # "none"
    BY <2>1
  <2>4. CurrentInv'
    BY <2>1, CurrentNext DEF CurrentInv
  <2> QED BY <2>1, <2>2, <2>3, <2>4
<1>7. CASE Finish
  BY <1>7 DEF Finish, CurrentInv, Started
<1> QED BY <1>1, <1>2, <1>3, <1>4, <1>5, <1>6, <1>7 DEF ExecNext, Host

-----------------------------------------------------------------------------
LEMMA SmallestExists ==
  ASSUME NEW T \in SUBSET Nat, T # {}
  PROVE  \E t \in T : \A u \in T : t <= u
<1> DEFINE R == OpToRel(<, Nat)
<1>1. IsWellFoundedOn(R, Nat)
  BY NatLessThanWellFounded
<1>2. PICK t \in T : \A u \in T : ~ (<<u, t>> \in R)
  <2> HIDE DEF R
  <2> QED BY <1>1, WFMin
<1>3. \A x, y \in Nat : y < x => <<y, x>> \in R
  BY DEF OpToRel
<1> HIDE DEF R
<1>4. ASSUME NEW u \in T PROVE t <= u
  <2>1. t \in Nat /\ u \in Nat /\ ~ (u < t)
    BY <1>2, <1>3
  <2> QED BY <2>1
<1> QED BY <1>4

(* A bounded set of numbers has a largest one. *)
LEMMA LargestExists ==
  ASSUME NEW S \in SUBSET Nat, S # {}, NEW b \in Nat, \A x \in S : x <= b
  PROVE  \E m \in S : \A k \in S : k <= m
<1> DEFINE T == {b - x : x \in S}
<1>0. \A x \in S : x \in Nat /\ b - x \in Nat
  OBVIOUS
<1>1. T \in SUBSET Nat /\ T # {}
  BY <1>0
<1>2. PICK t \in T : \A u \in T : t <= u
  <2> HIDE DEF T
  <2> QED BY <1>1, SmallestExists
<1>3. PICK m \in S : t = b - m
  BY <1>2
<1>4. ASSUME NEW k \in S PROVE k <= m
  <2>1. b - k \in T
    OBVIOUS
  <2>2. t <= b - k
    BY <1>2, <2>1
  <2> QED BY <1>3, <2>2
<1> QED BY <1>4

(* An empty sequence is no clock. *)
LEMMA NoClockIsNone == \A x \in Clocks : x # NoClock
<1> SUFFICES ASSUME NEW x \in Clocks, x = NoClock PROVE FALSE
  OBVIOUS
<1>1. DOMAIN x = Streams /\ 0 \in Streams
  BY SizeAssumption DEF Clocks, Streams
<1>2. DOMAIN NoClock = {}
  BY DEF NoClock
<1> QED BY <1>1, <1>2

LEMMA ModelFacts ==
  ASSUME ModelInv
  PROVE  /\ setStream \in [Ins -> BOOLEAN] /\ waits \in [Ins -> SUBSET EventIds]
         /\ record \in [Ins -> EventIds \cup {NoEvent}]
         /\ \A i \in Ins : record[i] # NoEvent => kernel[i]
         /\ \A i \in Ins : kernel[i] => ModelStream(i) \in Streams
         /\ \A i \in Ins : reads[i] \subseteq 1..(i - 1) /\ \A j \in reads[i] : kernel[j]
         /\ N \in Nat \ {0} /\ Ins \subseteq Nat
  BY SizeAssumption DEF ModelInv, Ins

(* What joining clocks gives, none of which is ahead of bound.             *)
LEMMA JoinedClock ==
  ASSUME NEW clock \in Clocks, NEW payloads \in SUBSET Clocks, NEW bound \in Clocks,
         \A t \in Streams : clock[t] <= bound[t],
         \A p \in payloads : \A t \in Streams : p[t] <= bound[t]
  PROVE  /\ Joined(clock, payloads) \in Clocks
         /\ \A t \in Streams : /\ clock[t] <= Joined(clock, payloads)[t]
                               /\ Joined(clock, payloads)[t] <= bound[t]
                               /\ \A p \in payloads : p[t] <= Joined(clock, payloads)[t]
                               /\ \/ Joined(clock, payloads)[t] = clock[t]
                                  \/ \E p \in payloads : Joined(clock, payloads)[t] = p[t]
<1> DEFINE all(t) == {clock[t]} \cup {p[t] : p \in payloads}
           top(t) == CHOOSE m \in all(t) : \A k \in all(t) : k <= m
<1>1. Joined(clock, payloads) = [t \in Streams |-> top(t)]
  BY DEF Joined
<1>2. ASSUME NEW t \in Streams
      PROVE  top(t) \in all(t) /\ \A m \in all(t) : m <= top(t)
  <2>1. all(t) \in SUBSET Nat /\ clock[t] \in all(t) /\ bound[t] \in Nat /\ \A x \in all(t) : x <= bound[t]
    BY DEF Clocks
  <2>2. \E m \in all(t) : \A k \in all(t) : k <= m
    <3> HIDE DEF all
    <3>1. all(t) # {}
      BY <2>1
    <3> QED BY <2>1, <3>1, LargestExists
  <2> HIDE DEF all
  <2>3. top(t) \in all(t) /\ \A k \in all(t) : k <= top(t)
    BY <2>2
  <2> QED BY <2>1, <2>3
<1> HIDE DEF top
<1> QED BY <1>1, <1>2 DEF Clocks

(* The clock of the instruction visited: it is ahead of all others on its  *)
(* own stream, and elsewhere one of those it joins.                        *)
LEMMA ClockOfVisited ==
  ASSUME ModelInv, ClockTypeOK, OwnCountInv, NEW i \in Ins, kernel[i],
         \A e \in waits[i] : events[e] # NoClock, NEW s \in Streams, s = ModelStream(i)
  PROVE  /\ ClockAt(i) \in Clocks
         /\ vclock[s][s] < ClockAt(i)[s]
         /\ Upto(vclock[s], ClockAt(i))
         /\ \A e \in waits[i] : Upto(events[e], ClockAt(i)) /\ events[e][s] < ClockAt(i)[s]
         /\ \A t \in Streams \ {s} :
              /\ ClockAt(i)[t] <= vclock[t][t]
              /\ \/ ClockAt(i)[t] = vclock[s][t]
                 \/ \E e \in waits[i] : ClockAt(i)[t] = events[e][t]
<1> DEFINE payloads == {events[e] : e \in waits[i]}
           bound == [t \in Streams |-> vclock[t][t]]
           n == Cardinality(waits[i]) + (IF setStream[i] THEN 2 ELSE 1)
           j == Joined(vclock[s], payloads)
<1>1. waits[i] \subseteq EventIds /\ setStream[i] \in BOOLEAN
  BY ModelFacts
<1>2. Cardinality(waits[i]) \in Nat
  <2>1. IsFiniteSet(EventIds)
    BY SizeAssumption, FS_Interval DEF EventIds
  <2> QED BY <1>1, <2>1, FS_Subset, FS_CardinalityType
<1>3. n \in Nat /\ n >= 1
  BY <1>2
<1>4. /\ vclock \in [Streams -> Clocks] /\ vclock[s] \in Clocks /\ bound \in Clocks
      /\ payloads \in SUBSET Clocks
  BY <1>1 DEF ClockTypeOK, Clocks
<1>5. /\ \A t \in Streams : vclock[s][t] <= bound[t]
      /\ \A p \in payloads : \A t \in Streams : p[t] <= bound[t]
  BY <1>1 DEF OwnCountInv
<1>6. /\ j \in Clocks
      /\ \A t \in Streams : /\ vclock[s][t] <= j[t] /\ j[t] <= bound[t]
                            /\ \A p \in payloads : p[t] <= j[t]
                            /\ (j[t] = vclock[s][t] \/ \E p \in payloads : j[t] = p[t])
  <2> HIDE DEF payloads, bound
  <2> QED BY <1>4, <1>5, JoinedClock
<1>7. ClockAt(i) = [j EXCEPT ![s] = @ + n]
  BY DEF ClockAt, Tick
<1> HIDE DEF n, j
<1>8. ClockAt(i) \in Clocks /\ ClockAt(i)[s] = j[s] + n /\ \A t \in Streams \ {s} : ClockAt(i)[t] = j[t]
  BY <1>3, <1>6, <1>7 DEF Clocks
<1>9. vclock[s][s] < ClockAt(i)[s]
  BY <1>3, <1>4, <1>6, <1>8 DEF Clocks
<1>10. Upto(vclock[s], ClockAt(i))
  BY <1>3, <1>4, <1>6, <1>8 DEF Upto, Clocks
<1>11. ASSUME NEW e \in waits[i] PROVE Upto(events[e], ClockAt(i)) /\ events[e][s] < ClockAt(i)[s]
  <2>1. events[e] \in payloads /\ events[e] \in Clocks
    BY <1>4
  <2>2. PICK p \in Clocks : p = events[e]
    BY <2>1
  <2> HIDE DEF payloads
  <2>3. \A t \in Streams : p[t] <= j[t] /\ p[t] \in Nat /\ j[t] \in Nat
    BY <1>6, <2>1, <2>2 DEF Clocks
  <2>4. \A t \in Streams : p[t] <= ClockAt(i)[t]
    <3> SUFFICES ASSUME NEW t \in Streams PROVE p[t] <= ClockAt(i)[t]
      OBVIOUS
    <3>1. CASE t = s
      BY <1>3, <1>8, <2>3, <3>1
    <3>2. CASE t # s
      BY <1>8, <2>3, <3>2
    <3> QED BY <3>1, <3>2
  <2>5. p[s] < ClockAt(i)[s]
    BY <1>3, <1>8, <2>3
  <2> QED BY <2>2, <2>4, <2>5 DEF Upto
<1>12. \A t \in Streams \ {s} :
          /\ ClockAt(i)[t] <= vclock[t][t]
          /\ \/ ClockAt(i)[t] = vclock[s][t]
             \/ \E e \in waits[i] : ClockAt(i)[t] = events[e][t]
  BY <1>6, <1>8
<1> QED BY <1>8, <1>9, <1>10, <1>11, <1>12

-----------------------------------------------------------------------------
(* What the clock of an instruction covers is ordered before it.           *)
LEMMA VisitedCovers ==
  ASSUME ModelInv, ClockTypeOK, OwnCountInv, CoverageInv, stage = "visit",
         NEW i \in Ins, i = scan, kernel[i], \A e \in waits[i] : events[e] # NoClock,
         NEW D \in SUBSET Ins, Ordered(D), i \in D, NEW j \in Ins, Visited(j),
         \/ ModelStream(j) = ModelStream(i)
         \/ timestamp[j][ModelStream(j)] <= ClockAt(i)[ModelStream(j)]
  PROVE  j \in D
<1>1. \A l \in Ins : Visited(l) <=> kernel[l] /\ l < i
  BY DEF Visited
<1>2. \A l \in Ins : Follows(i, l) => l \in D
  BY DEF Ordered
<1>3. \A l \in Ins : Visited(l) /\ ModelStream(l) = ModelStream(i) => l \in D
  BY <1>1, <1>2 DEF Follows
<1>4. ASSUME ModelStream(j) # ModelStream(i) PROVE j \in D
  <2>1. PICK s \in Streams : s = ModelStream(i)
    BY ModelFacts
  <2>2. PICK t \in Streams \ {s} : t = ModelStream(j)
    BY <1>1, <1>4, <2>1, ModelFacts
  <2>3. ClockAt(i)[t] = vclock[s][t] \/ \E e \in waits[i] : ClockAt(i)[t] = events[e][t]
    BY <2>1, ClockOfVisited
  <2>4. CASE ClockAt(i)[t] = vclock[s][t]
    <3>1. OnStream(s) \subseteq D
      BY <1>3, <2>1 DEF OnStream
    <3>2. Covers(D, vclock[s])
      BY <3>1 DEF CoverageInv
    <3> QED BY <1>4, <2>2, <2>4, <3>2 DEF Covers
  <2>5. ASSUME NEW e \in waits[i], ClockAt(i)[t] = events[e][t] PROVE j \in D
    <3>1. e \in EventIds /\ e # NoEvent
      BY ModelFacts DEF EventIds, NoEvent
    <3>2. PICK k \in Ins : /\ LastRecord(e, k)
                           /\ \A E \in SUBSET Ins : Ordered(E) /\ k \in E => Covers(E, events[e])
      BY <2>5, <3>1 DEF CoverageInv
    <3>3. Awaits(i, k)
      <4>1. k < i /\ record[k] = e
        BY <1>1, <3>2 DEF LastRecord
      <4>2. ASSUME NEW l \in Ins, k < l, l < i PROVE record[l] # e
        <5>1. record[l] = e => Visited(l)
          BY <1>1, <3>1, <4>2, ModelFacts
        <5> QED BY <3>2, <4>2, <5>1 DEF LastRecord
      <4> QED BY <4>1, <4>2 DEF Awaits
    <3>4. k \in D
      BY <1>1, <1>2, <3>2, <3>3 DEF Follows, LastRecord
    <3>5. Covers(D, events[e])
      BY <3>2, <3>4
    <3> QED BY <1>4, <2>2, <2>5, <3>5 DEF Covers
  <2> QED BY <2>3, <2>4, <2>5
<1> QED BY <1>3, <1>4

(* Visiting an instruction keeps the clocks right.                         *)
LEMMA VisitStep ==
  ASSUME ModelInv, ClockTypeOK, OwnCountInv, CoverageInv, DirectInv, Visit, UNCHANGED vars
  PROVE  ClockTypeOK' /\ OwnCountInv' /\ CoverageInv' /\ DirectInv'
<1>0. UNCHANGED <<plan, setStream, waits, record>>
  BY DEF vars, moduleVars
<1>1. PICK i \in Ins : i = scan
  BY DEF Visit, Visiting
<1>2. PICK s \in Streams : s = ModelStream(i)
  BY <1>1, ModelFacts DEF Visit
<1>3. /\ stage = "visit" /\ stage' = "visit" /\ kernel[i] /\ scan' = i + 1
      /\ \A e \in waits[i] : events[e] # NoClock
      /\ timestamp' = [timestamp EXCEPT ![i] = ClockAt(i)]
  BY <1>1 DEF Visit, Visiting
<1>4. PICK c \in Clocks : c = ClockAt(i)
  BY <1>2, <1>3, ClockOfVisited
<1>5. PICK a \in Clocks : a = Tick(c, s, IF record[i] = NoEvent THEN 0 ELSE 1)
  <2>1. PICK n \in Nat : n = IF record[i] = NoEvent THEN 0 ELSE 1
    OBVIOUS
  <2>2. Tick(c, s, n) \in Clocks
    BY DEF Tick, Clocks
  <2> QED BY <2>1, <2>2
<1>6. /\ vclock[s][s] < c[s] /\ c[s] <= a[s]
      /\ \A t \in Streams \ {s} : a[t] = c[t] /\ c[t] <= vclock[t][t]
  <2>1. /\ vclock[s][s] < c[s] /\ \A t \in Streams \ {s} : c[t] <= vclock[t][t]
    BY <1>2, <1>3, <1>4, ClockOfVisited
  <2>2. c[s] <= a[s] /\ \A t \in Streams \ {s} : a[t] = c[t]
    BY <1>5 DEF Tick, Clocks
  <2> QED BY <2>1, <2>2
<1>7. /\ vclock' = [vclock EXCEPT ![s] = a]
      /\ events' = IF record[i] = NoEvent THEN events ELSE [events EXCEPT ![record[i]] = a]
      /\ timestamp' = [timestamp EXCEPT ![i] = c]
  BY <1>1, <1>2, <1>3, <1>4, <1>5 DEF Visit, EventsAfter
<1>8. /\ \A j \in Ins : Visited(j) <=> kernel[j] /\ j < i
      /\ \A j \in Ins : Visited(j)' <=> Visited(j) \/ j = i
      /\ \A j \in Ins : ModelStream(j)' = ModelStream(j)
  <2>1. kernel' = kernel /\ \A j \in Ins : ModelStream(j)' = ModelStream(j)
    BY <1>0, ModuleStays
  <2> QED BY <1>1, <1>3, <2>1 DEF Visited, Ins
<1>9. /\ timestamp'[i] = c /\ \A j \in Ins \ {i} : timestamp'[j] = timestamp[j]
      /\ vclock'[s] = a /\ \A t \in Streams \ {s} : vclock'[t] = vclock[t]
      /\ \A e \in EventIds : events'[e] = IF e = record[i] THEN a ELSE events[e]
  BY <1>7, ModelFacts DEF ClockTypeOK, EventIds, NoEvent
<1>10. ClockTypeOK'
  <2>1. i + 1 \in 1..(N + 1)
    BY SizeAssumption DEF Ins
  <2>2. /\ vclock' \in [Streams -> Clocks] /\ events' \in [EventIds -> Clocks \cup {NoClock}]
        /\ timestamp' \in [Ins -> Clocks \cup {NoClock}]
    BY <1>7 DEF ClockTypeOK
  <2>3. \A j \in Ins : Visited(j)' => timestamp'[j] \in Clocks
    BY <1>3, <1>8, <1>9 DEF ClockTypeOK
  <2> QED BY <1>3, <2>1, <2>2, <2>3 DEF ClockTypeOK
<1>11. /\ vclock \in [Streams -> Clocks] /\ \A e \in EventIds : events[e] # NoClock => events[e] \in Clocks
       /\ \A j \in Ins : Visited(j) => timestamp[j] \in Clocks
  BY <1>3 DEF ClockTypeOK
<1>12. OwnCountInv'
  <2> SUFFICES ASSUME NEW t \in Streams
               PROVE  /\ \A r \in Streams : vclock'[r][t] <= vclock'[t][t]
                      /\ \A e \in EventIds : events'[e] # NoClock => events'[e][t] <= vclock'[t][t]
                      /\ \A j \in Ins : Visited(j)' => timestamp'[j][t] <= vclock'[t][t]
    BY DEF OwnCountInv
  <2>1. vclock[t][t] \in Nat /\ vclock'[t][t] \in Nat /\ a[t] \in Nat /\ c[t] \in Nat
    BY <1>10, <1>11 DEF ClockTypeOK, Clocks
  <2>2. vclock[t][t] <= vclock'[t][t] /\ a[t] <= vclock'[t][t] /\ c[t] <= vclock'[t][t]
    <3>1. CASE t = s
      BY <1>6, <1>9, <2>1, <3>1
    <3>2. CASE t # s
      BY <1>6, <1>9, <2>1, <3>2
    <3> QED BY <3>1, <3>2
  <2>3. ASSUME NEW x \in Clocks, x[t] <= vclock[t][t] PROVE x[t] <= vclock'[t][t]
    BY <2>1, <2>2, <2>3 DEF Clocks
  <2>4. \A r \in Streams : vclock'[r][t] <= vclock'[t][t]
    BY <1>9, <1>11, <2>2, <2>3 DEF OwnCountInv
  <2>5. \A e \in EventIds : events'[e] # NoClock => events'[e][t] <= vclock'[t][t]
    BY <1>9, <1>11, <2>2, <2>3 DEF OwnCountInv
  <2>6. \A j \in Ins : Visited(j)' => timestamp'[j][t] <= vclock'[t][t]
    BY <1>8, <1>9, <1>11, <2>2, <2>3 DEF OwnCountInv
  <2> QED BY <2>4, <2>5, <2>6
\* An older clock does not cover i.
<1>13. ASSUME NEW D \in SUBSET Ins, NEW x \in Clocks, x[s] <= vclock[s][s], Covers(D, x)
       PROVE  Covers(D, x)'
  <2> SUFFICES ASSUME NEW j \in Ins, Visited(j)', timestamp'[j][ModelStream(j)] <= x[ModelStream(j)]
               PROVE  j \in D
    BY <1>8 DEF Covers
  <2>1. j # i
    <3>1. ~ (c[s] <= x[s])
      BY <1>6, <1>11, <1>13 DEF Clocks
    <3> QED BY <1>2, <1>9, <3>1
  <2> QED BY <1>8, <1>9, <1>13, <2>1 DEF Covers
\* What i and what is recorded after it cover comes before i.
<1>14. ASSUME NEW D \in SUBSET Ins, Ordered(D), i \in D,
              NEW x \in Clocks, \A t \in Streams \ {s} : x[t] = c[t]
       PROVE  Covers(D, x)'
  <2> SUFFICES ASSUME NEW j \in Ins, Visited(j)', timestamp'[j][ModelStream(j)] <= x[ModelStream(j)]
               PROVE  j \in D
    BY <1>8 DEF Covers
  <2>1. CASE j = i
    BY <1>14, <2>1
  <2>2. CASE j # i
    <3>1. Visited(j) /\ kernel[j] /\ timestamp[j][ModelStream(j)] <= x[ModelStream(j)]
      BY <1>8, <1>9, <2>2
    <3>2. ModelStream(j) \in Streams
      BY <3>1, ModelFacts
    <3>3. ModelStream(j) = ModelStream(i) \/ timestamp[j][ModelStream(j)] <= ClockAt(i)[ModelStream(j)]
      BY <1>2, <1>4, <1>14, <3>1, <3>2
    <3> QED BY <1>1, <1>3, <1>14, <3>1, <3>3, VisitedCovers
  <2> QED BY <2>1, <2>2
<1>15. ASSUME NEW D \in SUBSET Ins, Ordered(D)
       PROVE  /\ \A k \in D : Visited(k)' => Covers(D, timestamp[k])'
              /\ \A t \in Streams : OnStream(t)' \subseteq D => Covers(D, vclock[t])'
  <2>1. ASSUME NEW k \in D, Visited(k)' PROVE Covers(D, timestamp[k])'
    <3>1. PICK x : x = timestamp'[k]
      OBVIOUS
    <3>2. CASE k = i
      <4>1. Covers(D, x)'
        BY <1>9, <1>14, <1>15, <2>1, <3>1, <3>2
      <4> QED BY <3>1, <4>1 DEF Covers
    <3>3. CASE k # i
      <4>1. Visited(k) /\ x = timestamp[k]
        BY <1>8, <1>9, <2>1, <3>1, <3>3
      <4>2. x \in Clocks /\ x[s] <= vclock[s][s] /\ Covers(D, x)
        BY <1>11, <1>15, <4>1 DEF OwnCountInv, CoverageInv
      <4>3. Covers(D, x)'
        BY <1>13, <4>2
      <4> QED BY <3>1, <4>3 DEF Covers
    <3> QED BY <3>2, <3>3
  <2>2. ASSUME NEW t \in Streams, OnStream(t)' \subseteq D PROVE Covers(D, vclock[t])'
    <3>1. PICK x : x = vclock'[t]
      OBVIOUS
    <3>2. CASE t = s
      <4>1. i \in D
        BY <1>2, <1>8, <2>2, <3>2 DEF OnStream
      <4>2. Covers(D, x)'
        BY <1>6, <1>9, <1>14, <1>15, <3>1, <3>2, <4>1
      <4> QED BY <3>1, <4>2 DEF Covers
    <3>3. CASE t # s
      <4>1. OnStream(t) \subseteq D /\ x = vclock[t]
        BY <1>8, <1>9, <2>2, <3>1, <3>3 DEF OnStream
      <4>2. x \in Clocks /\ x[s] <= vclock[s][s] /\ Covers(D, x)
        BY <1>11, <1>15, <4>1 DEF OwnCountInv, CoverageInv
      <4>3. Covers(D, x)'
        BY <1>13, <4>2
      <4> QED BY <3>1, <4>3 DEF Covers
    <3> QED BY <3>2, <3>3
  <2> QED BY <2>1, <2>2
<1>16. ASSUME NEW e \in EventIds, events'[e] # NoClock
       PROVE  \E k \in Ins : /\ LastRecord(e, k)'
                             /\ \A D \in SUBSET Ins : Ordered(D) /\ k \in D => Covers(D, events[e])'
  <2>1. PICK x : x = events'[e]
    OBVIOUS
  <2>2. CASE e = record[i]
    <3>1. LastRecord(e, i)'
      <4>1. ~ \E l \in Ins : Visited(l)' /\ i < l
        BY <1>8 DEF Ins
      <4> QED BY <1>0, <1>8, <2>2, <4>1 DEF LastRecord
    <3>2. ASSUME NEW D \in SUBSET Ins, Ordered(D), i \in D PROVE Covers(D, events[e])'
      <4>1. x = a
        BY <1>9, <2>1, <2>2
      <4>2. Covers(D, x)'
        BY <1>6, <1>14, <3>2, <4>1
      <4> QED BY <2>1, <4>2 DEF Covers
    <3> QED BY <3>1, <3>2
  <2>3. CASE e # record[i]
    <3>1. x = events[e] /\ x # NoClock
      BY <1>9, <1>16, <2>1, <2>3
    <3>2. PICK k \in Ins : /\ LastRecord(e, k)
                           /\ \A D \in SUBSET Ins : Ordered(D) /\ k \in D => Covers(D, events[e])
      BY <3>1 DEF CoverageInv
    <3>3. LastRecord(e, k)'
      BY <1>0, <1>8, <2>3, <3>2 DEF LastRecord
    <3>4. x \in Clocks /\ x[s] <= vclock[s][s]
      BY <1>11, <3>1 DEF OwnCountInv
    <3>5. ASSUME NEW D \in SUBSET Ins, Ordered(D), k \in D PROVE Covers(D, events[e])'
      <4>1. Covers(D, x)'
        BY <1>13, <3>1, <3>2, <3>4, <3>5
      <4> QED BY <2>1, <4>1 DEF Covers
    <3> QED BY <3>3, <3>5
  <2> QED BY <2>2, <2>3
<1>17. CoverageInv'
  <2>1. \A D \in SUBSET Ins : Ordered(D)' <=> Ordered(D)
    BY <1>0, ModuleStays
  <2> QED BY <1>15, <1>16, <2>1 DEF CoverageInv
\* What i follows is behind it.
<1>18. \A e \in EventIds : \A k \in Ins :
         LastRecord(e, k)' => IF e = record[i] THEN k = i ELSE LastRecord(e, k)
  <2>1. record' = record /\ \A k \in Ins : Visited(k)' /\ k # i => k < i
    BY <1>0, <1>8
  <2> SUFFICES ASSUME NEW e \in EventIds, NEW k \in Ins, LastRecord(e, k)'
               PROVE  IF e = record[i] THEN k = i ELSE LastRecord(e, k)
    OBVIOUS
  <2>2. CASE e = record[i]
    BY <1>8, <2>1, <2>2 DEF LastRecord
  <2>3. CASE e # record[i]
    <3>1. k # i
      BY <2>1, <2>3 DEF LastRecord
    <3> QED BY <1>8, <2>1, <2>3, <3>1 DEF LastRecord
  <2> QED BY <2>2, <2>3
<1>19. ASSUME NEW j \in Ins, Follows(i, j) PROVE Visited(j) /\ Upto(timestamp[j], c) /\ timestamp[j][s] < c[s]
  <2>1. Visited(j) /\ timestamp[j] \in Clocks
    BY <1>8, <1>11, <1>19 DEF Follows
  <2>2. PICK x \in Clocks : x = timestamp[j]
    BY <2>1
  <2>3. CASE ModelStream(j) = ModelStream(i)
    <3>1. Upto(x, vclock[s]) /\ Upto(vclock[s], c) /\ vclock[s] \in Clocks
      BY <1>2, <1>3, <1>4, <1>11, <2>1, <2>2, <2>3, ClockOfVisited DEF DirectInv
    <3>2. PICK v \in Clocks : v = vclock[s]
      BY <3>1
    <3>3. Upto(x, c) /\ x[s] < c[s]
      BY <1>6, <3>1, <3>2 DEF Upto, Clocks
    <3> QED BY <2>1, <2>2, <3>3
  <2>4. CASE Awaits(i, j)
    <3>1. PICK e \in waits[i] : e = record[j]
      BY <2>4 DEF Awaits
    <3>2. e \in EventIds
      BY ModelFacts
    <3>3. LastRecord(e, j)
      BY <1>8, <2>1, <2>4, <3>1 DEF LastRecord, Awaits
    <3>4. Upto(x, events[e]) /\ Upto(events[e], c) /\ events[e][s] < c[s] /\ events[e] \in Clocks
      BY <1>2, <1>3, <1>4, <1>11, <2>2, <3>2, <3>3, ClockOfVisited DEF DirectInv
    <3>5. PICK y \in Clocks : y = events[e]
      BY <3>4
    <3>6. Upto(x, c) /\ x[s] < c[s]
      BY <3>4, <3>5 DEF Upto, Clocks
    <3> QED BY <2>1, <2>2, <3>6
  <2> QED BY <1>19, <2>3, <2>4 DEF Follows
<1>20. Upto(vclock[s], a) /\ Upto(c, a)
  <2>1. PICK v \in Clocks : v = vclock[s]
    BY <1>11
  <2>2. Upto(v, c)
    BY <1>2, <1>3, <1>4, <2>1, ClockOfVisited
  <2>3. Upto(c, a)
    BY <1>6 DEF Upto, Clocks
  <2> QED BY <2>1, <2>2, <2>3 DEF Upto, Clocks
<1>21. DirectInv'
  <2>1. ASSUME NEW k \in Ins, NEW j \in Ins, Visited(k)', Follows(k, j)
        PROVE  /\ Upto(timestamp'[j], timestamp'[k])
               /\ timestamp'[j][ModelStream(k)] < timestamp'[k][ModelStream(k)]
    <3>1. CASE k = i
      <4>1. j # i
        BY <2>1, <3>1 DEF Follows, Ins
      <4>2. timestamp'[j] = timestamp[j] /\ timestamp'[k] = c
        BY <1>9, <3>1, <4>1
      <4> QED BY <1>2, <1>19, <2>1, <3>1, <4>2
    <3>2. CASE k # i
      <4>1. Visited(k) /\ k < i /\ j < k
        BY <1>8, <2>1, <3>2 DEF Follows
      <4>2. j # i
        BY <4>1 DEF Ins
      <4>3. timestamp'[j] = timestamp[j] /\ timestamp'[k] = timestamp[k]
        BY <1>9, <3>2, <4>2
      <4> QED BY <2>1, <4>1, <4>3 DEF DirectInv
    <3> QED BY <3>1, <3>2
  <2>2. ASSUME NEW j \in Ins, Visited(j)' PROVE Upto(timestamp'[j], vclock'[ModelStream(j)])
    <3>1. CASE j = i
      BY <1>2, <1>9, <1>20, <3>1
    <3>2. CASE j # i /\ ModelStream(j) = s
      <4>1. Upto(timestamp[j], vclock[s]) /\ timestamp[j] \in Clocks /\ vclock[s] \in Clocks
        BY <1>8, <1>11, <2>2, <3>2 DEF DirectInv
      <4>2. Upto(timestamp[j], a)
        <5>1. PICK x \in Clocks : x = timestamp[j]
          BY <4>1
        <5>2. PICK v \in Clocks : v = vclock[s]
          BY <4>1
        <5>3. Upto(x, a)
          BY <1>20, <4>1, <5>1, <5>2 DEF Upto, Clocks
        <5> QED BY <5>1, <5>3
      <4> QED BY <1>9, <3>2, <4>2
    <3>3. CASE j # i /\ ModelStream(j) # s
      <4>1. Visited(j) /\ kernel[j]
        BY <1>8, <2>2, <3>3
      <4>2. ModelStream(j) \in Streams \ {s}
        BY <3>3, <4>1, ModelFacts
      <4> QED BY <1>9, <3>3, <4>1, <4>2 DEF DirectInv
    <3> QED BY <3>1, <3>2, <3>3
  <2>3. ASSUME NEW e \in EventIds, NEW k \in Ins, LastRecord(e, k)'
        PROVE  events'[e] # NoClock /\ Upto(timestamp'[k], events'[e])
    <3>1. CASE e = record[i]
      <4>1. k = i /\ events'[e] = a /\ timestamp'[k] = c
        BY <1>9, <1>18, <2>3, <3>1
      <4>2. a # NoClock
        BY NoClockIsNone
      <4> QED BY <1>20, <4>1, <4>2
    <3>2. CASE e # record[i]
      <4>1. LastRecord(e, k) /\ events'[e] = events[e]
        BY <1>9, <1>18, <2>3, <3>2
      <4>2. k # i
        BY <1>8, <4>1 DEF LastRecord
      <4> QED BY <1>9, <4>1, <4>2 DEF DirectInv
    <3> QED BY <3>1, <3>2
  <2>4. \A k, j \in Ins : Follows(k, j)' <=> Follows(k, j)
    BY <1>0, ModuleStays
  <2> QED BY <1>8, <2>1, <2>2, <2>3, <2>4 DEF DirectInv, Upto
<1> QED BY <1>10, <1>12, <1>17, <1>21

-----------------------------------------------------------------------------
(* Before is what its equation says: it is built up along the program. *)
Direct(i) == {j \in 1..(i - 1) : DirectlyBefore(j, i)}

BeforeStep(b, i) == Direct(i) \cup UNION {b[j] : j \in Direct(i)}

LEMMA BeforeEquation == Before = [i \in Ins |-> BeforeStep(Before, i)]
<1> DEFINE T == {n \in 0..N : \A b : b # [i \in 1..n |-> BeforeStep(b, i)]}
<1>1. T = {}
  <2> SUFFICES ASSUME T # {} PROVE FALSE
    OBVIOUS
  <2>1. PICK n \in T : \A m \in T : n <= m
    <3>1. T \in SUBSET Nat
      OBVIOUS
    <3> HIDE DEF T
    <3> QED BY <3>1, SmallestExists
  <2>2. n \in Nat /\ n <= N
    BY <2>1, SizeAssumption
  <2>3. n # 0
    <3> SUFFICES ASSUME n = 0 PROVE FALSE
      OBVIOUS
    <3> DEFINE b == [i \in 1..0 |-> {}]
    <3>1. b = [i \in 1..n |-> BeforeStep(b, i)]
      OBVIOUS
    <3> QED BY <2>1, <3>1
  <2>4. n - 1 \in 0..N /\ n - 1 \notin T
    BY <2>1, <2>2, <2>3, SizeAssumption
  <2>5. PICK b : b = [i \in 1..(n - 1) |-> BeforeStep(b, i)]
    BY <2>4
  <2> DEFINE c == [i \in 1..n |-> IF i = n THEN BeforeStep(b, n) ELSE b[i]]
  <2>6. ASSUME NEW i \in 1..n PROVE c[i] = BeforeStep(c, i)
    <3>1. \A j \in Direct(i) : j \in 1..n /\ j # n /\ c[j] = b[j]
      BY <2>2 DEF Direct
    <3>2. BeforeStep(c, i) = BeforeStep(b, i)
      <4> HIDE DEF c
      <4> QED BY <3>1 DEF BeforeStep
    <3>3. i # n => b[i] = BeforeStep(b, i)
      <4> SUFFICES ASSUME i # n PROVE b[i] = BeforeStep(b, i)
        OBVIOUS
      <4>1. i \in 1..(n - 1)
        BY <2>2
      <4> QED BY <2>5, <4>1
    <3> QED BY <3>2, <3>3
  <2>7. c = [i \in 1..n |-> BeforeStep(c, i)]
    <3>1. c = [i \in 1..n |-> c[i]]
      OBVIOUS
    <3> HIDE DEF c
    <3> QED BY <2>6, <3>1
  <2> HIDE DEF c
  <2> QED BY <2>1, <2>7
<1>2. \E b : b = [i \in Ins |-> BeforeStep(b, i)]
  BY <1>1, SizeAssumption DEF Ins
<1>3. Before = CHOOSE b : b = [i \in Ins |-> BeforeStep(b, i)]
  BY DEF Before, BeforeStep, Direct
<1> QED BY <1>2, <1>3

(* It holds earlier kernels, and is closed under itself. *)
LEMMA BeforeFacts ==
  ASSUME ModelInv
  PROVE  /\ \A i \in Ins : Direct(i) \subseteq Before[i]
         /\ \A i \in Ins : \A j \in Before[i] :
              j \in Direct(i) \/ \E k \in Direct(i) : j \in Before[k]
         /\ \A i \in Ins : \A j \in Before[i] : j \in Ins /\ kernel[j] /\ j < i
         /\ \A i \in Ins : \A k \in Before[i] : Before[k] \subseteq Before[i]
<1>1. \A i \in Ins : Before[i] = Direct(i) \cup UNION {Before[k] : k \in Direct(i)}
  BY BeforeEquation DEF BeforeStep
<1>2. \A i \in Ins : \A j \in Direct(i) : j \in Ins /\ kernel[j] /\ j < i
  BY SizeAssumption DEF Direct, DirectlyBefore, Ins
<1>3. \A i \in Ins : \A j \in Before[i] : j \in Ins /\ kernel[j] /\ j < i
  <2> DEFINE T == {i \in Ins : \E j \in Before[i] : ~ (j \in Ins /\ kernel[j] /\ j < i)}
  <2> SUFFICES ASSUME T # {} PROVE FALSE
    OBVIOUS
  <2>1. PICK i \in T : \A u \in T : i <= u
    <3>1. T \in SUBSET Nat
      BY ModelFacts
    <3> HIDE DEF T
    <3> QED BY <3>1, SmallestExists
  <2>2. PICK j \in Before[i] : ~ (j \in Ins /\ kernel[j] /\ j < i)
    BY <2>1
  <2>3. PICK k \in Direct(i) : j \in Before[k]
    BY <1>1, <1>2, <2>1, <2>2
  <2>4. k \in Ins /\ k < i /\ k \notin T
    BY <1>2, <2>1, <2>3 DEF Ins
  <2>5. j \in Ins /\ kernel[j] /\ j < k
    BY <2>3, <2>4
  <2> QED BY <2>1, <2>2, <2>4, <2>5 DEF Ins
<1>4. \A i \in Ins : \A k \in Before[i] : Before[k] \subseteq Before[i]
  <2> DEFINE T == {i \in Ins : \E k \in Before[i] : ~ (Before[k] \subseteq Before[i])}
  <2> SUFFICES ASSUME T # {} PROVE FALSE
    OBVIOUS
  <2>1. PICK i \in T : \A u \in T : i <= u
    <3>1. T \in SUBSET Nat
      BY ModelFacts
    <3> HIDE DEF T
    <3> QED BY <3>1, SmallestExists
  <2>2. PICK k \in Before[i] : ~ (Before[k] \subseteq Before[i])
    BY <2>1
  <2>3. PICK d \in Direct(i) : k \in Before[d]
    BY <1>1, <2>1, <2>2
  <2>4. d \in Ins /\ d < i /\ d \notin T
    BY <1>2, <2>1, <2>3 DEF Ins
  <2>5. Before[k] \subseteq Before[d] /\ Before[d] \subseteq Before[i]
    BY <1>1, <2>1, <2>3, <2>4
  <2> QED BY <2>2, <2>5
<1> QED BY <1>1, <1>3, <1>4

(* So an instruction and those before it are a set closed under Follows. *)
LEMMA BeforeOrdered ==
  ASSUME ModelInv, NEW i \in Ins, kernel[i]
  PROVE  Before[i] \cup {i} \in SUBSET Ins /\ Ordered(Before[i] \cup {i})
<1>1. ASSUME NEW k \in Ins, kernel[k], NEW l \in Ins, Follows(k, l) PROVE l \in Before[k]
  <2>1. kernel[l] /\ l < k /\ (ModelStream(l) = ModelStream(k) \/ Awaits(k, l))
    BY <1>1 DEF Follows
  <2>2. l \in l..(k - 1) /\ l \in 1..(k - 1)
    BY <2>1, SizeAssumption DEF Ins
  <2>3. DirectlyBefore(l, k)
    BY <1>1, <2>1, <2>2 DEF DirectlyBefore
  <2> QED BY <1>1, <2>2, <2>3, BeforeFacts DEF Direct
<1>2. \A k \in Before[i] : k \in Ins /\ kernel[k] /\ Before[k] \subseteq Before[i]
  BY BeforeFacts
<1> QED BY <1>1, <1>2 DEF Ordered

-----------------------------------------------------------------------------
Below(j, i) ==
  Upto(timestamp[j], timestamp[i]) /\ timestamp[j][ModelStream(i)] < timestamp[i][ModelStream(i)]

LEMMA BelowTransitive ==
  ASSUME NEW i \in Ins, NEW j \in Ins, NEW k \in Ins,
         timestamp[i] \in Clocks, timestamp[j] \in Clocks, timestamp[k] \in Clocks,
         ModelStream(i) \in Streams, Upto(timestamp[j], timestamp[k]), Below(k, i)
  PROVE  Below(j, i)
<1>1. PICK x \in Clocks, y \in Clocks, z \in Clocks, s \in Streams :
        x = timestamp[j] /\ y = timestamp[k] /\ z = timestamp[i] /\ s = ModelStream(i)
  OBVIOUS
<1>2. \A t \in Streams : x[t] \in Nat /\ y[t] \in Nat /\ z[t] \in Nat /\ x[t] <= y[t] /\ y[t] <= z[t]
  BY <1>1 DEF Clocks, Upto, Below
<1>3. y[s] < z[s]
  BY <1>1 DEF Below
<1>4. \A t \in Streams : x[t] <= z[t]
  BY <1>2
<1>5. x[s] < z[s]
  BY <1>2, <1>3
<1> QED BY <1>1, <1>4, <1>5 DEF Below, Upto

(* What is before an instruction is below it. *)
LEMMA BeforeBelow ==
  ASSUME ModelInv, ClockTypeOK, DirectInv, stage # "thrown"
  PROVE  \A i \in Ins : Visited(i) => \A j \in Before[i] : Below(j, i)
<1>1. \A i \in Ins : Visited(i) => /\ kernel[i] /\ timestamp[i] \in Clocks /\ ModelStream(i) \in Streams
                                  /\ \A j \in Ins : kernel[j] /\ j < i => Visited(j)
  BY ModelFacts DEF Visited, ClockTypeOK, Ins
<1>2. ASSUME NEW i \in Ins, Visited(i), NEW j \in Direct(i)
      PROVE  Visited(j) /\ Below(j, i)
  <2>1. j \in Ins /\ j < i /\ kernel[j] /\ Visited(j)
    BY <1>1, <1>2, SizeAssumption DEF Direct, DirectlyBefore, Ins
  <2>2. CASE ModelStream(j) = ModelStream(i)
    BY <1>2, <2>1, <2>2 DEF DirectInv, Follows, Below
  <2>3. ASSUME NEW k \in j..(i - 1), ModelStream(k) = ModelStream(j), Awaits(i, k) PROVE Below(j, i)
    <3>1. k \in Ins /\ k < i /\ j <= k
      BY <2>1, SizeAssumption DEF Ins
    <3>2. record[k] \in EventIds /\ record[k] # NoEvent
      BY <2>3, ModelFacts DEF Awaits, EventIds, NoEvent
    <3>3. kernel[k] /\ Visited(k)
      BY <1>1, <1>2, <3>1, <3>2, ModelFacts
    <3>4. Below(k, i)
      BY <1>2, <2>3, <3>1, <3>3 DEF DirectInv, Follows, Below
    <3>5. CASE j = k
      BY <3>4, <3>5
    <3>6. CASE j # k
      <4>1. Follows(k, j)
        BY <2>1, <2>3, <3>1, <3>6 DEF Follows, Ins
      <4>2. Upto(timestamp[j], timestamp[k])
        BY <2>1, <3>1, <3>3, <4>1 DEF DirectInv
      <4> QED BY <1>1, <1>2, <2>1, <3>1, <3>3, <3>4, <4>2, BelowTransitive
    <3> QED BY <3>5, <3>6
  <2> QED BY <2>1, <2>2, <2>3 DEF Direct, DirectlyBefore
<1> DEFINE T == {i \in Ins : Visited(i) /\ \E j \in Before[i] : ~ Below(j, i)}
<1> SUFFICES ASSUME T # {} PROVE FALSE
  OBVIOUS
<1>3. PICK i \in T : \A u \in T : i <= u
  <2>1. T \in SUBSET Nat
    BY ModelFacts
  <2> HIDE DEF T
  <2> QED BY <2>1, SmallestExists
<1>4. PICK j \in Before[i] : ~ Below(j, i)
  BY <1>3
<1>5. i \in Ins /\ Visited(i) /\ j \in Ins /\ j < i /\ kernel[j] /\ Visited(j)
  BY <1>1, <1>3, <1>4, BeforeFacts
<1>6. PICK k \in Direct(i) : j \in Before[k]
  BY <1>2, <1>4, <1>5, BeforeFacts
<1>7. Visited(k) /\ Below(k, i) /\ k \in Ins /\ k < i
  BY <1>2, <1>5, <1>6, SizeAssumption DEF Direct, Ins
<1>8. k \notin T
  BY <1>3, <1>7 DEF Ins
<1>9. Below(j, k)
  BY <1>6, <1>7, <1>8
<1> QED BY <1>1, <1>4, <1>5, <1>7, <1>9, BelowTransitive DEF Below

(***************************************************************************)
(* The clocks of two kernels on different streams are ordered exactly when *)
(* a chain of records and waits orders the kernels.                        *)
(***************************************************************************)
LEMMA Exact ==
  ASSUME ModelInv, ClockTypeOK, CoverageInv, DirectInv, stage # "thrown",
         NEW i \in Ins, NEW j \in Ins, Visited(i), Visited(j), ModelStream(i) # ModelStream(j)
  PROVE  HappensBefore(timestamp[j], timestamp[i]) <=> j \in Before[i]
<1>1. kernel[i] /\ kernel[j] /\ ModelStream(i) \in Streams /\ ModelStream(j) \in Streams
  BY ModelFacts DEF Visited
<1>2. ASSUME j \in Before[i] PROVE HappensBefore(timestamp[j], timestamp[i])
  BY <1>1, <1>2, BeforeBelow DEF Below, Upto, HappensBefore
<1>3. ASSUME HappensBefore(timestamp[j], timestamp[i]) PROVE j \in Before[i]
  <2> DEFINE D == Before[i] \cup {i}
  <2>1. D \in SUBSET Ins /\ Ordered(D) /\ i \in D
    BY <1>1, BeforeOrdered
  <2>2. Covers(D, timestamp[i])
    <3> HIDE DEF D
    <3> QED BY <2>1 DEF CoverageInv
  <2>3. timestamp[j][ModelStream(j)] <= timestamp[i][ModelStream(j)]
    BY <1>1, <1>3 DEF HappensBefore
  <2>4. j \in D
    <3> HIDE DEF D
    <3> QED BY <2>2, <2>3 DEF Covers
  <2> QED BY <2>4
<1> QED BY <1>2, <1>3

(* Before the first loop has visited anything. *)
ClockInit ==
  /\ stage = "visit" /\ scan = 1
  /\ vclock = [s \in Streams |-> Zero]
  /\ events = [e \in EventIds |-> NoClock]
  /\ timestamp = [i \in Ins |-> NoClock]
  /\ races = {}

LEMMA FreshClocks == ClockInit => AnalysisInv
<1> SUFFICES ASSUME ClockInit PROVE AnalysisInv
  OBVIOUS
<1>1. \A i \in Ins : ~ Visited(i)
  BY SizeAssumption DEF ClockInit, Visited, Ins
<1>2. ClockTypeOK
  BY <1>1, SizeAssumption DEF ClockInit, ClockTypeOK, Clocks, Zero
<1>3. OwnCountInv
  BY <1>1 DEF ClockInit, OwnCountInv, Zero
<1>4. CoverageInv /\ DirectInv /\ ReportedInv
  BY <1>1 DEF ClockInit, CoverageInv, Covers, DirectInv, LastRecord, ReportedInv
<1> QED BY <1>2, <1>3, <1>4 DEF AnalysisInv

(* A module not analysed has not been evaluated, and its analysis never    *)
(* gets in the way of its evaluation.                                      *)
LEMMA WrittenInit ==
  ASSUME AnalyzeInit, written
  PROVE  WrittenInv
<1>1. PICK h \in HandWritten :
        /\ plan = h.plan /\ setStream = h.setStream /\ waits = h.waits /\ record = h.record
        /\ at = N + 1 /\ pc = "visit"
  BY DEF AnalyzeInit
<1>2. ExecInit /\ ClockInit
  BY DEF AnalyzeInit, ClockInit
<1>3. ModuleInv
  BY <1>1, HandWrittenAssumption DEF ModuleInv, IsModule
<1>4. EvaluationInv
  BY <1>2, <1>3, ModuleFacts DEF ExecInit, EvaluationInv, CurrentInv, Started, Ins
<1>5. host = 1
  BY <1>2 DEF ExecInit
<1> QED BY <1>2, <1>3, <1>4, <1>5, FreshClocks DEF WrittenInv

(* Steps that leave the clocks as they are.                                *)
LEMMA ClocksKept ==
  ASSUME OwnCountInv, CoverageInv, DirectInv, UNCHANGED <<plan, setStream, waits, record>>,
         UNCHANGED <<vclock, events, timestamp>>, \A j \in Ins : Visited(j)' <=> Visited(j)
  PROVE  OwnCountInv' /\ CoverageInv' /\ DirectInv'
<1>0. /\ kernel' = kernel /\ \A i \in Ins : ModelStream(i)' = ModelStream(i)
      /\ \A D \in SUBSET Ins : Ordered(D)' <=> Ordered(D)
  BY ModuleStays
<1>1. OwnCountInv'
  BY DEF OwnCountInv
<1>2. CoverageInv'
  <2>1. \A t \in Streams : OnStream(t)' = OnStream(t)
    BY <1>0 DEF OnStream
  <2>2. \A e \in EventIds : \A k \in Ins : LastRecord(e, k)' <=> LastRecord(e, k)
    BY DEF LastRecord
  <2>3. /\ \A D \in SUBSET Ins : \A i \in Ins : Covers(D, timestamp[i])' <=> Covers(D, timestamp[i])
        /\ \A D \in SUBSET Ins : \A s \in Streams : Covers(D, vclock[s])' <=> Covers(D, vclock[s])
        /\ \A D \in SUBSET Ins : \A e \in EventIds : Covers(D, events[e])' <=> Covers(D, events[e])
    BY <1>0 DEF Covers
  <2> QED BY <1>0, <2>1, <2>2, <2>3 DEF CoverageInv
<1>3. DirectInv'
  <2>1. \A e \in EventIds : \A k \in Ins : LastRecord(e, k)' <=> LastRecord(e, k)
    BY DEF LastRecord
  <2>2. \A i, j \in Ins : Follows(i, j)' <=> Follows(i, j)
    BY ModuleStays
  <2> QED BY <1>0, <2>1, <2>2 DEF DirectInv, Upto
<1> QED BY <1>1, <1>2, <1>3

(* They leave what races as it is, too.                                    *)
LEMMA RacingKept ==
  ASSUME ModelInv, UNCHANGED <<plan, setStream, waits, record>>, UNCHANGED timestamp
  PROVE  /\ \A i \in Ins : Racing(i)' = Racing(i)
         /\ \A i \in Ins : Racing(i) \subseteq Ins
<1>1. reads' = reads /\ \A i : ModelStream(i)' = ModelStream(i)
  BY ModuleStays
<1>2. \A i \in Ins : \A j \in reads[i] : j \in Ins
  BY ModelFacts, SizeAssumption DEF Ins
<1>3. \A i \in Ins : OtherInputs(i)' = OtherInputs(i) /\ OtherInputs(i) \subseteq Ins
  BY <1>1, <1>2 DEF OtherInputs
<1> QED BY <1>3 DEF Racing, HappensBefore

(* The steps of the analysis.                                              *)
LEMMA AnalysisStep ==
  ASSUME ModelInv, AnalysisInv, Analyze, UNCHANGED vars
  PROVE  AnalysisInv'
<1>0. UNCHANGED <<plan, setStream, waits, record>> /\ kernel' = kernel
  BY ModuleStays DEF vars, moduleVars
<1>1. CASE Visit
  <2>1. stage = "visit" /\ stage' = "visit"
    BY <1>1 DEF Visit, Visiting
  <2>2. ClockTypeOK' /\ OwnCountInv' /\ CoverageInv' /\ DirectInv'
    BY <1>1, <2>1, VisitStep DEF AnalysisInv
  <2> QED BY <2>1, <2>2 DEF AnalysisInv, ReportedInv
<1>2. CASE VisitStreamless
  <2>1. /\ stage = "visit" /\ stage' = "visit" /\ scan \in Ins /\ ~ kernel[scan] /\ scan' = scan + 1
        /\ UNCHANGED <<vclock, events, timestamp>>
    BY <1>2 DEF VisitStreamless, Visiting
  <2>2. \A j \in Ins : Visited(j)' <=> Visited(j)
    BY <1>0, <2>1 DEF Visited, Ins
  <2>3. ClockTypeOK'
    BY <2>1, <2>2, SizeAssumption DEF AnalysisInv, ClockTypeOK, Ins
  <2>4. OwnCountInv' /\ CoverageInv' /\ DirectInv'
    BY <1>0, <2>1, <2>2, ClocksKept DEF AnalysisInv
  <2> QED BY <2>1, <2>3, <2>4 DEF AnalysisInv, ReportedInv
<1>3. CASE VisitThrows
  BY <1>0, <1>3 DEF VisitThrows, AnalysisInv, ClockTypeOK
<1>4. CASE EndVisit
  <2>1. /\ stage = "visit" /\ stage' = "check" /\ scan = N + 1 /\ scan' = 1
        /\ UNCHANGED <<vclock, events, timestamp>>
    BY <1>4 DEF EndVisit
  <2>2. \A j \in Ins : Visited(j)' <=> Visited(j)
    BY <1>0, <2>1, SizeAssumption DEF Visited, Ins
  <2>3. ClockTypeOK'
    BY <2>1, <2>2, SizeAssumption DEF AnalysisInv, ClockTypeOK
  <2>4. OwnCountInv' /\ CoverageInv' /\ DirectInv'
    BY <1>0, <2>1, <2>2, ClocksKept DEF AnalysisInv
  <2>5. \A i \in Ins : ~ (i < scan')
    BY <2>1 DEF Ins
  <2> QED BY <2>1, <2>3, <2>4, <2>5 DEF AnalysisInv, ReportedInv
<1>5. CASE Check
  <2>1. /\ stage = "check" /\ stage' = "check" /\ scan \in Ins /\ scan' = scan + 1
        /\ UNCHANGED <<vclock, events, timestamp>>
    BY <1>5 DEF Check
  <2>2. \A j \in Ins : Visited(j)' <=> Visited(j)
    BY <1>0, <2>1 DEF Visited
  <2>3. ClockTypeOK'
    BY <2>1, <2>2, SizeAssumption DEF AnalysisInv, ClockTypeOK, Ins
  <2>4. OwnCountInv' /\ CoverageInv' /\ DirectInv'
    BY <1>0, <2>1, <2>2, ClocksKept DEF AnalysisInv
  <2>5. races \subseteq races'
    BY <1>5 DEF Check
  <2>6. kernel[scan] /\ Racing(scan) # {} => \E j \in Ins : <<scan, j>> \in races'
    BY <1>0, <1>5, <2>1, RacingKept DEF Check
  <2>7. ASSUME NEW i \in Ins, kernel[i], i < scan', \A j \in Ins : <<i, j>> \notin races'
        PROVE  Racing(i) = {}
    <3>1. CASE i = scan
      BY <2>6, <2>7, <3>1
    <3>2. CASE i # scan
      <4>1. i < scan
        BY <2>1, <2>7, <3>2 DEF Ins
      <4> QED BY <2>1, <2>5, <2>7, <4>1 DEF AnalysisInv, ReportedInv
    <3> QED BY <3>1, <3>2
  <2>8. ReportedInv'
    <3>1. \A i \in Ins : Racing(i)' = Racing(i)
      BY <1>0, <2>1, RacingKept
    <3> QED BY <1>0, <2>1, <2>7, <3>1 DEF ReportedInv
  <2> QED BY <2>3, <2>4, <2>8 DEF AnalysisInv
<1>6. CASE EndCheck
  <2>1. /\ stage = "check" /\ stage' = "analyzed" /\ scan = N + 1 /\ scan' = scan
        /\ UNCHANGED <<vclock, events, timestamp, races>>
    BY <1>6 DEF EndCheck
  <2>2. \A j \in Ins : Visited(j)' <=> Visited(j)
    BY <1>0, <2>1 DEF Visited
  <2>3. ClockTypeOK'
    BY <2>1, <2>2 DEF AnalysisInv, ClockTypeOK
  <2>4. OwnCountInv' /\ CoverageInv' /\ DirectInv'
    BY <1>0, <2>1, <2>2, ClocksKept DEF AnalysisInv
  <2>5. \A i \in Ins : Racing(i)' = Racing(i)
    BY <1>0, <2>1, RacingKept
  <2>6. \A i \in Ins : i < scan
    BY <2>1, SizeAssumption DEF Ins
  <2>7. ReportedInv'
    BY <1>0, <2>1, <2>5, <2>6 DEF AnalysisInv, ReportedInv
  <2> QED BY <2>3, <2>4, <2>7 DEF AnalysisInv
<1> QED BY <1>1, <1>2, <1>3, <1>4, <1>5, <1>6 DEF Analyze

(* Steps that leave all of it as it is. *)
LEMMA AnalysisKept ==
  ASSUME ModelInv, AnalysisInv, UNCHANGED <<plan, setStream, waits, record>>,
         UNCHANGED analyzeVars
  PROVE  AnalysisInv'
<1>1. \A j \in Ins : Visited(j)' <=> Visited(j)
  BY ModuleStays DEF Visited, analyzeVars
<1>2. ClockTypeOK'
  BY <1>1 DEF AnalysisInv, ClockTypeOK, analyzeVars
<1>3. stage # "thrown" => OwnCountInv' /\ CoverageInv' /\ DirectInv'
  BY <1>1, ClocksKept DEF AnalysisInv, analyzeVars
<1>4. stage # "thrown" => ReportedInv'
  <2>1. \A i \in Ins : Racing(i)' = Racing(i)
    BY RacingKept DEF analyzeVars
  <2> QED BY <2>1, ModuleStays DEF AnalysisInv, ReportedInv, analyzeVars
<1> QED BY <1>2, <1>3, <1>4 DEF AnalysisInv, analyzeVars

(* The invariant of a hand written module.                                 *)
LEMMA WrittenStep ==
  ASSUME WrittenInv, [AnalyzeNext]_<<vars, analyzeVars>>
  PROVE  WrittenInv'
<1>0. ModuleInv /\ ModelInv /\ AnalysisInv /\ EvaluationInv /\ (stage # "analyzed" => host = 1)
  BY ModuleIsModel DEF WrittenInv
<1>1. ~ Compile
  <2>1. at = N + 1 /\ pc = "visit" /\ N \in Nat \ {0}
    BY <1>0, SizeAssumption DEF ModuleInv
  <2> QED BY <2>1 DEF Compile, PassNext, NoConcurrency, Skip, Sched, WaitOn, Leave, Ins
<1>2. ModuleInv'
  <2>1. UNCHANGED <<plan, setStream, waits, record, at, pc>>
    BY <1>1 DEF AnalyzeNext, Evaluate, vars, moduleVars, passVars
  <2> QED BY <1>0, <2>1 DEF ModuleInv, IsModule
<1>3. CASE PassDone /\ Analyze /\ UNCHANGED vars
  <2>1. AnalysisInv'
    BY <1>0, <1>3, AnalysisStep
  <2>2. /\ UNCHANGED <<plan, setStream, waits, record>>
        /\ UNCHANGED <<phase, host, cur, launched, hold, status>>
    BY <1>3 DEF vars, moduleVars, execVars
  <2>3. EvaluationInv'
    <3>1. CurrentInv'
      BY <1>0, <2>2, CurrentNext DEF EvaluationInv, CurrentInv
    <3> QED BY <1>0, <2>2, <3>1, ModuleStays DEF EvaluationInv, Started
  <2>4. stage' # "analyzed" => host' = 1
    <3>1. stage = "analyzed" => FALSE
      BY <1>3 DEF Analyze, Visit, VisitStreamless, VisitThrows, Visiting, EndVisit, Check, EndCheck
    <3> QED BY <1>0, <2>2, <3>1
  <2> QED BY <1>2, <2>1, <2>3, <2>4 DEF WrittenInv
<1>4. CASE (stage = "analyzed" /\ Evaluate /\ UNCHANGED analyzeVars) \/ UNCHANGED <<vars, analyzeVars>>
  <2>1. UNCHANGED <<plan, setStream, waits, record>> /\ UNCHANGED analyzeVars
    BY <1>4 DEF Evaluate, vars, moduleVars
  <2>6. AnalysisInv'
    BY <1>0, <2>1, AnalysisKept
  <2>7. CASE stage = "analyzed" /\ Evaluate
    <3>1. EvaluationInv'
      BY <1>0, <2>1, <2>7, EvaluationStep DEF Evaluate
    <3> QED BY <1>2, <2>1, <2>6, <2>7, <3>1 DEF WrittenInv, analyzeVars
  <2>8. CASE UNCHANGED <<vars, analyzeVars>>
    <3>1. UNCHANGED <<phase, host, cur, launched, hold, status, stage>>
      BY <2>8 DEF vars, execVars, analyzeVars
    <3>2. CurrentInv'
      BY <1>0, <2>1, <3>1, CurrentNext DEF EvaluationInv, CurrentInv
    <3>3. EvaluationInv'
      BY <1>0, <2>1, <3>1, <3>2, ModuleStays DEF EvaluationInv, Started
    <3> QED BY <1>0, <1>2, <2>6, <3>1, <3>3 DEF WrittenInv
  <2> QED BY <1>4, <2>7, <2>8
<1> QED BY <1>1, <1>3, <1>4 DEF AnalyzeNext

(* What has started and was not reported found its inputs complete: the    *)
(* kernels completed and it are closed under what is ordered before.       *)
LEMMA UnreportedSafe ==
  ASSUME WrittenInv
  PROVE  UnreportedIsRaceFree
<1> SUFFICES ASSUME NEW i \in Ins, Started(i), \A j \in Ins : <<i, j>> \notin races,
                    NEW j \in reads[i]
             PROVE  status[j] = "done"
  BY DEF UnreportedIsRaceFree
<1>0. ModuleInv /\ ModelInv /\ AnalysisInv /\ EvaluationInv /\ (stage # "analyzed" => host = 1)
  BY ModuleIsModel DEF WrittenInv
<1>1. kernel[i] /\ stage = "analyzed"
  <2>1. kernel[i] /\ i < host
    BY <1>0 DEF Started, EvaluationInv
  <2>2. host # 1
    BY <2>1 DEF Ins
  <2> QED BY <1>0, <2>1, <2>2
<1>2. kernel[j] /\ j < i /\ j \in Ins
  BY <1>0, ModuleFacts DEF Ins
<1>3. CASE ModelStream(j) = ModelStream(i)
  BY <1>0, <1>2, <1>3 DEF Follows, EvaluationInv
<1>4. CASE ModelStream(j) # ModelStream(i)
  <2> DEFINE D == Done \cup {i}
  <2>1. D \in SUBSET Ins /\ Ordered(D)
    <3>1. \A k \in D : k \in Ins /\ Started(k)
      BY DEF Done, Started
    <3>2. \A k \in D : \A l \in Ins : Follows(k, l) => l \in D
      BY <1>0, <3>1 DEF EvaluationInv, Done
    <3> QED BY <3>1, <3>2 DEF Ordered
  <2>2. Covers(D, timestamp[i])
    <3> HIDE DEF D
    <3>1. i \in D
      BY DEF D
    <3> QED BY <1>0, <1>1, <2>1, <3>1 DEF AnalysisInv, CoverageInv, Visited
  <2>3. HappensBefore(timestamp[j], timestamp[i])
    BY <1>0, <1>1, <1>2, <1>4 DEF AnalysisInv, ReportedInv, Racing, OtherInputs
  <2>4. ModelStream(j) \in Streams
    BY <1>0, <1>2, KernelsOnStreams
  <2>5. j \in D
    <3> HIDE DEF D
    <3> QED BY <1>1, <1>2, <2>2, <2>3, <2>4 DEF Covers, Visited, HappensBefore
  <2> QED BY <1>2, <2>5 DEF Done, Ins
<1> QED BY <1>3, <1>4

-----------------------------------------------------------------------------
(* What the pass records: after kernels, at most one event each, before    *)
(* any stream knows of it.                                                 *)
RecordedInv ==
  /\ waitId <= Cardinality({j \in Ins : record[j] # NoEvent})
  /\ \A j \in Ins : record[j] # NoEvent => HasStream(j)
  /\ \A s \in Streams : \A j \in Ins : record[j] \in waitedFor[s] => j < at
  /\ \A i, j \in Ins : record[j] \in known[i] => j < i

LEMMA RecordedInit == Init => RecordedInv
<1> SUFFICES ASSUME Init PROVE RecordedInv
  OBVIOUS
<1>1. waitId = 0 /\ record = [i \in Ins |-> NoEvent] /\ waitedFor = [s \in Streams |-> {}]
      /\ known = [i \in Ins |-> {}]
  BY DEF Init, ModuleInit, PassInit
<1>2. {j \in Ins : record[j] # NoEvent} = {}
  BY <1>1
<1> QED BY <1>1, <1>2, FS_EmptySet DEF RecordedInv

LEMMA RecordedStep == TypeOK /\ PassInv /\ RecordedInv /\ [Next]_vars => RecordedInv'
<1> SUFFICES ASSUME TypeOK, PassInv, RecordedInv, [Next]_vars PROVE RecordedInv'
  OBVIOUS
<1>0. /\ at \in 1..(N + 1) /\ waitId \in Nat /\ IsPlan(plan)
      /\ waitedFor \in [Streams -> SUBSET Events] /\ known \in [Ins -> SUBSET Events]
      /\ record \in [Ins -> Events \cup {NoEvent}]
  BY DEF TypeOK, ModuleTypeOK, PassTypeOK
<1>1. ASSUME UNCHANGED <<plan, record, waitId, waitedFor, known>>, at <= at', at' \in Nat
      PROVE  RecordedInv'
  <2>1. \A j \in Ins : HasStream(j)' <=> HasStream(j)
    BY <1>1 DEF HasStream, stream
  <2>2. \A j \in Ins : j < at => j < at'
    BY <1>0, <1>1, SizeAssumption DEF Ins
  <2> QED BY <1>1, <2>1, <2>2 DEF RecordedInv
<1>2. ASSUME NEW j \in Ins, WaitOn(j) PROVE RecordedInv'
  <2> DEFINE s == stream[at]
             w == IF record[j] = NoEvent THEN waitId ELSE record[j]
  <2>1. /\ at \in Ins /\ s \in Streams /\ HasStream(j) /\ j < at
    <3>1. at \in Ins /\ HasStream(at) /\ j \in deps[at] /\ j \in OtherStream(at)
      BY <1>2 DEF WaitOn, TypeOK, PassTypeOK, PassInv, LoopInv, OtherStream, RecordedInstructions
    <3> QED BY <1>0, <3>1, PlanFacts, SizeAssumption DEF HasStream, Ins
  <2>2. /\ record' = [record EXCEPT ![j] = w] /\ at' = at /\ plan' = plan /\ known' = known
        /\ waitId' = IF record[j] = NoEvent THEN waitId + 1 ELSE waitId
        /\ waitedFor' = [waitedFor EXCEPT ![s] = @ \cup {w} \cup ins2waited[j]]
    BY <1>2 DEF WaitOn
  <2>3. \A k \in Ins : HasStream(k)' <=> HasStream(k)
    BY <2>2 DEF HasStream, stream
  <2>4. w \in Events /\ w # NoEvent /\ (record[j] = NoEvent => w = waitId) /\ (record[j] # NoEvent => w = record[j])
    BY <1>0 DEF Events, NoEvent
  <2> HIDE DEF s, w
  <2>5. record'[j] = w /\ \A k \in Ins : k # j => record'[k] = record[k]
    BY <1>0, <2>2
  <2>6. \A k \in Ins : record[k] = w => k = j
    <3>1. record[j] = NoEvent => \A k \in Ins : record[k] < w
      BY <2>4 DEF PassInv, EventsInv
    <3>2. \A k \in Ins : record[k] \in Int
      BY <1>0 DEF Events, NoEvent
    <3>3. record[j] = NoEvent => \A k \in Ins : record[k] # w
      BY <1>0, <2>4, <3>1, <3>2 DEF Events
    <3> QED BY <2>4, <3>3 DEF PassInv, EventsInv
  <2>7. waitId' <= Cardinality({k \in Ins : record'[k] # NoEvent})
    <3> DEFINE S == {k \in Ins : record[k] # NoEvent}
    <3>1. {k \in Ins : record'[k] # NoEvent} = S \cup {j}
      BY <2>4, <2>5
    <3>2. IsFiniteSet(S)
      <4>1. IsFiniteSet(Ins) /\ S \in SUBSET Ins
        BY SizeAssumption, FS_Interval DEF Ins
      <4> HIDE DEF S
      <4> QED BY <4>1, FS_Subset
    <3>3. j \in S <=> record[j] # NoEvent
      OBVIOUS
    <3>4. waitId <= Cardinality(S)
      BY DEF RecordedInv
    <3> HIDE DEF S
    <3>5. Cardinality(S) \in Nat /\ Cardinality(S \cup {j}) = IF j \in S THEN Cardinality(S) ELSE Cardinality(S) + 1
      BY <3>2, FS_AddElement, FS_CardinalityType
    <3> QED BY <1>0, <2>2, <3>1, <3>3, <3>4, <3>5
  <2>8. \A k \in Ins : record'[k] # NoEvent => HasStream(k)
    BY <2>1, <2>5 DEF RecordedInv
  <2>9. ASSUME NEW t \in Streams, NEW k \in Ins, record'[k] \in waitedFor'[t] PROVE k < at
    <3>1. CASE k = j
      BY <2>1, <3>1
    <3>2. CASE k # j
      <4>1. record[k] \in waitedFor'[t] /\ record[k] # w
        BY <2>5, <2>6, <2>9, <3>2
      <4>2. record[k] \in waitedFor[t] \/ record[k] \in ins2waited[j]
        BY <1>0, <2>1, <2>2, <4>1
      <4>3. record[k] \in ins2waited[j] => k < j
        BY DEF PassInv, LoopInv, RecordedInv
      <4>4. record[k] \in waitedFor[t] => k < at
        BY DEF RecordedInv
      <4> QED BY <2>1, <4>2, <4>3, <4>4 DEF Ins
    <3> QED BY <3>1, <3>2
  <2>10. ASSUME NEW i \in Ins, NEW k \in Ins, record'[k] \in known[i] PROVE k < i
    <3>1. record[j] = NoEvent => w \notin known[i]
      BY <1>0, <2>4 DEF PassInv, EventsInv, Events
    <3>2. record[k] \in known[i]
      BY <2>4, <2>5, <2>10, <3>1
    <3> QED BY <3>2 DEF RecordedInv
  <2> QED BY <2>2, <2>3, <2>7, <2>8, <2>9, <2>10 DEF RecordedInv
<1>3. CASE Leave
  <2>1. /\ at \in Ins /\ stream[at] \in Streams /\ at' = at + 1
        /\ known' = [known EXCEPT ![at] = waitedFor[stream[at]]]
        /\ UNCHANGED <<plan, record, waitId, waitedFor>>
    <3>1. at \in Ins /\ HasStream(at)
      BY <1>3 DEF Leave, TypeOK, PassTypeOK
    <3> QED BY <1>0, <1>3, <3>1, PlanFacts DEF Leave, moduleVars, HasStream
  <2>2. \A j \in Ins : HasStream(j)' <=> HasStream(j)
    BY <2>1 DEF HasStream, stream
  <2>3. \A j \in Ins : j < at => j < at'
    BY <2>1 DEF Ins
  <2>4. \A i, j \in Ins : record[j] \in known'[i] => j < i
    BY <1>0, <2>1 DEF RecordedInv
  <2> QED BY <2>1, <2>2, <2>3, <2>4 DEF RecordedInv
<1>4. CASE ~ (\E j \in Ins : WaitOn(j)) /\ ~ Leave
  <2>1. UNCHANGED <<plan, record, waitId, waitedFor, known>> /\ at <= at' /\ at' \in Nat
    BY <1>0, <1>4, SizeAssumption
    DEF Next, vars, Compile, Evaluate, PassNext, NoConcurrency, Skip, Sched, moduleVars, passVars
  <2> QED BY <1>1, <2>1
<1> QED BY <1>2, <1>3, <1>4

-----------------------------------------------------------------------------
(* A scheduled module is one to analyse, each kernel on its own stream.    *)
LEMMA ScheduledModel ==
  ASSUME Base, RecordedInv, PassDone
  PROVE  /\ \A i \in Ins : kernel[i] => ModelStream(i) = stream[i] /\ ModelStream(i) \in Streams
         /\ ModelInv
<1>1. \A i \in Ins : Entered(i) /\ i < at
  BY SizeAssumption DEF PassDone, Entered, Ins
<1>2. ASSUME NEW i \in Ins, kernel[i]
      PROVE  ModelStream(i) = stream[i] /\ ModelStream(i) \in Streams
  <2>1. HasStream(i) /\ stream[i] \in Streams
    BY <1>2, PlanAtEvaluation
  <2>2. CASE setStream[i]
    BY <2>1, <2>2 DEF ModelStream
  <2>3. CASE ~ Concurrent /\ \A k \in Ins : ~ setStream[k]
    <3>1. SetBefore(i) = {}
      BY <2>3, SizeAssumption DEF SetBefore, Ins
    <3>2. stream[i] = 0
      BY <2>1, <2>3 DEF Concurrent
    <3> QED BY <2>1, <2>3, <3>1, <3>2 DEF ModelStream
  <2>4. CASE ~ setStream[i] /\ \E q \in Ins : CurrentSet(i, q) /\ stream[q] = stream[i]
    <3>1. PICK q \in Ins : CurrentSet(i, q) /\ stream[q] = stream[i]
      BY <2>4
    <3>2. \A r \in Ins : CurrentSet(i, r) => r = q
      BY <3>1 DEF CurrentSet, Ins
    <3>3. (CHOOSE r \in Ins : CurrentSet(i, r)) = q
      BY <3>1, <3>2
    <3>4. SetBefore(i) # {}
      BY <3>1 DEF CurrentSet
    <3> QED BY <2>1, <2>4, <3>1, <3>3, <3>4 DEF ModelStream
  <2> QED BY <1>1, <2>1, <2>2, <2>3, <2>4 DEF Base, PassInv, SetStreamInv
<1>3. \A e \in Nat : e < waitId => e \in EventIds
  <2>1. Cardinality({j \in Ins : record[j] # NoEvent}) <= N
    <3> DEFINE S == {j \in Ins : record[j] # NoEvent}
    <3>1. IsFiniteSet(Ins) /\ Cardinality(Ins) = N /\ S \in SUBSET Ins
      BY SizeAssumption, FS_Interval DEF Ins
    <3> HIDE DEF S
    <3>2. Cardinality(S) <= N
      BY <3>1, FS_Subset
    <3> QED BY <3>2 DEF S
  <2>2. Cardinality({j \in Ins : record[j] # NoEvent}) \in Nat
    <3>1. IsFiniteSet(Ins) /\ {j \in Ins : record[j] # NoEvent} \in SUBSET Ins
      BY SizeAssumption, FS_Interval DEF Ins
    <3> QED BY <3>1, FS_Subset, FS_CardinalityType
  <2>3. waitId \in Nat /\ waitId <= N
    BY <2>1, <2>2, SizeAssumption DEF RecordedInv, Base, TypeOK, PassTypeOK
  <2> QED BY <2>3, SizeAssumption DEF EventIds
<1>4. waits \in [Ins -> SUBSET EventIds] /\ record \in [Ins -> EventIds \cup {NoEvent}]
  <2>1. waits \in [Ins -> SUBSET Nat] /\ record \in [Ins -> Nat \cup {NoEvent}]
    BY DEF Base, TypeOK, ModuleTypeOK, Events
  <2>2. (\A i \in Ins : \A e \in waits[i] : e < waitId) /\ \A j \in Ins : record[j] < waitId
    BY DEF Base, PassInv, EventsInv
  <2>3. (\A i \in Ins : waits[i] \in SUBSET EventIds) /\ \A i \in Ins : record[i] \in EventIds \cup {NoEvent}
    BY <1>3, <2>1, <2>2
  <2> QED BY <2>1, <2>3
<1>5. \A i \in Ins : record[i] # NoEvent => kernel[i]
  BY PlanAtEvaluation DEF RecordedInv
<1>6. \A i \in Ins : reads[i] \subseteq 1..(i - 1) /\ \A j \in reads[i] : kernel[j]
  <2>1. \A i \in Ins : \A j \in deps[i] : j \in Ins /\ HasStream(j)
    BY PlanFacts DEF Base, TypeOK, ModuleTypeOK
  <2> QED BY <2>1, PlanAtEvaluation
<1> QED BY <1>2, <1>4, <1>5, <1>6 DEF ModelInv, Base, TypeOK, ModuleTypeOK

(* Kernels closed under what streams and events order are closed under     *)
(* what the pass takes for known.                                          *)
LEMMA OrderedIsClosed ==
  ASSUME Base, RecordedInv, PassDone, NEW D \in SUBSET Ins, Ordered(D), \A k \in D : kernel[k]
  PROVE  Closed(D)
<1>0. /\ \A i \in Ins : HasStream(i) => kernel[i] /\ ModelStream(i) = stream[i]
      /\ \A i \in Ins : kernel[i] => HasStream(i) /\ i < at
  BY ScheduledModel, PlanAtEvaluation, SizeAssumption DEF PassDone, Ins
<1> DEFINE T == {k \in D : ~ Fired(D, known[k])}
<1> SUFFICES ASSUME T # {} PROVE FALSE
  BY DEF Closed
<1>1. PICK k \in T : \A u \in T : k <= u
  <2>1. T \in SUBSET Nat
    BY ModelFacts, ScheduledModel
  <2> HIDE DEF T
  <2> QED BY <2>1, SmallestExists
<1>2. k \in D /\ k \in Ins /\ kernel[k] /\ HasStream(k) /\ k < at
  BY <1>0, <1>1
<1> DEFINE E == {l \in D : l < k}
<1>3. E \in SUBSET Ins /\ Closed(E)
  <2>1. ASSUME NEW l \in E, NEW m \in Ins, record[m] \in known[l] PROVE m \in E
    <3>1. l \in D /\ l \in Ins /\ l < k /\ l \notin T
      BY <1>1, <1>2 DEF Ins
    <3>2. m \in D
      BY <2>1, <3>1 DEF Fired
    <3>3. m < l
      BY <2>1, <3>1 DEF RecordedInv
    <3> QED BY <1>2, <3>1, <3>2, <3>3 DEF Ins
  <2> QED BY <2>1 DEF Closed, Fired
<1>4. Earlier(k, stream[k]) \subseteq E
  <2> SUFFICES ASSUME NEW p \in Earlier(k, stream[k]) PROVE p \in E
    OBVIOUS
  <2>1. p \in Ins /\ p < k /\ stream[p] = stream[k] /\ HasStream(p)
    BY <1>2, SizeAssumption DEF Earlier, Ins, HasStream
  <2>2. Follows(k, p)
    BY <1>0, <1>2, <2>1 DEF Follows
  <2> QED BY <1>2, <2>1, <2>2 DEF Ordered
<1>5. Fired(E, waits[k])
  <2> SUFFICES ASSUME NEW m \in Ins, record[m] \in waits[k] PROVE m \in E
    BY DEF Fired
  <2>1. record[m] # NoEvent
    BY <1>2 DEF Base, TypeOK, ModuleTypeOK, Events, NoEvent
  <2>2. \A l \in Ins : record[l] = record[m] => l = m
    BY <2>1 DEF Base, PassInv, EventsInv
  <2>3. m < k
    <3>1. PICK l \in 1..(k - 1) : record[l] = record[m]
      BY <1>2 DEF Base, PassInv, WaitsInv
    <3> QED BY <1>2, <2>2, <3>1, SizeAssumption DEF Ins
  <2>4. Awaits(k, m)
    <3>1. \A l \in Ins : m < l /\ l < k => record[l] # record[m]
      BY <2>2 DEF Ins
    <3> QED BY <2>3, <3>1 DEF Awaits
  <2>5. kernel[m]
    BY <1>0, <2>1 DEF RecordedInv
  <2> QED BY <1>2, <2>3, <2>4, <2>5 DEF Follows, Ordered
<1>6. Fired(E, known[k])
  <2> HIDE DEF E
  <2> QED BY <1>2, <1>3, <1>4, <1>5 DEF Base, PassInv, KnownInv
<1> QED BY <1>1, <1>6 DEF Fired

(* What a kernel of a scheduled module reads comes before it. *)
LEMMA ReadsBefore ==
  ASSUME Base, RecordedInv, PassDone, NEW i \in Ins, kernel[i], NEW j \in reads[i]
  PROVE  j \in Before[i]
<1>0. /\ \A k \in Ins : kernel[k] <=> HasStream(k)
      /\ \A k \in Ins : kernel[k] => ModelStream(k) = stream[k]
      /\ reads[i] = deps[i] /\ i < at /\ ModelInv
  BY ScheduledModel, PlanAtEvaluation, SizeAssumption DEF PassDone, Ins
<1> DEFINE D == Before[i] \cup {i}
<1>1. /\ D \in SUBSET Ins /\ Ordered(D) /\ i \in D /\ \A k \in D : kernel[k]
  BY <1>0, BeforeOrdered, BeforeFacts
<1> HIDE DEF D
<1>2. Closed(D)
  BY <1>1, OrderedIsClosed
<1>3. \A k \in deps[i] : k \in Ins /\ k < i /\ kernel[k] /\ HasStream(k)
  BY <1>0, PlanFacts, SizeAssumption DEF Base, TypeOK, ModuleTypeOK, Ins
<1>4. \A k \in D : \A l \in Ins : kernel[l] /\ l < k /\ stream[l] = stream[k] => l \in D
  BY <1>0, <1>1 DEF Ordered, Follows
<1>5. j \in D
  <2>1. CASE stream[j] = stream[i]
    BY <1>0, <1>1, <1>3, <1>4, <2>1
  <2>2. CASE stream[j] # stream[i]
    <3> DEFINE S == {m \in deps[i] : stream[m] = stream[j]}
    <3>1. PICK r \in S : \A m \in S : m <= r
      <4>1. S \in SUBSET Ins /\ S # {}
        BY <1>0, <1>3
      <4> HIDE DEF S
      <4> QED BY <4>1, LastExists
    <3>2. r \in Ins /\ r \in OtherStream(i) /\ j <= r /\ stream[r] = stream[j]
      BY <1>0, <1>3, <2>2, <3>1 DEF OtherStream, RecordedInstructions
    <3>3. record[r] \in known[i]
      BY <1>0, <3>2 DEF Base, PassInv, CoverInv
    <3>4. r \in D
      BY <1>1, <1>2, <3>2, <3>3 DEF Closed, Fired
    <3>5. j \in Ins /\ kernel[j]
      BY <1>0, <1>3
    <3>6. j = r \/ j < r
      BY <3>2, <3>5 DEF Ins
    <3> QED BY <1>4, <3>2, <3>4, <3>5, <3>6
  <2> QED BY <2>1, <2>2
<1>6. j # i
  BY <1>0, <1>3 DEF Ins
<1> QED BY <1>5, <1>6 DEF D

-----------------------------------------------------------------------------
(* The analysis of a module the pass makes: it does not throw and reports  *)
(* nothing.                                                                *)
ScheduledInv ==
  /\ Inv /\ RecordedInv
  /\ IF PassDone THEN stage # "thrown" /\ races = {} /\ AnalysisInv ELSE ClockInit

LEMMA ScheduledInit == ASSUME FlatPlans, AnalyzeInit, ~ written PROVE ScheduledInv
<1>1. Init /\ ClockInit /\ ~ PassDone
  BY SizeAssumption DEF AnalyzeInit, Init, ClockInit, PassInit, PassDone
<1> QED BY <1>1, InitInv, RecordedInit DEF ScheduledInv

(* Every event is recorded before the first wait for it is visited. *)
LEMMA NoThrow == ASSUME ScheduledInv, PassDone PROVE ~ VisitThrows
<1> SUFFICES ASSUME scan \in Ins, stage = "visit", NEW e \in waits[scan] PROVE events[e] # NoClock
  BY DEF VisitThrows, Visiting
<1>0. Base /\ RecordedInv /\ AnalysisInv
  BY DEF ScheduledInv, Inv, Base
<1>1. e # NoEvent /\ e \in EventIds
  BY <1>0, ModelFacts, ScheduledModel, SizeAssumption DEF EventIds, NoEvent
<1>2. PICK j \in 1..(scan - 1) : record[j] = e
  BY <1>0 DEF Base, PassInv, WaitsInv
<1>3. j \in Ins /\ j < scan /\ kernel[j]
  BY <1>0, <1>1, <1>2, ModelFacts, ScheduledModel, SizeAssumption DEF Ins
<1>4. \A l \in Ins : record[l] = e => l = j
  BY <1>0, <1>1, <1>2, <1>3 DEF Base, PassInv, EventsInv
<1>5. LastRecord(e, j)
  <2>1. \A l \in Ins : j < l => l # j
    BY DEF Ins
  <2> QED BY <1>2, <1>3, <1>4, <2>1 DEF LastRecord, Visited
<1> QED BY <1>0, <1>1, <1>3, <1>5 DEF AnalysisInv, DirectInv

(* Every input on another stream happens before. *)
LEMMA NoneRaces ==
  ASSUME ScheduledInv, PassDone, stage = "check", NEW i \in Ins, kernel[i]
  PROVE  Racing(i) = {}
<1> SUFFICES ASSUME NEW j \in reads[i], ModelStream(j) # ModelStream(i)
             PROVE  HappensBefore(timestamp[j], timestamp[i])
  BY DEF Racing, OtherInputs
<1>0. Base /\ RecordedInv /\ AnalysisInv /\ ModelInv
  BY ScheduledModel DEF ScheduledInv, Inv, Base
<1>1. j \in Ins /\ kernel[j]
  BY <1>0, ModelFacts DEF Ins
<1>2. Visited(i) /\ Visited(j)
  BY <1>1 DEF Visited
<1>3. j \in Before[i]
  BY <1>0, ReadsBefore
<1> QED BY <1>0, <1>1, <1>2, <1>3, Exact DEF AnalysisInv

LEMMA ScheduledStep ==
  ASSUME ScheduledInv, [AnalyzeNext]_<<vars, analyzeVars>>
  PROVE  ScheduledInv'
<1>1. [Next]_vars
  BY DEF AnalyzeNext, Next
<1>2. Inv' /\ RecordedInv'
  BY <1>1, StepInv, RecordedStep DEF ScheduledInv, Inv
<1>3. CASE Compile /\ UNCHANGED analyzeVars
  <2>1. ~ PassDone
    BY <1>3, SizeAssumption
    DEF ScheduledInv, Inv, TypeOK, PassTypeOK, PassDone, Compile, PassNext, NoConcurrency, Skip,
        Sched, WaitOn, Leave, Ins
  <2>2. ClockInit'
    BY <1>3, <2>1 DEF ScheduledInv, ClockInit, analyzeVars
  <2>3. AnalysisInv' /\ stage' # "thrown" /\ races' = {}
    <3>1. AnalysisInv'
      BY <2>2, FreshClocks, PTL
    <3> QED BY <2>2, <3>1 DEF ClockInit
  <2> QED BY <1>2, <2>2, <2>3 DEF ScheduledInv
<1>4. ASSUME PassDone
      PROVE  Base /\ ModelInv /\ AnalysisInv /\ stage # "thrown" /\ races = {}
  BY <1>4, ScheduledModel DEF ScheduledInv, Inv, Base
<1>5. CASE PassDone /\ Analyze /\ UNCHANGED vars
  <2>1. PassDone'
    BY <1>5 DEF PassDone, vars, passVars
  <2>2. AnalysisInv'
    BY <1>4, <1>5, AnalysisStep
  <2>3. stage' # "thrown"
    BY <1>4, <1>5, NoThrow DEF Analyze, Visit, VisitStreamless, EndVisit, Check, EndCheck
  <2>4. races' = {}
    <3>1. CASE Check
      BY <1>4, <1>5, <3>1, NoneRaces DEF Check
    <3>2. CASE ~ Check
      BY <1>4, <1>5, <3>2 DEF Analyze, Visit, VisitStreamless, VisitThrows, EndVisit, EndCheck
    <3> QED BY <3>1, <3>2
  <2> QED BY <1>2, <2>1, <2>2, <2>3, <2>4 DEF ScheduledInv
<1>6. CASE UNCHANGED <<moduleVars, passVars>> /\ UNCHANGED analyzeVars
  <2>1. PassDone' <=> PassDone
    BY <1>6 DEF PassDone, passVars
  <2>2. PassDone => AnalysisInv'
    BY <1>4, <1>6, AnalysisKept DEF moduleVars
  <2> QED BY <1>2, <1>6, <2>1, <2>2 DEF ScheduledInv, ClockInit, analyzeVars
<1> QED BY <1>3, <1>5, <1>6 DEF AnalyzeNext, Evaluate, vars

-----------------------------------------------------------------------------
(* A module the pass makes is evaluated as in ScheduledExec, a hand        *)
(* written one as its clocks tell.                                         *)
AnalyzedInv == IF written THEN WrittenInv ELSE ScheduledInv

(* The invariant of the analysis and of the evaluation after it, for every *)
(* module: of the plans or hand written.                                   *)
THEOREM AnalyzedInvHolds == ASSUME FlatPlans PROVE AnalyzeSpec => []AnalyzedInv
<1>1. AnalyzeInit => AnalyzedInv
  BY WrittenInit, ScheduledInit DEF AnalyzedInv
<1>2. AnalyzedInv /\ [AnalyzeNext]_<<vars, analyzeVars>> => AnalyzedInv'
  <2> SUFFICES ASSUME AnalyzedInv, [AnalyzeNext]_<<vars, analyzeVars>> PROVE AnalyzedInv'
    OBVIOUS
  <2>1. written' = written
    BY DEF AnalyzeNext, Analyze, Visit, VisitStreamless, VisitThrows, EndVisit, Check, EndCheck,
           analyzeVars
  <2> QED BY <2>1, WrittenStep, ScheduledStep DEF AnalyzedInv
<1> QED BY <1>1, <1>2, PTL DEF AnalyzeSpec

(***************************************************************************)
(* An instruction analyze_streams does not report is free of races: it     *)
(* starts when what it reads is complete, in every evaluation, whatever    *)
(* the module and wherever its streams, records and waits are.             *)
(***************************************************************************)
THEOREM UnreportedDoesNotRace == ASSUME FlatPlans PROVE AnalyzeSpec => []UnreportedIsRaceFree
<1>1. AnalyzedInv => UnreportedIsRaceFree
  <2>1. CASE written
    BY <2>1, UnreportedSafe DEF AnalyzedInv
  <2>2. CASE ~ written
    BY <2>2 DEF AnalyzedInv, ScheduledInv, Inv, ExecInv, QueuesInv, InputsReady, UnreportedIsRaceFree, Done
  <2> QED BY <2>1, <2>2
<1> QED BY <1>1, AnalyzedInvHolds, PTL

(***************************************************************************)
(* The vector clocks of analyze_streams are exact: of two kernels on       *)
(* different streams the clock of one is before that of the other exactly  *)
(* when a chain of records, waits and stream orders leads from it to the   *)
(* other.  The check therefore neither misses nor invents a race.          *)
(***************************************************************************)
THEOREM ExactClocks == ASSUME FlatPlans PROVE AnalyzeSpec => []ClocksAreExact
<1>1. AnalyzedInv => ClocksAreExact
  <2> SUFFICES ASSUME AnalyzedInv, stage = "check", NEW i \in Ins, NEW j \in Ins,
                      kernel[i], kernel[j], ModelStream(i) # ModelStream(j)
               PROVE  HappensBefore(timestamp[j], timestamp[i]) <=> j \in Before[i]
    BY DEF ClocksAreExact
  <2>1. ModelInv /\ AnalysisInv
    <3>1. CASE written
      BY <3>1, ModuleIsModel DEF AnalyzedInv, WrittenInv
    <3>2. CASE ~ written
      <4>1. PassDone
        BY <3>2 DEF AnalyzedInv, ScheduledInv, ClockInit
      <4> QED BY <3>2, <4>1, ScheduledModel DEF AnalyzedInv, ScheduledInv, Inv, Base
    <3> QED BY <3>1, <3>2
  <2>2. Visited(i) /\ Visited(j)
    BY DEF Visited
  <2> QED BY <2>1, <2>2, Exact DEF AnalysisInv
<1> QED BY <1>1, AnalyzedInvHolds, PTL

(***************************************************************************)
(* The schedule pass and its check agree: on what the pass makes of a      *)
(* module without submodules analyze_streams neither throws nor reports a  *)
(* race, although the pass leaves out most of the waits.                   *)
(***************************************************************************)
THEOREM ScheduledHasNoRaces == ASSUME FlatPlans PROVE AnalyzeSpec => []ScheduledIsClean
<1>1. AnalyzedInv => ScheduledIsClean
  BY DEF AnalyzedInv, ScheduledInv, ClockInit, ScheduledIsClean
<1> QED BY <1>1, AnalyzedInvHolds, PTL
=============================================================================

--------------------------- MODULE AnalyzeStreams ---------------------------
(***************************************************************************)
(* analyze_streams: the check for races the repository runs on scheduled   *)
(* modules and in its tests on hand written ones.  A first loop gives      *)
(* every instruction on a stream a vector clock, a second one asks for     *)
(* every input on another stream whether it happens before.                *)
(*                                                                         *)
(* A module analyzed is either what the insertion loop of the schedule     *)
(* pass makes of a plan or one with other records and waits.  Afterwards   *)
(* it is evaluated.                                                        *)
(***************************************************************************)
EXTENDS ScheduledExec, FiniteSets

CONSTANT HandWritten  \* modules: [plan, setStream, waits, record]

EventIds == 0..(N - 1)

(* Stream instructions stand at kernels, the first of which has a          *)
(* set_stream.                                                             *)
IsModule(h) ==
  /\ IsPlan(h.plan)
  /\ h.setStream \in [Ins -> BOOLEAN] /\ h.waits \in [Ins -> SUBSET EventIds]
  /\ h.record \in [Ins -> EventIds \cup {NoEvent}]
  /\ \A i \in Ins : h.setStream[i] => h.plan.stream[i] # NoStream
  /\ \A i \in Ins : h.record[i] # NoEvent => h.plan.kernel[i]
  /\ \A i \in Ins : h.plan.kernel[i] => \E q \in 1..i : h.setStream[q]
  /\ \A i \in Ins : \A j \in h.plan.reads[i] : h.plan.kernel[j]

ASSUME HandWrittenAssumption == \A h \in HandWritten : IsModule(h)

VARIABLES
  written,    \* the module is a hand written one; never changes
  stage,      \* "visit", "check", "analyzed" or "thrown"
  scan,       \* the instruction the loop is at
  vclock,     \* vclock[s]: the clock of stream s
  events,     \* events[e]: the clock of the last record, NoClock without one
  timestamp,  \* timestamp[i], NoClock without a stream
  races       \* the result: pairs <<ins, before>>

analyzeVars == <<written, stage, scan, vclock, events, timestamp, races>>

NoClock == <<>>
Zero    == [s \in Streams |-> 0]

AnalyzeInit ==
  /\ \/ written = FALSE /\ ModuleInit /\ PassInit
     \/ \E h \in HandWritten :
          /\ written = TRUE
          /\ plan = h.plan /\ setStream = h.setStream /\ waits = h.waits /\ record = h.record
          /\ at = N + 1 /\ pc = "visit" /\ todo = {} /\ waitId = N
          /\ waitedFor = [s \in Streams |-> {}]
          /\ ins2waited = [i \in Ins |-> {}] /\ known = [i \in Ins |-> {}]
  /\ ExecInit
  /\ stage = "visit" /\ scan = 1
  /\ vclock = [s \in Streams |-> Zero]
  /\ events = [e \in EventIds |-> NoClock]
  /\ timestamp = [i \in Ins |-> NoClock]
  /\ races = {}

(* make_stream_model: the stream of the last set_stream, 0 before the first. *)
ModelStream(i) ==
  IF setStream[i] THEN stream[i]
  ELSE IF SetBefore(i) = {} THEN 0
  ELSE stream[CHOOSE q \in Ins : CurrentSet(i, q)]

-----------------------------------------------------------------------------
Tick(clock, s, n) == [clock EXCEPT ![s] = @ + n]

Joined(clock, payloads) ==
  [s \in Streams |-> LET all == {clock[s]} \cup {p[s] : p \in payloads}
                     IN CHOOSE m \in all : \A k \in all : k <= m]

(* Mutant: a wait does not join. *)
ClockUnjoined(i) ==
  Tick(vclock[ModelStream(i)], ModelStream(i),
       Cardinality(waits[i]) + (IF setStream[i] THEN 2 ELSE 1))

(***************************************************************************)
(* The clock of i: set_stream ticks, every wait before i joins what was    *)
(* recorded and ticks, i ticks.  No payload is ahead of the stream's own   *)
(* count, so the ticks may come last.                                      *)
(***************************************************************************)
ClockAt(i) ==
  LET s == ModelStream(i)
  IN Tick(Joined(vclock[s], {events[e] : e \in waits[i]}), s,
          Cardinality(waits[i]) + (IF setStream[i] THEN 2 ELSE 1))

(* Mutant: the first record of an event stays. *)
EventsFirst(i, clock) ==
  IF record[i] = NoEvent \/ events[record[i]] # NoClock THEN events
  ELSE [events EXCEPT ![record[i]] = clock]

EventsAfter(i, clock) ==
  IF record[i] = NoEvent THEN events ELSE [events EXCEPT ![record[i]] = clock]

Visiting == PassDone /\ stage = "visit" /\ scan \in Ins

Visit ==
  /\ Visiting /\ kernel[scan]
  /\ \A e \in waits[scan] : events[e] # NoClock
  /\ LET s     == ModelStream(scan)
         after == Tick(ClockAt(scan), s, IF record[scan] = NoEvent THEN 0 ELSE 1)
     IN /\ timestamp' = [timestamp EXCEPT ![scan] = ClockAt(scan)]
        /\ vclock' = [vclock EXCEPT ![s] = after]
        /\ events' = EventsAfter(scan, after)
  /\ scan' = scan + 1
  /\ UNCHANGED <<written, stage, races>>

VisitStreamless ==
  /\ Visiting /\ ~ kernel[scan]
  /\ scan' = scan + 1
  /\ UNCHANGED <<written, stage, vclock, events, timestamp, races>>

(* "Event is waited on before being recorded" *)
VisitThrows ==
  /\ Visiting /\ kernel[scan]
  /\ \E e \in waits[scan] : events[e] = NoClock
  /\ stage' = "thrown"
  /\ UNCHANGED <<written, scan, vclock, events, timestamp, races>>

EndVisit ==
  /\ PassDone /\ stage = "visit" /\ scan = N + 1
  /\ stage' = "check" /\ scan' = 1
  /\ UNCHANGED <<written, vclock, events, timestamp, races>>

-----------------------------------------------------------------------------
(* Mutant: some count is behind, others may be ahead. *)
HappensSomewhere(x, y) == \E s \in Streams : x[s] < y[s]

(* happens_before *)
HappensBefore(x, y) == (\A s \in Streams : x[s] <= y[s]) /\ (\E s \in Streams : x[s] < y[s])

(* The inputs on other streams, found through instructions without one. *)
OtherInputs(i) == {j \in reads[i] : ModelStream(j) # ModelStream(i)}

Racing(i) == {j \in OtherInputs(i) : ~ HappensBefore(timestamp[j], timestamp[i])}

(* One of the inputs not ordered is reported. *)
Check ==
  /\ stage = "check" /\ scan \in Ins
  /\ IF kernel[scan] /\ Racing(scan) # {}
       THEN \E j \in Racing(scan) : races' = races \cup {<<scan, j>>}
       ELSE UNCHANGED races
  /\ scan' = scan + 1
  /\ UNCHANGED <<written, stage, vclock, events, timestamp>>

EndCheck ==
  /\ stage = "check" /\ scan = N + 1
  /\ stage' = "analyzed"
  /\ UNCHANGED <<written, scan, vclock, events, timestamp, races>>

Analyze == Visit \/ VisitStreamless \/ VisitThrows \/ EndVisit \/ Check \/ EndCheck

AnalyzeNext ==
  \/ Compile /\ UNCHANGED analyzeVars
  \/ PassDone /\ Analyze /\ UNCHANGED vars
  \/ stage = "analyzed" /\ Evaluate /\ UNCHANGED analyzeVars

AnalyzeSpec == AnalyzeInit /\ [][AnalyzeNext]_<<vars, analyzeVars>>

-----------------------------------------------------------------------------
(***************************************************************************)
(* The order streams and events impose: i follows the kernels before it on *)
(* its stream, and those before the records that its waits refer to.       *)
(***************************************************************************)
DirectlyBefore(j, i) ==
  /\ j < i /\ kernel[j] /\ kernel[i]
  /\ \/ ModelStream(j) = ModelStream(i)
     \/ \E k \in j..(i - 1) : ModelStream(k) = ModelStream(j) /\ Awaits(i, k)

Before == LET b[i \in Ins] == LET direct == {j \in 1..(i - 1) : DirectlyBefore(j, i)}
                              IN direct \cup UNION {b[j] : j \in direct}
          IN b

(***************************************************************************)
(* Vector clocks capture that order and nothing else: two kernels on       *)
(* different streams have ordered clocks exactly when a chain of records   *)
(* and waits orders them, also where an event is recorded several times.   *)
(***************************************************************************)
ClocksAreExact ==
  stage = "check" =>
    \A i, j \in Ins : kernel[i] /\ kernel[j] /\ ModelStream(i) # ModelStream(j) =>
      (HappensBefore(timestamp[j], timestamp[i]) <=> j \in Before[i])

(***************************************************************************)
(* An instruction reported free of races is: in every evaluation it starts *)
(* when what it reads is complete, whatever the streams do.                *)
(***************************************************************************)
UnreportedIsRaceFree ==
  \A i \in Ins : Started(i) /\ (\A j \in Ins : <<i, j>> \notin races) =>
    \A j \in reads[i] : status[j] = "done"

(***************************************************************************)
(* On what the schedule pass makes of a module the analysis finds nothing  *)
(* and does not throw: test/verify runs it on main modules it compiled.     *)
(***************************************************************************)
ScheduledIsClean == ~ written => stage # "thrown" /\ races = {}
=============================================================================

------------------------------ MODULE Schedule ------------------------------
(***************************************************************************)
(* The insertion loop of schedule::apply: one pass over the module in      *)
(* program order that puts every instruction on its stream and inserts the *)
(* event records and waits that order instructions of different streams.   *)
(*                                                                         *)
(* The loop inserts a wait only when its bookkeeping does not already      *)
(* imply it: waitedFor[s] are the events known to have fired when the next *)
(* instruction of stream s starts, ins2waited[i] the events known to have  *)
(* fired when i was scheduled.                                             *)
(***************************************************************************)
EXTENDS StreamModule

VARIABLES
  at,         \* the instruction the loop is at; N + 1 once the loop is over
  pc,         \* "visit": about to look at `at`; "merge": in the wait loop of `at`
  todo,       \* recorded instructions of `at` the wait loop has not handled
  waitId,     \* wait_id, the next event id
  waitedFor,  \* waited_for
  ins2waited, \* ins2waited
  known       \* history: waited_for[stream of i] when the loop left i

passVars == <<at, pc, todo, waitId, waitedFor, ins2waited, known>>

(* Mutant: @return is not taken for a merge point. *)
IsMergePointInside(i) == i # N /\ \E j \in deps[i] : stream[j] # stream[i]

(* some effective input of i is on another stream than i *)
IsMergePoint(i) == \E j \in deps[i] : stream[j] # stream[i]

(* some effective output of i is on another stream than i *)
IsSplitPoint(i) == \E k \in Ins : HasStream(k) /\ i \in deps[k] /\ stream[k] # stream[i]

(* Mutant: per stream, the first of the effective inputs. *)
FirstInstructions(i) ==
  {j \in deps[i] : \A k \in deps[i] : stream[k] = stream[j] => j <= k}

(* per stream, the last of the effective inputs of i *)
RecordedInstructions(i) ==
  {j \in deps[i] : \A k \in deps[i] : stream[k] = stream[j] => k <= j}

PassInit ==
  /\ at = 1 /\ pc = "visit" /\ todo = {} /\ waitId = 0
  /\ waitedFor  = [s \in Streams |-> {}]
  /\ ins2waited = [i \in Ins |-> {}]
  /\ known      = [i \in Ins |-> {}]

PassDone == at = N + 1

(***************************************************************************)
(* nstreams >= 2: assign_streams counts stream 0 and those of the others   *)
(* that were given work.                                                   *)
(***************************************************************************)
Concurrent == \E i \in Ins : HasStream(i) /\ stream[i] # 0

(* The loop is not entered when there is no concurrency. *)
NoConcurrency ==
  /\ at = 1 /\ pc = "visit"
  /\ ~ Concurrent
  /\ at' = N + 1
  /\ UNCHANGED <<moduleVars, pc, todo, waitId, waitedFor, ins2waited, known>>

Skip ==
  /\ at \in Ins /\ pc = "visit"
  /\ Concurrent
  /\ ~ HasStream(at)
  /\ at' = at + 1
  /\ UNCHANGED <<moduleVars, pc, todo, waitId, waitedFor, ins2waited, known>>

(* Mutant: stream 0 is taken to be current wherever it is not set. *)
NeedsSetStreamNotZero ==
  /\ stream[at] # 0
  /\ ~ \E q \in Ins : CurrentSet(at, q) /\ stream[q] = stream[at]

(* schedule_model::sched: nothing is inserted when the last set_stream     *)
(* before `at` already set this stream.                                    *)
NeedsSetStream == ~ \E q \in Ins : CurrentSet(at, q) /\ stream[q] = stream[at]

(* Mutant: instructions without a stream are not left out. *)
SchedAny ==
  /\ at \in Ins /\ pc = "visit"
  /\ Concurrent
  /\ setStream' = [setStream EXCEPT ![at] = NeedsSetStream]
  /\ todo' = {}
  /\ pc' = "merge"
  /\ UNCHANGED <<plan, waits, record, at, waitId, waitedFor, ins2waited, known>>

Sched ==
  /\ at \in Ins /\ pc = "visit"
  /\ Concurrent
  /\ HasStream(at)
  /\ setStream' = [setStream EXCEPT ![at] = NeedsSetStream]
  /\ todo' = IF IsMergePoint(at)
               THEN {j \in RecordedInstructions(at) : stream[j] # stream[at]}
               ELSE {}
  /\ pc' = "merge"
  /\ UNCHANGED <<plan, waits, record, at, waitId, waitedFor, ins2waited, known>>

(* Mutants of WaitOn, which differ in what they do with the event w: it is    *)
(* known to every stream; its id is used again; it is always waited for.      *)
WaitOnShared(j) ==
  /\ pc = "merge" /\ j \in todo
  /\ LET new == record[j] = NoEvent
         w == IF new THEN waitId ELSE record[j]
     IN /\ record' = [record EXCEPT ![j] = w]
        /\ waitId' = IF new THEN waitId + 1 ELSE waitId
        /\ waits' = IF w \in waitedFor[stream[at]] THEN waits
                    ELSE [waits EXCEPT ![at] = @ \cup {w}]
        /\ waitedFor' = [t \in Streams |-> waitedFor[t] \cup {w}]
  /\ todo' = todo \ {j}
  /\ UNCHANGED <<plan, setStream, at, pc, ins2waited, known>>

WaitOnSameId(j) ==
  /\ pc = "merge" /\ j \in todo
  /\ record' = [record EXCEPT ![j] = waitId]
  /\ waits' = [waits EXCEPT ![at] = @ \cup {waitId}]
  /\ todo' = todo \ {j}
  /\ UNCHANGED <<plan, setStream, at, pc, waitId, waitedFor, ins2waited, known>>

WaitOnAlways(j) ==
  /\ pc = "merge" /\ j \in todo
  /\ LET new == record[j] = NoEvent
         w == IF new THEN waitId ELSE record[j]
     IN /\ record' = [record EXCEPT ![j] = w]
        /\ waitId' = IF new THEN waitId + 1 ELSE waitId
        /\ waits' = [waits EXCEPT ![at] = @ \cup {w}]
        /\ waitedFor' = [waitedFor EXCEPT ![stream[at]] = @ \cup {w} \cup ins2waited[j]]
  /\ todo' = todo \ {j}
  /\ UNCHANGED <<plan, setStream, at, pc, ins2waited, known>>

(* One turn of the loop over get_recorded_instructions(at); the vector is  *)
(* filled from an unordered_map, so the turns come in any order.           *)
WaitOn(j) ==
  /\ pc = "merge" /\ j \in todo
  /\ LET s == stream[at]
         new == record[j] = NoEvent
         w == IF new THEN waitId ELSE record[j]
     IN /\ record' = [record EXCEPT ![j] = w]
        /\ waitId' = IF new THEN waitId + 1 ELSE waitId
        /\ waits' = IF w \in waitedFor[s] THEN waits
                    ELSE [waits EXCEPT ![at] = @ \cup {w}]
        /\ waitedFor' = [waitedFor EXCEPT ![s] = @ \cup {w} \cup ins2waited[j]]
  /\ todo' = todo \ {j}
  /\ UNCHANGED <<plan, setStream, at, pc, ins2waited, known>>

Leave ==
  /\ pc = "merge" /\ todo = {}
  /\ ins2waited' = IF IsSplitPoint(at)
                     THEN [ins2waited EXCEPT ![at] = waitedFor[stream[at]]]
                     ELSE ins2waited
  /\ known' = [known EXCEPT ![at] = waitedFor[stream[at]]]
  /\ at' = at + 1
  /\ pc' = "visit"
  /\ UNCHANGED <<moduleVars, todo, waitId, waitedFor>>

PassNext == NoConcurrency \/ Skip \/ Sched \/ (\E j \in Ins : WaitOn(j)) \/ Leave

PassTypeOK ==
  /\ at \in 1..(N + 1)
  /\ pc \in {"visit", "merge"}
  /\ pc = "merge" => at \in Ins /\ HasStream(at)
  /\ todo \subseteq Ins
  /\ waitId \in Nat
  /\ waitedFor \in [Streams -> SUBSET Events]
  /\ ins2waited \in [Ins -> SUBSET Events]
  /\ known \in [Ins -> SUBSET Events]
=============================================================================

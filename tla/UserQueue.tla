----------------------------- MODULE UserQueue -----------------------------
(***************************************************************************)
(* program::eval on the user's queue (execution_environment::async): the   *)
(* current stream waits for what the user queued earlier (wait_for), and   *)
(* what the user queues later waits for the current stream (finish_on).    *)
(* The host does not wait for anything.                                    *)
(***************************************************************************)
EXTENDS SharedMemory

VARIABLES
  async,    \* exec_env.async
  earlier,  \* the user's earlier work is over
  gate,     \* the stream whose queue begins with the wait for begin_event
  finish,   \* the stream finish_event was recorded on
  later     \* the user's later work has started

queueVars == <<async, earlier, gate, finish, later>>

QueueInit ==
  /\ SharedInit
  /\ async \in BOOLEAN
  /\ earlier = FALSE /\ gate = NoStream /\ finish = NoStream /\ later = FALSE

(* Mutant: the wait is queued before the event is recorded. *)
GateOpen(s) == NoStream

(* wait_for at the start of an evaluation: get_stream() is the stream the  *)
(* last set_stream left current.                                           *)
WaitFor(s) == s

Starting(i) == status[i] = "queued" /\ status'[i] = "running"

(* Compilation and evaluation; only a synchronous one waits for its end. *)
Device ==
  /\ SharedNext
  /\ gate' = IF async /\ phase = "ready" /\ phase' = "run" THEN WaitFor(cur) ELSE gate
  /\ \A i \in Ins : Starting(i) /\ launched[i] = gate => earlier
  /\ ~ (async /\ phase = "run" /\ phase' = "ready")
  /\ UNCHANGED <<async, earlier, finish, later>>

EarlierEnds ==
  /\ async /\ ~ earlier
  /\ earlier' = TRUE
  /\ UNCHANGED <<vars, conflictVars, colorVars, content, async, gate, finish, later>>

FinishOn ==
  /\ async /\ phase = "run" /\ host = N + 1
  /\ phase' = "ready" /\ finish' = cur
  /\ UNCHANGED <<moduleVars, passVars, run, host, cur, launched, hold, status,
                 conflictVars, colorVars, content, async, earlier, gate, later>>

(* Mutant: the queue's wait comes before the record, and finds no event. *)
LaterUnordered ==
  /\ finish # NoStream /\ ~ later
  /\ later' = TRUE
  /\ UNCHANGED <<vars, conflictVars, colorVars, content, async, earlier, gate, finish>>

(* finish_event is over when the stream has come to it. *)
LaterStarts ==
  /\ finish # NoStream /\ ~ later
  /\ \A i \in Ins : launched[i] = finish => status[i] = "done"
  /\ later' = TRUE
  /\ UNCHANGED <<vars, conflictVars, colorVars, content, async, earlier, gate, finish>>

QueueNext == Device \/ EarlierEnds \/ FinishOn \/ LaterStarts

QueueSpec ==
  QueueInit /\ [][QueueNext]_<<vars, conflictVars, colorVars, content, queueVars>>

(***************************************************************************)
(* What the user queues behind an asynchronous evaluation finds all of its *)
(* results, though the queue waits for one stream of several (finish_on).  *)
(***************************************************************************)
LaterSeesAll ==
  later => \A i \in Ins : kernel[i] => status[i] = "done"

(***************************************************************************)
(* On a single stream, the default, no kernel starts before what the user  *)
(* queued ahead of the evaluation is over (wait_for ties the queue to the  *)
(* stream that is current, and to no other).                               *)
(***************************************************************************)
EarlierIsOver ==
  async /\ ~ earlier =>
    \A i \in Ins : Started(i) => \E j \in Ins : HasStream(j) /\ stream[j] # launched[i]
=============================================================================

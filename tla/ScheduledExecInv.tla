-------------------------- MODULE ScheduledExecInv --------------------------
(***************************************************************************)
(* The inductive invariant behind the safety properties of ScheduledExec   *)
(* on modules without submodules.                                          *)
(*                                                                         *)
(* The heart of it is what a wait the pass left out rests on.  Call a set  *)
(* D of completed kernels closed when every event known at a member has    *)
(* fired in it.  Then for every instruction i: once the earlier kernels of *)
(* its stream and the kernels its own waits refer to are in a closed D,    *)
(* every event the pass counted as known at i has fired in D.              *)
(***************************************************************************)
EXTENDS ScheduledExec

Fired(D, E) == \A j \in Ins : record[j] \in E => j \in D

Closed(D) == \A i \in D : Fired(D, known[i])

Earlier(i, s) == {p \in 1..(i - 1) : stream[p] = s}

(* The loop has come past the place where it handles i. *)
Entered(i) == i < at \/ (i = at /\ pc = "merge")

OtherStream(i) == {j \in RecordedInstructions(i) : stream[j] # stream[i]}

(* Event ids are fresh, and an event is recorded after one instruction. *)
EventsInv ==
  /\ \A j \in Ins : record[j] < waitId
  /\ \A j, k \in Ins : record[j] # NoEvent /\ record[j] = record[k] => j = k
  /\ \A i \in Ins : \A e \in waits[i] \cup known[i] : e < waitId
  /\ \A s \in Streams : \A e \in waitedFor[s] : e < waitId

(* What the loop has stored, where it is not yet at its end. *)
LoopInv ==
  /\ pc = "merge" => todo \subseteq OtherStream(at)
  /\ \A i \in Ins : ~ Entered(i) => waits[i] = {} /\ ~ setStream[i]
  /\ \A i \in Ins : i >= at => known[i] = {}
  /\ \A i \in Ins : ins2waited[i] \subseteq known[i]

(* Every wait is for an event recorded after an earlier instruction. *)
WaitsInv ==
  \A i \in Ins : \A e \in waits[i] : \E j \in 1..(i - 1) : record[j] = e

(* The effective inputs on other streams are covered by known events. *)
CoverInv ==
  /\ \A i \in Ins : i < at /\ HasStream(i) =>
       \A j \in OtherStream(i) : record[j] \in known[i]
  /\ pc = "merge" =>
       \A j \in OtherStream(at) \ todo : record[j] \in waitedFor[stream[at]]

(* The entailment above, for the loop's state and for what it left behind. *)
KnownInv ==
  /\ \A s \in Streams : \A D \in SUBSET Ins :
       /\ Closed(D) /\ Earlier(at, s) \subseteq D
       /\ pc = "merge" /\ stream[at] = s => Fired(D, waits[at])
       => Fired(D, waitedFor[s])
  /\ \A i \in Ins : \A D \in SUBSET Ins :
       /\ i < at /\ HasStream(i)
       /\ Closed(D) /\ Earlier(i, stream[i]) \subseteq D
       /\ Fired(D, waits[i])
       => Fired(D, known[i])

(* The set_stream in force at an instruction names its stream. *)
SetStreamInv ==
  \/ /\ ~ Concurrent
     /\ \A i \in Ins : ~ setStream[i]
  \/ \A i \in Ins : Entered(i) /\ HasStream(i) =>
       \/ setStream[i]
       \/ \E q \in Ins : CurrentSet(i, q) /\ stream[q] = stream[i]

PassInv == EventsInv /\ LoopInv /\ WaitsInv /\ CoverInv /\ KnownInv /\ SetStreamInv

(* What has been launched is what the host has come past. *)
HostInv ==
  /\ phase # "compile" => PassDone
  /\ phase = "compile" => host = 1 /\ cur = 0 /\ run = 0
  /\ phase = "run" => run > 0
  /\ phase = "ready" => (run = 0 /\ host = 1) \/ (run > 0 /\ host = N + 1)
  /\ \A i \in Ins : status[i] # "none" <=> i < host /\ kernel[i]
  /\ \A i \in Ins : launched[i] # NoStream <=> i < host /\ kernel[i]
  /\ \A i \in Ins : status[i] # "none" => hold[i] = {j \in Ins : Awaits(i, j)}

(* The current stream of the context. *)
CurInv ==
  /\ (\A i \in Ins : ~ setStream[i]) => cur = 0
  /\ phase = "run" => \A q \in Ins : CurrentSet(host, q) => cur = stream[q]
  /\ phase = "run" /\ host > 1 /\ kernel[host - 1] => cur = launched[host - 1]

(* Streams run in order and honour the waits. *)
StreamInv ==
  \A i \in Ins : Started(i) =>
    /\ \A j \in Ins : j < i /\ launched[j] = launched[i] => status[j] = "done"
    /\ Fired(Done, known[i])

(* What does not depend on the host waiting at the end of an evaluation. *)
QueuesInv == HostInv /\ CurInv /\ LaunchedOnItsStream /\ StreamInv /\ InputsReady

ExecInv == QueuesInv /\ FinishCoversAllStreams

Inv == TypeOK /\ IsFlat(plan) /\ PassInv /\ ExecInv
=============================================================================

----------------------------- MODULE StreamExec -----------------------------
(***************************************************************************)
(* Evaluation of a scheduled module on the device.  The host walks the     *)
(* program in order and only queues work: set_stream changes the current   *)
(* stream of the context, wait_event and record_event queue an event       *)
(* command and a kernel queues a launch, all on the current stream.  Each  *)
(* stream executes its queue in order; streams run concurrently with each  *)
(* other and with the host.                                                *)
(*                                                                         *)
(* The commands queued for one instruction are one host step: a stream     *)
(* blocked at a wait of i is blocked as it is with i at its head and the   *)
(* wait pending, and the record of i is the command right after i on the   *)
(* same stream, so no order of kernel starts is lost.                      *)
(***************************************************************************)
EXTENDS StreamModule

CONSTANT Runs  \* bound: evaluations of the program

ASSUME RunsAssumption == Runs \in Nat

VARIABLES
  phase,    \* "compile", "ready" (between evaluations), "run"
  run,      \* evaluations begun
  host,     \* the next instruction the host evaluates
  cur,      \* hip_device::current_stream
  launched, \* launched[i]: the stream i was queued on in this evaluation
  hold,     \* hold[i]: the kernels whose records the waits queued before i await
  status    \* status[i]: "none", "queued", "running" or "done"

execVars == <<phase, run, host, cur, launched, hold, status>>

Done    == {i \in Ins : status[i] = "done"}
Running == {i \in Ins : status[i] = "running"}

ExecInit ==
  /\ phase = "compile" /\ run = 0 /\ host = 1 /\ cur = 0
  /\ launched = [i \in Ins |-> NoStream]
  /\ hold     = [i \in Ins |-> {}]
  /\ status   = [i \in Ins |-> "none"]

(***************************************************************************)
(* Finalization calls finalize on every instruction in order; that of      *)
(* set_stream sets the current stream, so the last one stays in force.     *)
(***************************************************************************)
Finalize ==
  /\ phase = "compile"
  /\ phase' = "ready"
  /\ cur' = IF SetBefore(N + 1) = {} THEN cur
            ELSE stream[CHOOSE q \in Ins : CurrentSet(N + 1, q)]
  /\ UNCHANGED <<run, host, launched, hold, status>>

Begin ==
  /\ phase = "ready" /\ run < Runs
  /\ phase' = "run"
  /\ run' = run + 1
  /\ host' = 1
  /\ launched' = [i \in Ins |-> NoStream]
  /\ hold'     = [i \in Ins |-> {}]
  /\ status'   = [i \in Ins |-> "none"]
  /\ UNCHANGED cur

(***************************************************************************)
(* What a wait for event e refers to when the host queues it before i: the *)
(* last record of e queued in this evaluation.  There may be none: a wait  *)
(* for an event never recorded, or recorded by a finished evaluation, does *)
(* not block.                                                              *)
(***************************************************************************)
Awaits(i, j) ==
  /\ j < i
  /\ record[j] \in waits[i]
  /\ \A k \in Ins : j < k /\ k < i => record[k] # record[j]

Launch ==
  /\ phase = "run" /\ host \in Ins /\ kernel[host]
  /\ cur' = IF setStream[host] THEN stream[host] ELSE cur
  /\ launched' = [launched EXCEPT ![host] = cur']
  /\ hold' = [hold EXCEPT ![host] = {j \in Ins : Awaits(host, j)}]
  /\ status' = [status EXCEPT ![host] = "queued"]
  /\ host' = host + 1
  /\ UNCHANGED <<phase, run>>

(* Builtins, literals, allocations and the like queue nothing. *)
HostOnly ==
  /\ phase = "run" /\ host \in Ins /\ ~ kernel[host]
  /\ host' = host + 1
  /\ UNCHANGED <<phase, run, cur, launched, hold, status>>

(* A stream starts the kernel at its head when the waits before it are over. *)
Start(i) ==
  /\ status[i] = "queued"
  /\ \A j \in Ins : j < i /\ launched[j] = launched[i] => status[j] = "done"
  /\ hold[i] \subseteq Done
  /\ status' = [status EXCEPT ![i] = "running"]
  /\ UNCHANGED <<phase, run, host, cur, launched, hold>>

Complete(i) ==
  /\ status[i] = "running"
  /\ status' = [status EXCEPT ![i] = "done"]
  /\ UNCHANGED <<phase, run, host, cur, launched, hold>>

(* Mutant: finish does not wait for the stream. *)
FinishAtOnce ==
  /\ phase = "run" /\ host = N + 1
  /\ phase' = "ready"
  /\ UNCHANGED <<run, host, cur, launched, hold, status>>

(***************************************************************************)
(* context::finish (and hip::sync_stream before @return) waits until the   *)
(* current stream is empty.  The waits queued before @return are part of   *)
(* that queue: @return, the last instruction, is kept as an empty kernel.  *)
(***************************************************************************)
Finish ==
  /\ phase = "run" /\ host = N + 1
  /\ \A i \in Ins : launched[i] = cur => status[i] = "done"
  /\ phase' = "ready"
  /\ UNCHANGED <<run, host, cur, launched, hold, status>>

Host == Finalize \/ Begin \/ Launch \/ HostOnly \/ Finish

ExecNext == Host \/ \E i \in Ins : Start(i) \/ Complete(i)

ExecTypeOK ==
  /\ phase \in {"compile", "ready", "run"}
  /\ run \in 0..Runs
  /\ host \in 1..(N + 1)
  /\ cur \in Streams
  /\ launched \in [Ins -> Streams \cup {NoStream}]
  /\ hold \in [Ins -> SUBSET Ins]
  /\ status \in [Ins -> {"none", "queued", "running", "done"}]
=============================================================================

------------------------------- MODULE ParFor -------------------------------
(***************************************************************************)
(* simple_par_for: the indices 0..size-1 are cut into one range per        *)
(* thread.  The generator starts threads one after another and advances    *)
(* `work` behind each; a thread keeps the copy it was started with.        *)
(***************************************************************************)
EXTENDS Integers, Sequences

CONSTANT Concurrency  \* std::thread::hardware_concurrency()

ASSUME ConcurrencyAssumption == Concurrency \in Nat \ {0}

VARIABLES
  size,        \* n
  threadsize,
  work,        \* the start of the next range
  threads,     \* [i, last] of the threads started
  calls        \* calls[i]: how often f(i) was called

parVars == <<size, threadsize, work, threads, calls>>

Least(a, b)   == IF a <= b THEN a ELSE b
AtLeastOne(a) == IF a < 1 THEN 1 ELSE a

ThreadSize(n, grain) == Least(Concurrency, n \div AtLeastOne(grain))

(* Mutant: rounded down. *)
GrainDown(n, k) == n \div k

(* std::ceil(n / threads.size()) *)
GrainSize(n, k) == (n + k - 1) \div k

(* One thread or none: the caller runs the loop itself. *)
ParStart(n, grain) ==
  /\ size' = n
  /\ threadsize' = ThreadSize(n, grain)
  /\ calls' = [i \in 0..(n - 1) |-> 0]
  /\ IF threadsize' <= 1 THEN work' = n /\ threads' = <<[i |-> 0, last |-> n]>>
     ELSE work' = 0 /\ threads' = <<>>

ParSpawn ==
  /\ Len(threads) < threadsize /\ threadsize > 1
  /\ threads' = Append(threads,
       [i |-> work, last |-> Least(size, work + GrainSize(size, threadsize))])
  /\ work' = work + GrainSize(size, threadsize)
  /\ UNCHANGED <<size, threadsize, calls>>

Busy(t) == threads[t].i < threads[t].last

(* Thread t calls f(threads[t].i). *)
ParRun(t) ==
  /\ Busy(t)
  /\ calls' = [calls EXCEPT ![threads[t].i] = @ + 1]
  /\ threads' = [threads EXCEPT ![t] = [i |-> @.i + 1, last |-> @.last]]
  /\ UNCHANGED <<size, threadsize, work>>

(* All threads are joined. *)
ParOver ==
  /\ Len(threads) = AtLeastOne(threadsize)
  /\ \A t \in DOMAIN threads : ~ Busy(t)

(***************************************************************************)
(* However many threads there are and however they are scheduled, no index *)
(* is run twice, and all have been when the threads are joined.            *)
(***************************************************************************)
EveryIndexOnce ==
  /\ \A i \in DOMAIN calls : calls[i] <= 1
  /\ ParOver => \A i \in DOMAIN calls : calls[i] = 1
=============================================================================

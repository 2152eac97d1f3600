--------------------------- MODULE MemoryConflicts ---------------------------
(***************************************************************************)
(* The last part of schedule::apply: instructions that may be running at   *)
(* the same time are made arguments of one identity, so that the liveness  *)
(* analysis of memory_coloring keeps their allocations apart.              *)
(*                                                                         *)
(* find_concurrent_instructions goes backwards through the module and      *)
(* collects, for every merge point and stream, what runs there before the  *)
(* merge; get_conflicts then pairs what it found on different streams.     *)
(*                                                                         *)
(* The streamless instructions of the plans used with this module are      *)
(* allocations: they have no inputs, and are neither builtins nor context  *)
(* free.                                                                   *)
(***************************************************************************)
EXTENDS Schedule, FiniteSets

VARIABLES
  scan,        \* the instruction the scan is at; 0 at its end, -1 when done
  mergeFrom,   \* merge_from: the merge points an instruction runs before
  concurrent,  \* result: per merge point and stream, the instructions found
  identity     \* identity[i]: the conflicts of i, with which it is made an
               \* argument of an identity right after i

conflictVars == <<scan, mergeFrom, concurrent, identity>>

Users(i) == {k \in Ins : i \in inputs[k]}

(* Called without a stream, is_merge_point and is_split_point ask whether  *)
(* two of the effective inputs, or outputs, differ in their streams.       *)
MergesStreams(i) == Cardinality({stream[j] : j \in deps[i]}) > 1

SplitsStreams(i) ==
  Cardinality({stream[k] : k \in {m \in Ins : HasStream(m) /\ i \in deps[m]}}) > 1

(* dominator_info: d lies on every path from the top of the module to m. *)
StrictlyDominates(d, m) ==
  LET around[k \in Ins] == k # d /\ (inputs[k] = {} \/ \E j \in inputs[k] : around[j])
  IN d # m /\ ~ around[m]

(* get_streams *)
StreamsOf(i) ==
  IF HasStream(i) THEN {stream[i]} ELSE {stream[j] : j \in deps[i]}

(* Mutant: only the merge points that use i. *)
MergesDirectlyAfter(i) == {k \in Users(i) : MergesStreams(k)}

(* The merge points i runs before, less those a split point dominates. *)
MergesAfter(i) ==
  LET all == {k \in Users(i) : MergesStreams(k)} \cup UNION {mergeFrom[k] : k \in Users(i)}
  IN IF SplitsStreams(i) THEN {m \in all : ~ StrictlyDominates(i, m)} ELSE all

ConflictsInit ==
  /\ scan = N
  /\ mergeFrom  = [i \in Ins |-> {}]
  /\ concurrent = [m \in Ins |-> [s \in Streams |-> {}]]
  /\ identity   = [i \in Ins |-> {}]

NoConflicts ==
  /\ scan = N /\ ~ Concurrent
  /\ scan' = -1
  /\ UNCHANGED <<mergeFrom, concurrent, identity>>

(* What is found: the instruction, with its inputs that have no stream. *)
Collect ==
  /\ scan \in Ins /\ Concurrent
  /\ mergeFrom' = [mergeFrom EXCEPT ![scan] = MergesAfter(scan)]
  /\ concurrent' =
       [m \in Ins |-> [s \in Streams |->
          IF m \in MergesAfter(scan) /\ s \in StreamsOf(scan)
            THEN concurrent[m][s] \cup {scan} \cup {j \in inputs[scan] : ~ HasStream(j)}
            ELSE concurrent[m][s]]]
  /\ scan' = scan - 1
  /\ UNCHANGED identity

(* i is found before m on stream s, and on no stream below s. *)
FirstFound(m, i, s) ==
  /\ i \in concurrent[m][s]
  /\ \A t \in Streams : t < s => i \notin concurrent[m][t]

InConflict(i, j) ==
  \E m \in Ins : \E s, t \in Streams : s # t /\ FirstFound(m, i, s) /\ FirstFound(m, j, t)

InsertIdentities ==
  /\ scan = 0
  /\ identity' = [i \in Ins |-> {j \in 1..(i - 1) : InConflict(i, j)}]
  /\ scan' = -1
  /\ UNCHANGED <<mergeFrom, concurrent>>

ConflictsDone == scan = -1

ConflictsNext == NoConflicts \/ Collect \/ InsertIdentities
=============================================================================

---------------------------- MODULE SharedMemory ----------------------------
(***************************************************************************)
(* A scheduled module whose allocations share one scratch buffer: the      *)
(* schedule pass, memory_coloring on its result, and the evaluation on     *)
(* concurrent streams, in which every kernel writes into its allocation.   *)
(***************************************************************************)
EXTENDS ScheduledExec, MemoryConflicts

CONSTANT AllocBytes  \* the size of every allocation

ASSUME AllocAssumption == AllocBytes \in Nat \ {0}

VARIABLES
  prog, conflict, segment, round, queue, offset,  \* of memory_coloring
          content  \* content[c]: the kernel that wrote unit c of the buffer last

colorVars == <<prog, conflict, segment, round, queue, offset>>

Coloring == INSTANCE MemoryColoring WITH Programs <- {}

(* An allocation is the last input of the one kernel that writes it.       *)
Allocations == {i \in Ins : ~ kernel[i] /\ inputs[i] = {}}

(* get_output_alias *)
Alias(i) == IF i \in Allocations THEN {i} ELSE inputs[i] \cap Allocations

Aliases(S) == UNION {Alias(i) : i \in S}

(* The module as memory_coloring finds it. *)
Program ==
  [allocs |-> Allocations,
   bytes  |-> [i \in Ins |-> AllocBytes],
   type   |-> [i \in Ins |-> AllocBytes],
   uses   |-> [i \in Ins |-> Aliases(inputs[i])],
   after  |-> [i \in Ins |-> IF identity[i] = {} THEN {} ELSE Aliases({i} \cup identity[i])]]

NoProgram ==
  [allocs |-> {}, bytes |-> [i \in Ins |-> 0], type |-> [i \in Ins |-> 1],
   uses |-> [i \in Ins |-> {}], after |-> [i \in Ins |-> {}]]

Cells == 0..N

(* The units a kernel writes; none where its result is an output parameter. *)
OutCells(i) ==
  {c \in Cells : \E a \in Alias(i) : segment[a][1] <= c /\ c < segment[a][2]}

SharedInit ==
  /\ Init
  /\ ConflictsInit
  /\ Coloring!StartOn(NoProgram)
  /\ content = [c \in Cells |-> 0]

InsertEvents ==
  /\ Compile
  /\ UNCHANGED <<conflictVars, colorVars, content>>

AddConflicts ==
  /\ PassDone /\ ConflictsNext
  /\ UNCHANGED <<vars, colorVars, content>>

StartColoring ==
  /\ ConflictsDone /\ prog = NoProgram
  /\ prog'     = Program
  /\ conflict' = Coloring!ConflictTable(prog')
  /\ queue'    = Coloring!Colored(prog')
  /\ UNCHANGED <<vars, conflictVars, segment, round, offset, content>>

Color ==
  /\ prog # NoProgram /\ Coloring!ColorNext
  /\ UNCHANGED <<vars, conflictVars, content>>

(* A kernel overwrites its allocation from the moment it starts. *)
Run ==
  /\ Coloring!ColorDone
  /\ Evaluate
  /\ LET started == {i \in Ins : status[i] = "queued" /\ status'[i] = "running"}
     IN content' = [c \in Cells |-> IF \E i \in started : c \in OutCells(i)
                                      THEN CHOOSE i \in started : c \in OutCells(i)
                                      ELSE content[c]]
  /\ UNCHANGED <<conflictVars, colorVars>>

SharedNext == InsertEvents \/ AddConflicts \/ StartColoring \/ Color \/ Run

SharedSpec == SharedInit /\ [][SharedNext]_<<vars, conflictVars, colorVars, content>>

(***************************************************************************)
(* As long as a kernel runs, the results it reads are in the buffer: an    *)
(* allocation is reused only where it can be ("find memory allocations     *)
(* that can be reused", memory_coloring.hpp).                              *)
(***************************************************************************)
ReadsIntact ==
  \A i \in Running : \A j \in reads[i] : \A c \in OutCells(j) : content[c] = j

(***************************************************************************)
(* Kernels that run at the same time, on whichever streams, never write    *)
(* the same part of the buffer: what the memory conflicts are for.         *)
(***************************************************************************)
OutputsDisjoint ==
  \A i, j \in Running : i # j => OutCells(i) \cap OutCells(j) = {}

(***************************************************************************)
(* On one stream no kernel, by then or while it runs, has overwritten what *)
(* the next reads: with a single stream reuse of memory is safe, and with  *)
(* several only kernels on other streams can be in the way.                *)
(***************************************************************************)
SameStreamReadsIntact ==
  \A i \in Running : \A j \in reads[i] : \A c \in OutCells(j) :
    content[c] = j \/ launched[content[c]] # launched[i]
=============================================================================

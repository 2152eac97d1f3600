--------------------------- MODULE MemoryColoring ---------------------------
(***************************************************************************)
(* The memory_coloring pass: the allocations of a module become segments   *)
(* of one scratch buffer.  Two allocations conflict when one is live where *)
(* the other is allocated; each is given the first segment that no         *)
(* allocation it conflicts with overlaps, and three further rounds try to  *)
(* move every one of them down.                                            *)
(*                                                                         *)
(* A program prog has instructions 1..N in program order:                  *)
(*   allocs     its allocation instructions                                *)
(*   bytes      the size of an allocation, possibly 0                      *)
(*   type       max_type_size of its shape                                 *)
(*   uses[i]    get_output_alias of the inputs and implicit dependencies   *)
(*              of i that are allocations                                  *)
(*   after[i]   the same for the memory conflict (an identity) the         *)
(*              schedule pass inserted right after i                       *)
(***************************************************************************)
EXTENDS Integers, FiniteSets

CONSTANTS
  N,         \* number of instructions
  Programs   \* the modules the pass is run on

Instrs == 1..N

IsProgram(p) ==
  /\ p \in [allocs : SUBSET Instrs, bytes : [Instrs -> Nat], type : [Instrs -> Nat \ {0}],
            uses : [Instrs -> SUBSET Instrs], after : [Instrs -> SUBSET Instrs]]
  /\ \A i \in Instrs : p.uses[i] \subseteq p.allocs /\ p.after[i] \subseteq p.allocs

ASSUME InstrsAssumption == N \in Nat \ {0}
ASSUME ProgramsAssumption == \A p \in Programs : IsProgram(p)

Rounds == 3  \* "Reduce the number of segments"

VARIABLES
  prog,      \* the module; never changes
  conflict,  \* conflict_table
  segment,   \* ins2segment, NoSegment where there is none yet
  round,     \* 0: the first loop of build; 1..Rounds: reducing
  queue,     \* the rest of conflict_queue
  offset     \* the offset operand of the load that replaces an allocation

colorVars == <<prog, conflict, segment, round, queue, offset>>

NoSegment == <<0, 0>>
NoOffset  == -1

-----------------------------------------------------------------------------
(* Mutant of Live: a memory conflict does not count. *)
LiveByUse(p, i) ==
  {a \in p.allocs : a < i /\ \E k \in Instrs : k > i /\ a \in p.uses[k]}

(* liveness: the allocations before i used by something after it. *)
Live(p, i) ==
  {a \in p.allocs : /\ a < i
                    /\ \E k \in Instrs : \/ k > i /\ a \in p.uses[k]
                                         \/ k >= i /\ a \in p.after[k]}

(* liveness calls back only where an instruction is found in the live set. *)
Used(p, a) == \E k \in Instrs : \/ k > a /\ a \in p.uses[k]
                                \/ k >= a /\ a \in p.after[k]

Colored(p) == {a \in p.allocs : Used(p, a) /\ p.bytes[a] > 0}

(* Mutant of ConflictTable: entered for one of the two allocations only. *)
ConflictOneWay(p) ==
  [a \in Instrs |-> {b \in Colored(p) : a \in Colored(p) /\ a \in Live(p, b)}]

ConflictTable(p) ==
  [a \in Instrs |-> {b \in Colored(p) : a \in Colored(p) /\ (a \in Live(p, b) \/ b \in Live(p, a))}]

-----------------------------------------------------------------------------
ComputeAlignment(p, a) ==
  LET n == p.bytes[a] \div p.type[a]
  IN p.type[a] * (IF n > 4 /\ n % 4 = 0 THEN 4 ELSE IF n > 4 /\ n % 4 = 2 THEN 2 ELSE 1)

(* find_max_alignment, the unit segments are counted in *)
Alignment(p) ==
  LET all == {1} \cup {ComputeAlignment(p, a) : a \in p.allocs}
  IN CHOOSE m \in all : \A k \in all : k <= m

(* Mutant of Units: rounded down. *)
UnitsDown(p, a) == IF p.bytes[a] < Alignment(p) THEN 1 ELSE p.bytes[a] \div Alignment(p)

Units(p, a) == 1 + (p.bytes[a] - 1) \div Alignment(p)

(* The order of std::set<segment>. *)
Before(x, y) == x[1] < y[1] \/ (x[1] = y[1] /\ x[2] < y[2])

(***************************************************************************)
(* find_gap: the ends of the segments that are followed, in the order of   *)
(* the set, by n free units; max_end rules out the ends of those that lie  *)
(* within an earlier segment.                                              *)
(***************************************************************************)
GapsAfter(segs, n) ==
  {x[2] : x \in {s \in segs : /\ \A z \in segs : Before(z, s) => z[2] <= s[2]
                              /\ \E y \in segs : Before(s, y)
                              /\ \A y \in segs : Before(s, y) => y[1] >= s[2] + n}}

Least(S)    == CHOOSE m \in S : \A k \in S : m <= k
Greatest(S) == CHOOSE m \in S : \A k \in S : k <= m

(* next_segment *)
NextStart(segs, n) ==
  IF \A s \in segs : s[1] > n THEN 0
  ELSE IF GapsAfter(segs, n) # {} THEN Least(GapsAfter(segs, n))
  ELSE Greatest({s[2] : s \in segs})

NextSegment(segs, n) == <<NextStart(segs, n), NextStart(segs, n) + n>>

-----------------------------------------------------------------------------
(* The segments of the allocations a conflicts with, as far as there are. *)
Taken(a) == {segment[b] : b \in {c \in conflict[a] : segment[c] # NoSegment}}

(* The order of conflict_queue. *)
Precedes(a, b) ==
  LET da == Cardinality(conflict[a])
      db == Cardinality(conflict[b])
  IN \/ da > db
     \/ da = db /\ prog.bytes[a] > prog.bytes[b]
     \/ da = db /\ prog.bytes[a] = prog.bytes[b] /\ a > b

NextInQueue(a) == a \in queue /\ \A b \in queue \ {a} : Precedes(a, b)

(* allocation_segment::max, in units *)
Top == Greatest({0} \cup {segment[a][2] : a \in Instrs})

StartOn(p) ==
  /\ prog     = p
  /\ conflict = ConflictTable(p)
  /\ segment  = [a \in Instrs |-> NoSegment]
  /\ round    = 0
  /\ queue     = Colored(p)
  /\ offset   = [a \in Instrs |-> NoOffset]

ColorInit == \E p \in Programs : StartOn(p)

Place(a) ==
  /\ round = 0 /\ NextInQueue(a)
  /\ segment' = [segment EXCEPT ![a] = NextSegment(Taken(a), Units(prog, a))]
  /\ queue' = queue \ {a}
  /\ UNCHANGED <<prog, conflict, round, offset>>

Reduce(a) ==
  /\ round \in 1..Rounds /\ NextInQueue(a)
  /\ LET s == NextSegment(Taken(a), Units(prog, a))
     IN segment' = IF s # segment[a] /\ s[2] <= Top
                     THEN [segment EXCEPT ![a] = s] ELSE segment
  /\ queue' = queue \ {a}
  /\ UNCHANGED <<prog, conflict, round, offset>>

NextRound ==
  /\ round < Rounds /\ queue = {}
  /\ round' = round + 1
  /\ queue' = Colored(prog)
  /\ UNCHANGED <<prog, conflict, segment, offset>>

(* The allocations become loads from the scratch buffer; those without a   *)
(* segment have no bytes and are loaded from its start.                    *)
Replace ==
  /\ round = Rounds /\ queue = {}
  /\ round' = Rounds + 1
  /\ offset' = [a \in Instrs |->
                  IF a \in Colored(prog) THEN segment[a][1] * Alignment(prog)
                  ELSE IF a \in prog.allocs THEN 0 ELSE NoOffset]
  /\ UNCHANGED <<prog, conflict, segment, queue>>

ColorNext == (\E a \in Instrs : Place(a) \/ Reduce(a)) \/ NextRound \/ Replace

ColorSpec == ColorInit /\ [][ColorNext]_colorVars

ColorDone == round = Rounds + 1

(* The size of the scratch parameter. *)
ScratchBytes == Top * Alignment(prog)

ColorTypeOK ==
  /\ IsProgram(prog)
  /\ conflict = ConflictTable(prog)
  /\ segment \in [Instrs -> Nat \X Nat]
  /\ round \in 0..(Rounds + 1)
  /\ queue \subseteq Colored(prog)
  /\ offset \in [Instrs -> Nat \cup {NoOffset}]

-----------------------------------------------------------------------------
Overlap(x, y) == x[1] < y[2] /\ y[1] < x[2]

(***************************************************************************)
(* Adjacent allocations never have overlapping segments, in the first loop *)
(* and through all the moves of the rounds that reduce: the assertion at   *)
(* the end of apply and that of next_segment.                              *)
(***************************************************************************)
AdjacentSegmentsDisjoint ==
  \A a \in Instrs : \A b \in conflict[a] : ~ Overlap(segment[a], segment[b])

(***************************************************************************)
(* After the pass the bytes of two allocations are apart whenever some     *)
(* instruction, or memory conflict, uses one of them at or after the other *)
(* is allocated and the other after the one is.                            *)
(***************************************************************************)
LastUse(a) == Greatest({a} \cup {k \in Instrs : a \in prog.uses[k]}
                           \cup {k + 1 : k \in {i \in Instrs : a \in prog.after[i]}})

ByteRange(a) == <<offset[a], offset[a] + prog.bytes[a]>>

LiveTogetherApart ==
  ColorDone =>
    \A a, b \in prog.allocs :
      a < b /\ b < LastUse(a) /\ b < LastUse(b) => ~ Overlap(ByteRange(a), ByteRange(b))

(* Every allocation lies in the scratch buffer and is aligned for its type. *)
LoadsFitScratch ==
  ColorDone =>
    \A a \in Colored(prog) : /\ ByteRange(a)[2] <= ScratchBytes
                             /\ offset[a] % ComputeAlignment(prog, a) = 0
=============================================================================

----------------------- MODULE MemoryColoring_proofs -----------------------
(***************************************************************************)
(* No two allocations that conflict ever overlap, for every module: each   *)
(* segment next_segment returns is apart from those it was given.          *)
(***************************************************************************)
EXTENDS MemoryColoring, TLAPS, WellFoundedInduction

-----------------------------------------------------------------------------
(* Sets of naturals have a least element, bounded ones a greatest.         *)
LEMMA LeastExists ==
  ASSUME NEW S \in SUBSET Nat, S # {}
  PROVE  Least(S) \in S /\ \A k \in S : Least(S) <= k
<1> DEFINE R == OpToRel(<, Nat)
<1>1. PICK x \in S : \A y \in S : ~ (<<y, x>> \in R)
  <2>1. IsWellFoundedOn(R, Nat)
    BY NatLessThanWellFounded
  <2> HIDE DEF R
  <2> QED BY <2>1, WFMin
<1>2. \A a, b \in Nat : a < b => <<a, b>> \in R
  BY DEF OpToRel
<1> HIDE DEF R
<1>3. \A y \in S : x <= y
  <2> SUFFICES ASSUME NEW y \in S PROVE x <= y
    OBVIOUS
  <2>1. ~ (y < x) /\ x \in Nat /\ y \in Nat
    BY <1>1, <1>2
  <2> QED BY <2>1
<1> QED BY <1>3 DEF Least

(* A set of naturals that is not empty and has a bound has a greatest      *)
(* element.                                                                *)
LEMMA GreatestExists ==
  ASSUME NEW S \in SUBSET Nat, S # {}, NEW B \in Nat, \A s \in S : s <= B
  PROVE  Greatest(S) \in S /\ \A k \in S : k <= Greatest(S)
<1> DEFINE T == {B - s : s \in S}
<1>0. \A s \in S : s \in Nat /\ B - s \in Nat
  OBVIOUS
<1>1. T \in SUBSET Nat /\ T # {}
  BY <1>0
<1>2. PICK t \in T : \A u \in T : t <= u
  <2> HIDE DEF T
  <2> QED BY <1>1, LeastExists
<1>3. PICK m \in S : t = B - m
  BY <1>2
<1>4. \A k \in S : k <= m
  <2> SUFFICES ASSUME NEW k \in S PROVE k <= m
    OBVIOUS
  <2>1. B - m <= B - k
    BY <1>2, <1>3
  <2> QED BY <1>0, <2>1
<1> QED BY <1>4 DEF Greatest

(* A function on the instructions is bounded: otherwise take the least n   *)
(* such that it is not bounded on 1..n.                                    *)
LEMMA Bounded ==
  ASSUME NEW f \in [Instrs -> Nat]
  PROVE  \E B \in Nat : \A k \in Instrs : f[k] <= B
<1> USE InstrsAssumption
<1> DEFINE Bad == {n \in Nat : n <= N /\ ~ \E B \in Nat : \A k \in 1..n : f[k] <= B}
<1> SUFFICES ASSUME Bad # {} PROVE FALSE
  <2>1. N \notin Bad => \E B \in Nat : \A k \in 1..N : f[k] <= B
    OBVIOUS
  <2> QED BY <2>1 DEF Instrs
<1>1. PICK n \in Bad : \A k \in Bad : n <= k
  <2>1. Bad \in SUBSET Nat
    OBVIOUS
  <2> HIDE DEF Bad
  <2> QED BY <2>1, LeastExists
<1>2. n \in 1..N
  <2>1. n \in Nat /\ n <= N /\ ~ \E B \in Nat : \A k \in 1..n : f[k] <= B
    OBVIOUS
  <2>2. n # 0
    BY <2>1
  <2> QED BY <2>1, <2>2
<1>3. n - 1 \in Nat /\ n - 1 <= N /\ n - 1 \notin Bad
  <2>1. n - 1 \in Nat /\ n - 1 <= N /\ ~ (n <= n - 1)
    BY <1>2
  <2> HIDE DEF Bad
  <2> QED BY <2>1, <1>1
<1>4. PICK B \in Nat : \A k \in 1..(n - 1) : f[k] <= B
  BY <1>3
<1>5. f[n] \in Nat
  BY <1>2 DEF Instrs
<1> DEFINE C == B + f[n]
<1>6. C \in Nat /\ \A k \in 1..n : f[k] <= C
  <2> SUFFICES ASSUME NEW k \in 1..n PROVE f[k] <= C
    BY <1>5
  <2>1. CASE k = n
    BY <2>1, <1>5
  <2>2. CASE k # n
    <3>1. k \in 1..(n - 1) /\ k \in Instrs
      BY <1>2, <2>2 DEF Instrs
    <3>2. f[k] \in Nat /\ f[k] <= B
      BY <3>1, <1>4
    <3> QED BY <3>2, <1>5
  <2> QED BY <2>1, <2>2
<1> HIDE DEF C
<1> QED BY <1>1, <1>6

-----------------------------------------------------------------------------
(***************************************************************************)
(* next_segment: the segment returned overlaps none of those given.        *)
(***************************************************************************)
LEMMA NextSegmentApart ==
  ASSUME NEW segs \in SUBSET (Nat \X Nat), NEW n \in Nat \ {0},
         NEW B \in Nat, \A s \in segs : s[2] <= B
  PROVE  /\ NextStart(segs, n) \in Nat
         /\ \A s \in segs : ~ Overlap(s, NextSegment(segs, n))
<1> DEFINE start == NextStart(segs, n)
<1>0. \A s \in segs : s = <<s[1], s[2]>> /\ s[1] \in Nat /\ s[2] \in Nat
  OBVIOUS
<1>1. CASE \A s \in segs : s[1] > n
  <2>1. start = 0
    BY <1>1 DEF NextStart
  <2> QED BY <1>0, <1>1, <2>1 DEF NextSegment, Overlap
<1>2. CASE ~ (\A s \in segs : s[1] > n) /\ GapsAfter(segs, n) # {}
  <2>1. start = Least(GapsAfter(segs, n))
    BY <1>2 DEF NextStart
  <2>2. GapsAfter(segs, n) \in SUBSET Nat
    BY <1>0 DEF GapsAfter
  <2>3. start \in GapsAfter(segs, n)
    BY <1>2, <2>1, <2>2, LeastExists
  <2>4. PICK x \in segs : /\ start = x[2]
                          /\ \A z \in segs : Before(z, x) => z[2] <= x[2]
                          /\ \A y \in segs : Before(x, y) => y[1] >= x[2] + n
    BY <2>3 DEF GapsAfter
  <2>5. ASSUME NEW s \in segs PROVE ~ Overlap(s, <<start, start + n>>)
    <3>1. CASE Before(s, x) \/ s = x
      <4>1. s[2] <= start
        BY <1>0, <2>4, <3>1
      <4> QED BY <1>0, <2>4, <4>1 DEF Overlap
    <3>2. CASE Before(x, s)
      <4>1. s[1] >= start + n
        BY <2>4, <3>2
      <4> QED BY <1>0, <2>4, <4>1 DEF Overlap
    <3>3. Before(s, x) \/ s = x \/ Before(x, s)
      <4>1. s[1] = x[1] /\ s[2] = x[2] => s = x
        BY <1>0
      <4> QED BY <1>0, <4>1 DEF Before
    <3> QED BY <3>1, <3>2, <3>3
  <2> QED BY <2>2, <2>3, <2>5 DEF NextSegment
<1>3. CASE ~ (\A s \in segs : s[1] > n) /\ GapsAfter(segs, n) = {}
  <2> DEFINE ends == {s[2] : s \in segs}
  <2>1. start = Greatest(ends)
    BY <1>3 DEF NextStart
  <2>2. ends \in SUBSET Nat /\ ends # {} /\ \A e \in ends : e <= B
    BY <1>0, <1>3
  <2>3. start \in ends /\ \A e \in ends : e <= start
    <3> HIDE DEF ends
    <3> QED BY <2>1, <2>2, GreatestExists
  <2>4. \A s \in segs : s[2] <= start
    BY <2>3
  <2> QED BY <1>0, <2>2, <2>3, <2>4 DEF NextSegment, Overlap
<1> QED BY <1>1, <1>2, <1>3

-----------------------------------------------------------------------------
(* find_max_alignment never returns 0: segments are counted in units of    *)
(* it.                                                                     *)
LEMMA AlignmentPositive ==
  ASSUME NEW p, IsProgram(p)
  PROVE  Alignment(p) \in Nat \ {0}
<1> DEFINE all == {1} \cup {ComputeAlignment(p, a) : a \in p.allocs}
<1>1. \A a \in Instrs : ComputeAlignment(p, a) \in Nat \ {0}
  <2> SUFFICES ASSUME NEW a \in Instrs PROVE ComputeAlignment(p, a) \in Nat \ {0}
    OBVIOUS
  <2>1. p.type[a] \in Nat \ {0}
    BY DEF IsProgram
  <2> QED BY <2>1 DEF ComputeAlignment
<1>2. all \in SUBSET (Nat \ {0}) /\ 1 \in all
  BY <1>1 DEF IsProgram
<1>3. PICK B \in Nat : \A k \in Instrs : [a \in Instrs |-> ComputeAlignment(p, a)][k] <= B
  BY <1>1, Bounded
<1>4. B + 1 \in Nat /\ \A k \in all : k <= B + 1
  BY <1>1, <1>3 DEF IsProgram
<1>5. Alignment(p) = Greatest(all)
  BY DEF Alignment, Greatest
<1> HIDE DEF all
<1> QED BY <1>2, <1>4, <1>5, GreatestExists

(* An allocation with bytes takes one unit or more. *)
LEMMA UnitsPositive ==
  ASSUME NEW p, IsProgram(p), NEW a \in Colored(p)
  PROVE  Units(p, a) \in Nat \ {0}
<1>1. p.bytes[a] \in Nat \ {0}
  BY DEF Colored, IsProgram
<1>2. \A b \in Nat, m \in Nat \ {0} : b \div m \in Nat
  OBVIOUS
<1>3. p.bytes[a] - 1 \in Nat
  BY <1>1
<1> QED BY <1>2, <1>3, AlignmentPositive DEF Units

(* Conflicts are mutual, and no allocation conflicts with itself. *)
LEMMA ConflictsMutual ==
  ASSUME NEW p, IsProgram(p), NEW a \in Instrs, NEW b \in ConflictTable(p)[a]
  PROVE  a # b /\ b \in Instrs /\ a \in ConflictTable(p)[b]
BY DEF ConflictTable, Live, Colored, IsProgram, Instrs

-----------------------------------------------------------------------------
ColorInv == ColorTypeOK /\ AdjacentSegmentsDisjoint

(* Giving a the segment next_segment returns keeps adjacent ones apart. *)
LEMMA MoveSegment ==
  ASSUME ColorInv, NEW a \in queue, UNCHANGED <<prog, conflict>>,
         segment' = [segment EXCEPT ![a] = NextSegment(Taken(a), Units(prog, a))]
  PROVE  segment' \in [Instrs -> Nat \X Nat] /\ AdjacentSegmentsDisjoint'
<1> DEFINE n == Units(prog, a)
           new == NextSegment(Taken(a), n)
<1>1. /\ a \in Instrs /\ a \in Colored(prog) /\ n \in Nat \ {0}
      /\ segment \in [Instrs -> Nat \X Nat]
      /\ \A b \in Instrs : conflict[b] \subseteq Instrs
  <2>1. IsProgram(prog) /\ a \in Colored(prog)
    BY DEF ColorInv, ColorTypeOK
  <2> QED BY <2>1, UnitsPositive DEF ColorInv, ColorTypeOK, Colored, IsProgram, ConflictTable
<1>2. Taken(a) \in SUBSET (Nat \X Nat)
  BY <1>1 DEF Taken
<1>3. PICK B \in Nat : \A b \in Instrs : segment[b][2] <= B
  <2>1. [b \in Instrs |-> segment[b][2]] \in [Instrs -> Nat]
    BY <1>1
  <2>2. PICK B \in Nat : \A b \in Instrs : [c \in Instrs |-> segment[c][2]][b] <= B
    BY <2>1, Bounded
  <2> QED BY <2>2
<1>4. \A s \in Taken(a) : s[2] <= B
  BY <1>1, <1>3 DEF Taken
<1>5. NextStart(Taken(a), n) \in Nat /\ \A s \in Taken(a) : ~ Overlap(s, new)
  <2> HIDE DEF n
  <2> QED BY <1>1, <1>2, <1>4, NextSegmentApart
<1>6. new \in Nat \X Nat
  BY <1>1, <1>5 DEF NextSegment
<1>7. segment'[a] = new /\ \A b \in Instrs : b # a => segment'[b] = segment[b]
  BY <1>1
<1> HIDE DEF n, new
<1>8. ASSUME NEW b \in conflict[a] PROVE ~ Overlap(segment[b], new)
  <2>1. CASE segment[b] = NoSegment
    BY <2>1, <1>6 DEF NoSegment, Overlap
  <2>2. CASE segment[b] # NoSegment
    BY <2>2, <1>5 DEF Taken
  <2> QED BY <2>1, <2>2
<1>9. AdjacentSegmentsDisjoint'
  <2> SUFFICES ASSUME NEW c \in Instrs, NEW d \in conflict[c]
               PROVE  ~ Overlap(segment'[c], segment'[d])
    BY DEF AdjacentSegmentsDisjoint
  <2>1. c # d /\ d \in Instrs /\ c \in conflict[d]
    BY ConflictsMutual DEF ColorInv, ColorTypeOK
  <2>2. CASE c = a
    BY <1>7, <1>8, <2>1, <2>2 DEF Overlap
  <2>3. CASE d = a
    BY <1>7, <1>8, <2>1, <2>3
  <2>4. CASE c # a /\ d # a
    BY <1>7, <2>1, <2>4 DEF ColorInv, AdjacentSegmentsDisjoint
  <2> QED BY <2>2, <2>3, <2>4
<1> QED BY <1>1, <1>6, <1>9 DEF new, n

(* No allocation has a segment when build starts. *)
LEMMA ColorInitInv == ColorInit => ColorInv
<1> SUFFICES ASSUME NEW p \in Programs, StartOn(p) PROVE ColorInv
  BY DEF ColorInit
<1>1. ColorTypeOK
  BY ProgramsAssumption DEF StartOn, ColorTypeOK, NoSegment, NoOffset, Rounds
<1>2. AdjacentSegmentsDisjoint
  <2>1. \A a \in Instrs : conflict[a] \subseteq Instrs
    BY <1>1 DEF ColorTypeOK, ConflictTable, Colored, IsProgram
  <2> QED BY <2>1 DEF StartOn, AdjacentSegmentsDisjoint, Overlap, NoSegment
<1> QED BY <1>1, <1>2 DEF ColorInv

(* Placing, reducing, going to the next round and replacing keep the       *)
(* invariant.                                                              *)
LEMMA ColorStepInv == ColorInv /\ [ColorNext]_colorVars => ColorInv'
<1> SUFFICES ASSUME ColorInv, [ColorNext]_colorVars PROVE ColorInv'
  OBVIOUS
<1> USE DEF ColorInv
<1>1. ASSUME NEW a \in Instrs, Place(a) PROVE ColorInv'
  <2>1. segment' \in [Instrs -> Nat \X Nat] /\ AdjacentSegmentsDisjoint'
    BY <1>1, MoveSegment DEF Place, NextInQueue
  <2> QED BY <1>1, <2>1 DEF Place, ColorTypeOK
<1>2. ASSUME NEW a \in Instrs, Reduce(a) PROVE ColorInv'
  <2>1. CASE segment' = segment
    BY <1>2, <2>1 DEF Reduce, ColorTypeOK, AdjacentSegmentsDisjoint
  <2>2. CASE segment' = [segment EXCEPT ![a] = NextSegment(Taken(a), Units(prog, a))]
    <3>1. segment' \in [Instrs -> Nat \X Nat] /\ AdjacentSegmentsDisjoint'
      BY <1>2, <2>2, MoveSegment DEF Reduce, NextInQueue
    <3> QED BY <1>2, <3>1 DEF Reduce, ColorTypeOK
  <2> QED BY <1>2, <2>1, <2>2 DEF Reduce
<1>3. CASE NextRound
  BY <1>3 DEF NextRound, ColorTypeOK, AdjacentSegmentsDisjoint, Rounds
<1>4. CASE Replace
  <2>1. \A a \in Instrs : segment[a][1] * Alignment(prog) \in Nat
    BY AlignmentPositive DEF ColorTypeOK
  <2>2. offset' \in [Instrs -> Nat \cup {NoOffset}]
    BY <1>4, <2>1 DEF Replace
  <2> QED BY <1>4, <2>2 DEF Replace, ColorTypeOK, AdjacentSegmentsDisjoint, Rounds
<1>5. CASE UNCHANGED colorVars
  BY <1>5 DEF colorVars, ColorTypeOK, AdjacentSegmentsDisjoint
<1> QED BY <1>1, <1>2, <1>3, <1>4, <1>5 DEF ColorNext

(***************************************************************************)
(* Conflicting allocations never have overlapping segments, whatever the   *)
(* module: the assertion of memory_coloring::apply.                        *)
(***************************************************************************)
THEOREM SegmentsDisjoint == ColorSpec => []AdjacentSegmentsDisjoint
<1>1. ColorInit => ColorInv
  BY ColorInitInv
<1>2. ColorInv /\ [ColorNext]_colorVars => ColorInv'
  BY ColorStepInv
<1>3. ColorInv => AdjacentSegmentsDisjoint
  BY DEF ColorInv
<1> QED BY <1>1, <1>2, <1>3, PTL DEF ColorSpec

(* The state of the pass has its type throughout: segments and offsets of  *)
(* memory_coloring are those of the program's allocations.                 *)
THEOREM ColoringTypeCorrect == ColorSpec => []ColorTypeOK
<1>1. ColorInit => ColorInv
  BY ColorInitInv
<1>2. ColorInv /\ [ColorNext]_colorVars => ColorInv'
  BY ColorStepInv
<1>3. ColorInv => ColorTypeOK
  BY DEF ColorInv
<1> QED BY <1>1, <1>2, <1>3, PTL DEF ColorSpec

-----------------------------------------------------------------------------
(* Top, of any placement of the allocations. *)
TopOf(seg) == Greatest({0} \cup {seg[a][2] : a \in Instrs})

(* Top is where the highest segment ends: no segment ends above it, and it *)
(* is no higher than any bound on all of them.                             *)
LEMMA TopIsBound ==
  ASSUME NEW seg \in [Instrs -> Nat \X Nat]
  PROVE  /\ TopOf(seg) \in Nat
         /\ TopOf(seg) = 0 \/ \E a \in Instrs : TopOf(seg) = seg[a][2]
         /\ \A a \in Instrs : seg[a][2] <= TopOf(seg)
<1> DEFINE ends == {0} \cup {seg[a][2] : a \in Instrs}
<1>1. PICK B \in Nat : \A b \in Instrs : seg[b][2] <= B
  <2>1. [b \in Instrs |-> seg[b][2]] \in [Instrs -> Nat]
    OBVIOUS
  <2>2. PICK B \in Nat : \A b \in Instrs : [c \in Instrs |-> seg[c][2]][b] <= B
    BY <2>1, Bounded
  <2> QED BY <2>2
<1>2. ends \in SUBSET Nat /\ ends # {} /\ \A e \in ends : e <= B
  BY <1>1
<1>3. TopOf(seg) \in ends /\ \A e \in ends : e <= TopOf(seg)
  <2> HIDE DEF ends
  <2>1. Greatest(ends) \in ends /\ \A e \in ends : e <= Greatest(ends)
    BY <1>2, GreatestExists
  <2>2. TopOf(seg) = Greatest(ends)
    BY DEF ends, TopOf
  <2> QED BY <2>1, <2>2
<1> QED BY <1>2, <1>3

-----------------------------------------------------------------------------
(* A placed allocation has the units it needs; after the pass its load     *)
(* begins where its segment does.                                          *)
Sized(a) == segment[a][2] = segment[a][1] + Units(prog, a)

SizedInv ==
  /\ \A a \in Colored(prog) : Sized(a) \/ (round = 0 /\ a \in queue)
  /\ ColorDone => \A a \in prog.allocs :
       offset[a] = IF a \in Colored(prog) THEN segment[a][1] * Alignment(prog) ELSE 0

(* The segment next_segment returns has the size asked for.                *)
LEMMA SegmentSized ==
  ASSUME ColorInv, NEW a \in queue, segment' = [segment EXCEPT ![a] = NextSegment(Taken(a), Units(prog, a))],
         UNCHANGED prog
  PROVE  /\ Sized(a)'
         /\ \A b \in Colored(prog) : b # a => (Sized(b)' <=> Sized(b))
<1>1. a \in Instrs /\ Colored(prog) \subseteq Instrs /\ segment \in [Instrs -> Nat \X Nat]
  BY DEF ColorInv, ColorTypeOK, Colored, IsProgram
<1>2. Units(prog', a) = Units(prog, a)
  OBVIOUS
<1>3. segment'[a] = NextSegment(Taken(a), Units(prog, a))
  BY <1>1
<1>4. Sized(a)'
  BY <1>2, <1>3 DEF Sized, NextSegment
<1>5. ASSUME NEW b \in Colored(prog), b # a PROVE Sized(b)' <=> Sized(b)
  <2>1. segment'[b] = segment[b] /\ Units(prog', b) = Units(prog, b)
    BY <1>1, <1>5
  <2> QED BY <2>1 DEF Sized
<1> QED BY <1>4, <1>5

(* Segments are sized once they are placed, whichever round moves them.    *)
LEMMA SizedHolds == ColorSpec => [](ColorInv /\ SizedInv)
<1>1. ColorInit => ColorInv /\ SizedInv
  <2>1. ColorInit => SizedInv
    BY DEF ColorInit, StartOn, SizedInv, ColorDone, Rounds
  <2> QED BY <2>1, ColorInitInv
<1>2. ColorInv /\ SizedInv /\ [ColorNext]_colorVars => (ColorInv /\ SizedInv)'
  <2> SUFFICES ASSUME ColorInv, SizedInv, [ColorNext]_colorVars PROVE SizedInv'
    BY ColorStepInv
  <2>0. round \in 0..4 /\ queue \subseteq Colored(prog)
    BY DEF ColorInv, ColorTypeOK, Rounds
  <2>1. ASSUME NEW a \in Instrs, Place(a) PROVE SizedInv'
    <3>1. round = 0 /\ a \in queue /\ round' = 0 /\ queue' = queue \ {a} /\ prog' = prog
      BY <2>1 DEF Place, NextInQueue
    <3>2. Sized(a)' /\ \A b \in Colored(prog) : b # a => (Sized(b)' <=> Sized(b))
      BY <2>1, <3>1, SegmentSized DEF Place
    <3> QED BY <3>1, <3>2 DEF SizedInv, ColorDone, Rounds
  <2>2. ASSUME NEW a \in Instrs, Reduce(a) PROVE SizedInv'
    <3>1. round \in 1..3 /\ a \in queue /\ round' = round /\ prog' = prog
      BY <2>2 DEF Reduce, NextInQueue, Rounds
    <3>2. CASE segment' = segment
      BY <3>1, <3>2 DEF SizedInv, ColorDone, Rounds, Sized
    <3>3. CASE segment' = [segment EXCEPT ![a] = NextSegment(Taken(a), Units(prog, a))]
      <4>1. Sized(a)' /\ \A b \in Colored(prog) : b # a => (Sized(b)' <=> Sized(b))
        BY <3>1, <3>3, SegmentSized
      <4> QED BY <3>1, <4>1 DEF SizedInv, ColorDone, Rounds
    <3> QED BY <2>2, <3>2, <3>3 DEF Reduce
  <2>3. CASE NextRound
    <3>1. prog' = prog /\ segment' = segment /\ queue = {} /\ round' \in 1..3
      BY <2>0, <2>3 DEF NextRound, Rounds
    <3> QED BY <3>1 DEF SizedInv, ColorDone, Rounds, Sized
  <2>4. CASE Replace
    <3>1. prog' = prog /\ segment' = segment /\ round = 3 /\ round' = 4
      BY <2>4 DEF Replace, Rounds
    <3>2. prog.allocs \subseteq Instrs
      BY DEF ColorInv, ColorTypeOK, IsProgram
    <3>3. \A a \in prog.allocs :
            offset'[a] = IF a \in Colored(prog) THEN segment[a][1] * Alignment(prog) ELSE 0
      BY <2>4, <3>2 DEF Replace
    <3> QED BY <3>1, <3>3 DEF SizedInv, Sized
  <2>5. CASE UNCHANGED colorVars
    BY <2>5 DEF colorVars, SizedInv, Sized, ColorDone
  <2> QED BY <2>1, <2>2, <2>3, <2>4, <2>5 DEF ColorNext
<1> QED BY <1>1, <1>2, PTL DEF ColorSpec

(* Rounding up to units leaves room for all bytes.                         *)
LEMMA RoundedUp ==
  ASSUME NEW b \in Nat \ {0}, NEW m \in Nat \ {0}
  PROVE  b <= (1 + (b - 1) \div m) * m
<1> DEFINE q == (b - 1) \div m
           r == (b - 1) % m
<1>1. q \in Nat /\ r \in Nat /\ r < m /\ b - 1 = m * q + r
  OBVIOUS
<1> HIDE DEF q, r
<1>2. (1 + q) * m = m + m * q
  BY <1>1
<1>3. m * q \in Nat
  BY <1>1
<1>4. b <= (1 + q) * m
  BY <1>1, <1>2, <1>3
<1> QED BY <1>4 DEF q

(* Units become bytes in their order.                                      *)
LEMMA UnitsToBytes ==
  ASSUME NEW x \in Nat, NEW y \in Nat, NEW m \in Nat \ {0}, x <= y
  PROVE  x * m <= y * m
<1>1. PICK d \in Nat : y = x + d
  <2>1. y - x \in Nat /\ y = x + (y - x)
    OBVIOUS
  <2> QED BY <2>1
<1>2. y * m = x * m + d * m
  BY <1>1
<1>3. x * m \in Nat /\ d * m \in Nat
  OBVIOUS
<1> QED BY <1>2, <1>3

(* The bytes of an allocation lie in its segment.                          *)
LEMMA BytesInSegment ==
  ASSUME ColorInv, SizedInv, ColorDone, NEW a \in Colored(prog)
  PROVE  /\ segment[a][1] \in Nat /\ segment[a][2] \in Nat /\ prog.bytes[a] \in Nat
         /\ offset[a] = segment[a][1] * Alignment(prog) /\ offset[a] \in Nat
         /\ offset[a] + prog.bytes[a] <= segment[a][2] * Alignment(prog)
<1> DEFINE A == Alignment(prog)
           start == segment[a][1]
           n == Units(prog, a)
           b == prog.bytes[a]
<1>1. IsProgram(prog) /\ a \in Instrs /\ a \in prog.allocs /\ segment \in [Instrs -> Nat \X Nat]
  BY DEF ColorInv, ColorTypeOK, Colored, IsProgram
<1>2. A \in Nat \ {0} /\ n \in Nat \ {0} /\ b \in Nat \ {0} /\ start \in Nat
  <2>1. b \in Nat \ {0}
    BY <1>1 DEF Colored, IsProgram
  <2> QED BY <1>1, <2>1, AlignmentPositive, UnitsPositive
<1>3. segment[a][2] = start + n
  BY DEF SizedInv, Sized, ColorDone, Rounds
<1>4. offset[a] = start * A
  BY <1>1 DEF SizedInv
<1>5. b <= n * A
  BY <1>2, RoundedUp DEF Units
<1> HIDE DEF A, start, n, b
<1>6. start * A \in Nat /\ n * A \in Nat /\ (start + n) * A = start * A + n * A
  BY <1>2
<1>7. start * A + b <= (start + n) * A
  BY <1>2, <1>5, <1>6
<1>8. start \in Nat /\ start + n \in Nat /\ b \in Nat
  BY <1>2
<1> QED BY <1>3, <1>4, <1>6, <1>7, <1>8 DEF A, start, n, b

(* An allocation whose last use is after k has a user after k, or a memory *)
(* conflict there.                                                         *)
LEMMA UsedIsLive ==
  ASSUME IsProgram(prog), NEW a \in prog.allocs, NEW k \in Instrs, a <= k, k < LastUse(a)
  PROVE  \E j \in Instrs : \/ j > k /\ a \in prog.uses[j]
                           \/ j >= k /\ a \in prog.after[j]
<1> DEFINE last == {a} \cup {j \in Instrs : a \in prog.uses[j]}
                       \cup {j + 1 : j \in {i \in Instrs : a \in prog.after[i]}}
<1>0. a \in Instrs /\ N \in Nat
  BY InstrsAssumption DEF IsProgram
<1>1. last \in SUBSET Nat /\ last # {} /\ \A x \in last : x <= N + 1
  BY <1>0 DEF Instrs
<1>2. LastUse(a) = Greatest(last)
  BY DEF LastUse
<1>3. LastUse(a) \in last
  <2> HIDE DEF last
  <2>1. N + 1 \in Nat
    BY <1>0
  <2> QED BY <1>1, <1>2, <2>1, GreatestExists
<1>4. CASE LastUse(a) = a
  BY <1>0, <1>4 DEF Instrs
<1>5. CASE LastUse(a) \in {j \in Instrs : a \in prog.uses[j]}
  BY <1>5
<1>6. ASSUME NEW j \in Instrs, a \in prog.after[j], LastUse(a) = j + 1
      PROVE  j >= k
  BY <1>6 DEF Instrs
<1> QED BY <1>3, <1>4, <1>5, <1>6

(***************************************************************************)
(* Allocations that are both used after the later one was made share no    *)
(* byte of the scratch buffer, whatever the module.                        *)
(***************************************************************************)
THEOREM LiveAllocationsApart == ColorSpec => []LiveTogetherApart
<1>1. ColorInv /\ SizedInv => LiveTogetherApart
  <2> SUFFICES ASSUME ColorInv, SizedInv, ColorDone, NEW a \in prog.allocs, NEW b \in prog.allocs,
                      a < b, b < LastUse(a), b < LastUse(b)
               PROVE  ~ Overlap(ByteRange(a), ByteRange(b))
    BY DEF LiveTogetherApart
  <2>1. IsProgram(prog) /\ a \in Instrs /\ b \in Instrs
    BY DEF ColorInv, ColorTypeOK, IsProgram
  <2>2. \A x \in prog.allocs : prog.bytes[x] \in Nat
    BY <2>1 DEF IsProgram
  <2>3. Used(prog, a) /\ a \in Live(prog, b)
    <3>1. a <= b
      BY <2>1 DEF Instrs
    <3>2. \E j \in Instrs : (j > b /\ a \in prog.uses[j]) \/ (j >= b /\ a \in prog.after[j])
      BY <2>1, <3>1, UsedIsLive
    <3>3. \A j \in Instrs : j >= b => j > a
      BY <2>1 DEF Instrs
    <3> QED BY <2>1, <3>2, <3>3 DEF Used, Live, Instrs
  <2>4. Used(prog, b)
    <3>1. b <= b
      BY <2>1 DEF Instrs
    <3>2. \E j \in Instrs : (j > b /\ b \in prog.uses[j]) \/ (j >= b /\ b \in prog.after[j])
      BY <2>1, <3>1, UsedIsLive
    <3> QED BY <3>2 DEF Used
  <2>5. \A x \in prog.allocs : offset[x] \in Nat
    BY BytesInSegment DEF SizedInv
  <2>6. ASSUME NEW x \in {a, b}, prog.bytes[x] = 0 PROVE ~ Overlap(ByteRange(a), ByteRange(b))
    <3>1. x \notin Colored(prog)
      BY <2>6 DEF Colored
    <3>2. offset[x] = 0
      BY <2>6, <3>1 DEF SizedInv
    <3> QED BY <2>2, <2>5, <2>6, <3>2 DEF Overlap, ByteRange
  <2>7. CASE prog.bytes[a] > 0 /\ prog.bytes[b] > 0
    <3> DEFINE A == Alignment(prog)
    <3>1. a \in Colored(prog) /\ b \in Colored(prog)
      BY <2>3, <2>4, <2>7 DEF Colored
    <3>2. b \in conflict[a]
      BY <2>1, <2>3, <3>1 DEF ColorInv, ColorTypeOK, ConflictTable
    <3>3. ~ Overlap(segment[a], segment[b])
      BY <2>1, <3>2 DEF ColorInv, AdjacentSegmentsDisjoint
    <3>4. A \in Nat \ {0}
      BY <2>1, AlignmentPositive
    <3>5. /\ segment[a][1] \in Nat /\ segment[a][2] \in Nat
          /\ segment[b][1] \in Nat /\ segment[b][2] \in Nat
          /\ offset[a] = segment[a][1] * A /\ offset[a] + prog.bytes[a] <= segment[a][2] * A
          /\ offset[b] = segment[b][1] * A /\ offset[b] + prog.bytes[b] <= segment[b][2] * A
      BY <3>1, BytesInSegment
    <3> HIDE DEF A
    <3>6. segment[a][2] <= segment[b][1] \/ segment[b][2] <= segment[a][1]
      BY <3>3, <3>5 DEF Overlap
    <3>7. segment[a][2] * A <= segment[b][1] * A \/ segment[b][2] * A <= segment[a][1] * A
      BY <3>4, <3>5, <3>6, UnitsToBytes
    <3>8. segment[a][2] * A \in Nat /\ segment[b][2] * A \in Nat
      BY <3>4, <3>5
    <3>9. offset[a] + prog.bytes[a] <= offset[b] \/ offset[b] + prog.bytes[b] <= offset[a]
      BY <2>2, <2>5, <3>5, <3>7, <3>8
    <3> QED BY <2>2, <2>5, <3>9 DEF Overlap, ByteRange
  <2> QED BY <2>2, <2>6, <2>7
<1> QED BY <1>1, SizedHolds, PTL

(* Alignments that are powers of two: the largest is a multiple of each.   *)
LEMMA PowersDivide ==
  ASSUME NEW x \in {1, 2, 4, 8, 16, 32}, NEW m \in {1, 2, 4, 8, 16, 32}, x <= m, NEW s \in Nat
  PROVE  (s * m) % x = 0
<1>1. CASE x = 1
  BY <1>1
<1>2. CASE x = 2
  BY <1>2
<1>3. CASE x = 4
  BY <1>3
<1>4. CASE x = 8
  BY <1>4
<1>5. CASE x = 16
  BY <1>5
<1>6. CASE x = 32
  BY <1>6
<1> QED BY <1>1, <1>2, <1>3, <1>4, <1>5, <1>6

(***************************************************************************)
(* Every load lies in the scratch buffer and is aligned for its type, for  *)
(* every module of types of 1, 2, 4 or 8 bytes.                            *)
(***************************************************************************)
THEOREM LoadsInScratch ==
  ASSUME \A p \in Programs : \A a \in Instrs : p.type[a] \in {1, 2, 4, 8}
  PROVE  ColorSpec => []LoadsFitScratch
<1> DEFINE Typed == \A a \in Instrs : prog.type[a] \in {1, 2, 4, 8}
<1>1. ColorSpec => []Typed
  <2>1. ColorInit => Typed
    BY DEF ColorInit, StartOn
  <2>2. Typed /\ [ColorNext]_colorVars => Typed'
    BY DEF ColorNext, colorVars, Place, Reduce, NextRound, Replace
  <2> HIDE DEF Typed
  <2> QED BY <2>1, <2>2, PTL DEF ColorSpec
<1>2. ColorInv /\ SizedInv /\ Typed => LoadsFitScratch
  <2> SUFFICES ASSUME ColorInv, SizedInv, Typed, ColorDone, NEW a \in Colored(prog)
               PROVE  /\ ByteRange(a)[2] <= ScratchBytes
                      /\ offset[a] % ComputeAlignment(prog, a) = 0
    BY DEF LoadsFitScratch
  <2> DEFINE A == Alignment(prog)
             all == {1} \cup {ComputeAlignment(prog, b) : b \in prog.allocs}
             Powers == {1, 2, 4, 8, 16, 32}
  <2>1. IsProgram(prog) /\ a \in prog.allocs /\ prog.allocs \subseteq Instrs
        /\ segment \in [Instrs -> Nat \X Nat]
    BY DEF ColorInv, ColorTypeOK, Colored, IsProgram
  <2>2. A \in Nat \ {0}
    BY <2>1, AlignmentPositive
  <2>3. /\ segment[a][1] \in Nat /\ segment[a][2] \in Nat
        /\ offset[a] = segment[a][1] * A /\ offset[a] + prog.bytes[a] <= segment[a][2] * A
        /\ offset[a] \in Nat /\ prog.bytes[a] \in Nat
    BY BytesInSegment
  <2>4. Top \in Nat /\ segment[a][2] <= Top
    <3>1. Top = TopOf(segment)
      BY DEF Top, TopOf
    <3> QED BY <2>1, <3>1, TopIsBound
  <2>5. ByteRange(a)[2] <= ScratchBytes
    <3> HIDE DEF A
    <3>1. segment[a][2] * A <= Top * A
      BY <2>2, <2>3, <2>4, UnitsToBytes
    <3>2. segment[a][2] * A \in Nat /\ Top * A \in Nat
      BY <2>2, <2>3, <2>4
    <3>3. offset[a] + prog.bytes[a] <= Top * A
      BY <2>3, <3>1, <3>2
    <3> QED BY <3>3 DEF ByteRange, ScratchBytes, A
  <2>6. \A b \in Instrs : ComputeAlignment(prog, b) \in Powers
    <3> SUFFICES ASSUME NEW b \in Instrs PROVE ComputeAlignment(prog, b) \in Powers
      OBVIOUS
    <3>1. prog.type[b] \in {1, 2, 4, 8}
      OBVIOUS
    <3> QED BY <3>1 DEF ComputeAlignment
  <2>7. A \in all /\ \A x \in all : x <= A
    <3>1. all \in SUBSET Nat /\ all # {} /\ \A x \in all : x <= 32
      BY <2>1, <2>6
    <3>2. A = Greatest(all)
      BY DEF Alignment, Greatest
    <3> HIDE DEF all, A
    <3> QED BY <3>1, <3>2, GreatestExists
  <2>8. A \in Powers /\ ComputeAlignment(prog, a) \in Powers /\ ComputeAlignment(prog, a) <= A
    BY <2>1, <2>6, <2>7
  <2>9. offset[a] % ComputeAlignment(prog, a) = 0
    <3> HIDE DEF A
    <3> QED BY <2>3, <2>8, PowersDivide
  <2> QED BY <2>5, <2>9
<1> HIDE DEF Typed
<1> QED BY <1>1, <1>2, SizedHolds, PTL
=============================================================================

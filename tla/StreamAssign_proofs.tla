------------------------- MODULE StreamAssign_proofs -------------------------
(***************************************************************************)
(* What stream assignment and sort guarantee of every module, for every    *)
(* number of streams, weights and tie-breaking addresses.                  *)
(***************************************************************************)
EXTENDS StreamAssign, TLAPS, FiniteSetTheorems, WellFoundedInduction

-----------------------------------------------------------------------------
(***************************************************************************)
(* Sums over the instructions of a module, and the accumulated weights.    *)
(***************************************************************************)
LEMMA SmallestExists ==
  ASSUME NEW T \in SUBSET Nat, T # {}
  PROVE  \E t \in T : \A u \in T : t <= u
<1> DEFINE R == OpToRel(<, Nat)
<1>1. IsWellFoundedOn(R, Nat)
  BY NatLessThanWellFounded
<1>2. PICK t \in T : \A u \in T : ~ (<<u, t>> \in R)
  <2> HIDE DEF R
  <2> QED BY <1>1, WFMin
<1>3. \A x, y \in Nat : y < x => <<y, x>> \in R
  BY DEF OpToRel
<1> HIDE DEF R
<1>4. ASSUME NEW u \in T PROVE t <= u
  <2>1. t \in Nat /\ u \in Nat /\ ~ (u < t)
    BY <1>2, <1>3
  <2> QED BY <2>1
<1> QED BY <1>4

(* The sums over 1..i for the i up to n. *)
IsSum(f, w, S, n) ==
  f = [i \in 0..n |-> IF i = 0 THEN 0 ELSE f[i - 1] + (IF i \in S THEN w[i] ELSE 0)]

Sums(w, S, n) == CHOOSE f : IsSum(f, w, S, n)

LEMMA SumsExist ==
  ASSUME NEW n \in Nat, NEW w, NEW S
  PROVE  IsSum(Sums(w, S, n), w, S, n)
<1> DEFINE T == {m \in Nat : \A f : ~ IsSum(f, w, S, m)}
<1>1. T = {}
  <2> SUFFICES ASSUME T # {} PROVE FALSE
    OBVIOUS
  <2>1. PICK m \in T : \A u \in T : m <= u
    <3>1. T \in SUBSET Nat
      OBVIOUS
    <3> HIDE DEF T
    <3> QED BY <3>1, SmallestExists
  <2>2. m # 0
    <3> SUFFICES ASSUME m = 0 PROVE FALSE
      OBVIOUS
    <3>1. IsSum([i \in 0..0 |-> 0], w, S, 0)
      BY DEF IsSum
    <3> QED BY <2>1, <3>1
  <2>3. m - 1 \in Nat /\ m - 1 \notin T
    BY <2>1, <2>2
  <2>4. PICK f : IsSum(f, w, S, m - 1)
    BY <2>3
  <2> DEFINE h == [i \in 0..m |-> IF i = m THEN f[m - 1] + (IF m \in S THEN w[m] ELSE 0) ELSE f[i]]
  <2>5. ASSUME NEW i \in 0..m
        PROVE  h[i] = IF i = 0 THEN 0 ELSE h[i - 1] + (IF i \in S THEN w[i] ELSE 0)
    <3>1. \A k \in 0..(m - 1) : k \in 0..m /\ k # m /\ h[k] = f[k]
      BY <2>1
    <3>2. CASE i = m
      <4>1. m - 1 \in 0..(m - 1)
        BY <2>3
      <4>2. h[i - 1] = f[m - 1] /\ h[i] = f[m - 1] + (IF m \in S THEN w[m] ELSE 0)
        BY <3>1, <3>2, <4>1
      <4> HIDE DEF h
      <4> QED BY <2>2, <3>2, <4>2
    <3>3. CASE i # m
      <4>1. i \in 0..(m - 1) /\ (i # 0 => i - 1 \in 0..(m - 1))
        BY <2>1, <3>3
      <4>2. f[i] = IF i = 0 THEN 0 ELSE f[i - 1] + (IF i \in S THEN w[i] ELSE 0)
        BY <2>4, <4>1 DEF IsSum
      <4>3. h[i] = f[i] /\ (i # 0 => h[i - 1] = f[i - 1])
        BY <3>1, <4>1
      <4> HIDE DEF h
      <4> QED BY <4>2, <4>3
    <3> QED BY <3>2, <3>3
  <2>6. IsSum(h, w, S, m)
    <3>1. h = [i \in 0..m |-> h[i]]
      OBVIOUS
    <3> HIDE DEF h
    <3> QED BY <2>5, <3>1 DEF IsSum
  <2> HIDE DEF h
  <2> QED BY <2>1, <2>6
<1>2. \E f : IsSum(f, w, S, n)
  BY <1>1
<1> QED BY <1>2 DEF Sums

LEMMA SumInIs ==
  ASSUME NEW n \in Nat, NEW w, NEW S
  PROVE  /\ SumIn(w, S, n) = Sums(w, S, n)[n]
         /\ Sums(w, S, n)[0] = 0
         /\ \A i \in 1..n :
              Sums(w, S, n)[i] = Sums(w, S, n)[i - 1] + (IF i \in S THEN w[i] ELSE 0)
<1>1. SumIn(w, S, n) = Sums(w, S, n)[n]
  BY DEF SumIn, Sums, IsSum
<1>2. IsSum(Sums(w, S, n), w, S, n)
  BY SumsExist
<1> DEFINE f == Sums(w, S, n)
<1>3. f = [i \in 0..n |-> IF i = 0 THEN 0 ELSE f[i - 1] + (IF i \in S THEN w[i] ELSE 0)]
  BY <1>2 DEF IsSum
<1> HIDE DEF f
<1>4. f[0] = 0
  BY <1>3
<1>5. ASSUME NEW i \in 1..n PROVE f[i] = f[i - 1] + (IF i \in S THEN w[i] ELSE 0)
  <2>1. i \in 0..n /\ i # 0
    OBVIOUS
  <2> QED BY <1>3, <2>1
<1> QED BY <1>1, <1>4, <1>5 DEF f

(* What is added up are numbers, and so is the sum. *)
LEMMA SumIsNumber ==
  ASSUME NEW n \in Nat, NEW w, NEW S, \A i \in 1..n : i \in S => w[i] \in Nat
  PROVE  \A i \in 0..n : Sums(w, S, n)[i] \in Nat
<1> DEFINE f == Sums(w, S, n)
           T == {i \in 0..n : f[i] \notin Nat}
<1>1. f[0] = 0 /\ \A i \in 1..n : f[i] = f[i - 1] + (IF i \in S THEN w[i] ELSE 0)
  BY SumInIs
<1> HIDE DEF f
<1> SUFFICES ASSUME T # {} PROVE FALSE
  BY DEF f
<1>2. PICK m \in T : \A u \in T : m <= u
  <2>1. T \in SUBSET Nat
    OBVIOUS
  <2> HIDE DEF T
  <2> QED BY <2>1, SmallestExists
<1>3. m \in 1..n
  BY <1>1, <1>2
<1>4. m - 1 \in 0..n /\ m - 1 \notin T
  BY <1>2, <1>3
<1>5. f[m - 1] \in Nat
  BY <1>4
<1> QED BY <1>1, <1>2, <1>3, <1>5

(* The sum over two sets that share nothing. *)
LEMMA SumOfUnion ==
  ASSUME NEW n \in Nat, NEW w, NEW S, NEW U, S \cap U = {},
         \A i \in 1..n : w[i] \in Nat
  PROVE  SumIn(w, S \cup U, n) = SumIn(w, S, n) + SumIn(w, U, n)
<1> DEFINE f == Sums(w, S, n)
           h == Sums(w, U, n)
           b == Sums(w, S \cup U, n)
           T == {i \in 0..n : b[i] # f[i] + h[i]}
<1>1. /\ f[0] = 0 /\ \A i \in 1..n : f[i] = f[i - 1] + (IF i \in S THEN w[i] ELSE 0)
      /\ h[0] = 0 /\ \A i \in 1..n : h[i] = h[i - 1] + (IF i \in U THEN w[i] ELSE 0)
      /\ b[0] = 0 /\ \A i \in 1..n : b[i] = b[i - 1] + (IF i \in S \cup U THEN w[i] ELSE 0)
  BY SumInIs
<1>2. \A i \in 0..n : f[i] \in Nat /\ h[i] \in Nat /\ b[i] \in Nat
  BY SumIsNumber
<1>3. SumIn(w, S, n) = f[n] /\ SumIn(w, U, n) = h[n] /\ SumIn(w, S \cup U, n) = b[n]
  BY SumInIs
<1> HIDE DEF f, h, b
<1>4. T = {}
  <2> SUFFICES ASSUME T # {} PROVE FALSE
    OBVIOUS
  <2>1. PICK m \in T : \A u \in T : m <= u
    <3>1. T \in SUBSET Nat
      OBVIOUS
    <3> HIDE DEF T
    <3> QED BY <3>1, SmallestExists
  <2>2. m \in 1..n
    BY <1>1, <2>1
  <2>3. m - 1 \in 0..n /\ m - 1 \notin T
    BY <2>1, <2>2
  <2>4. b[m - 1] = f[m - 1] + h[m - 1]
    BY <2>3
  <2>5. b[m] # f[m] + h[m]
    BY <2>1
  <2>6. f[m - 1] \in Nat /\ h[m - 1] \in Nat /\ w[m] \in Nat
    BY <1>2, <2>2, <2>3
  <2>7. /\ f[m] = f[m - 1] + (IF m \in S THEN w[m] ELSE 0)
        /\ h[m] = h[m - 1] + (IF m \in U THEN w[m] ELSE 0)
        /\ b[m] = b[m - 1] + (IF m \in S \cup U THEN w[m] ELSE 0)
    BY <1>1, <2>2
  <2>8. ~ (m \in S /\ m \in U)
    OBVIOUS
  <2> QED BY <2>4, <2>5, <2>6, <2>7, <2>8
<1> QED BY <1>3, <1>4

(* Where nothing in the set weighs anything, the sum is zero. *)
LEMMA SumOfNothing ==
  ASSUME NEW n \in Nat, NEW w, NEW S, \A i \in 1..n : i \in S => w[i] = 0
  PROVE  SumIn(w, S, n) = 0
<1> DEFINE f == Sums(w, S, n)
           T == {i \in 0..n : f[i] # 0}
<1>1. f[0] = 0 /\ \A i \in 1..n : f[i] = f[i - 1] + (IF i \in S THEN w[i] ELSE 0)
  BY SumInIs
<1>2. SumIn(w, S, n) = f[n]
  BY SumInIs
<1> HIDE DEF f
<1>3. T = {}
  <2> SUFFICES ASSUME T # {} PROVE FALSE
    OBVIOUS
  <2>1. PICK m \in T : \A u \in T : m <= u
    <3>1. T \in SUBSET Nat
      OBVIOUS
    <3> HIDE DEF T
    <3> QED BY <3>1, SmallestExists
  <2>2. m \in 1..n
    BY <1>1, <2>1
  <2>3. m - 1 \in 0..n /\ m - 1 \notin T
    BY <2>1, <2>2
  <2> QED BY <1>1, <2>1, <2>2, <2>3
<1> QED BY <1>2, <1>3

(* The sum over one instruction. *)
LEMMA SumOfOne ==
  ASSUME NEW n \in Nat, NEW w, NEW j \in 1..n, \A i \in 1..n : w[i] \in Nat
  PROVE  SumIn(w, {j}, n) = w[j]
<1> DEFINE f == Sums(w, {j}, n)
           T == {i \in 0..n : f[i] # IF i < j THEN 0 ELSE w[j]}
<1>1. f[0] = 0 /\ \A i \in 1..n : f[i] = f[i - 1] + (IF i \in {j} THEN w[i] ELSE 0)
  BY SumInIs
<1>2. SumIn(w, {j}, n) = f[n]
  BY SumInIs
<1> HIDE DEF f
<1>3. T = {}
  <2> SUFFICES ASSUME T # {} PROVE FALSE
    OBVIOUS
  <2>1. PICK m \in T : \A u \in T : m <= u
    <3>1. T \in SUBSET Nat
      OBVIOUS
    <3> HIDE DEF T
    <3> QED BY <3>1, SmallestExists
  <2>2. m \in 1..n
    BY <1>1, <2>1
  <2>3. m - 1 \in 0..n /\ m - 1 \notin T
    BY <2>1, <2>2
  <2>4. f[m - 1] = IF m - 1 < j THEN 0 ELSE w[j]
    BY <2>3
  <2>5. f[m] = f[m - 1] + (IF m = j THEN w[m] ELSE 0)
    BY <1>1, <2>2
  <2>6. w[j] \in Nat /\ f[m] # IF m < j THEN 0 ELSE w[j]
    BY <2>1
  <2> QED BY <2>2, <2>4, <2>5, <2>6
<1> QED BY <1>2, <1>3

-----------------------------------------------------------------------------
(* Instruction orders: lists of 1..n without repetition. *)
IsOrder(s, n) ==
  /\ s \in Seq(1..n) /\ Len(s) = n
  /\ \A i \in 1..n : \E k \in 1..n : s[k] = i
  /\ \A k, l \in 1..n : s[k] = s[l] => k = l

Before(s, i, j) == PlaceOf(s, i) < PlaceOf(s, j)

LEMMA OrdersAreFunctions ==
  ASSUME NEW n \in Nat, NEW s, IsOrder(s, n)
  PROVE  s \in [1..n -> 1..n] /\ DOMAIN s = 1..n /\ Len(s) = n
<1>1. s \in Seq(1..n) /\ Len(s) = n
  BY DEF IsOrder
<1> QED BY <1>1

LEMMA PlaceOfIs ==
  ASSUME NEW n \in Nat, NEW s, IsOrder(s, n), NEW i \in 1..n
  PROVE  /\ PlaceOf(s, i) \in 1..n /\ s[PlaceOf(s, i)] = i
         /\ \A k \in 1..n : s[k] = i => k = PlaceOf(s, i)
<1>1. DOMAIN s = 1..n /\ \E k \in DOMAIN s : s[k] = i
  BY OrdersAreFunctions DEF IsOrder
<1>2. PlaceOf(s, i) \in DOMAIN s /\ s[PlaceOf(s, i)] = i
  BY <1>1, Zenon DEF PlaceOf
<1> QED BY <1>1, <1>2 DEF IsOrder

(* What taking i out leaves. *)
LEMMA WithoutIs ==
  ASSUME NEW n \in Nat, NEW s, IsOrder(s, n), NEW i \in 1..n
  PROVE  /\ Without(s, i) \in Seq(1..n) /\ Len(Without(s, i)) = n - 1
         /\ \A k \in 1..(n - 1) :
              Without(s, i)[k] = IF k < PlaceOf(s, i) THEN s[k] ELSE s[k + 1]
<1>1. Len(s) = n /\ s \in [1..n -> 1..n] /\ n - 1 \in Nat
  BY OrdersAreFunctions
<1>2. \A k \in 1..(n - 1) : k \in 1..n /\ k + 1 \in 1..n
  OBVIOUS
<1> DEFINE t == [k \in 1..(n - 1) |-> IF k < PlaceOf(s, i) THEN s[k] ELSE s[k + 1]]
<1>3. t \in [1..(n - 1) -> 1..n]
  BY <1>1, <1>2
<1>4. t \in Seq(1..n) /\ Len(t) = n - 1
  BY <1>1, <1>3
<1>5. Without(s, i) = t
  BY <1>1 DEF Without
<1> HIDE DEF t
<1> QED BY <1>4, <1>5 DEF t

(* list::splice to the front leaves the relative order of the others. *)
LEMMA MovedToFront ==
  ASSUME NEW n \in Nat, NEW s, IsOrder(s, n), NEW i \in 1..n
  PROVE  /\ IsOrder(MoveToFront(s, i), n)
         /\ \A j \in 1..n \ {i} : Before(MoveToFront(s, i), i, j)
         /\ \A j, k \in 1..n \ {i} : Before(MoveToFront(s, i), j, k) <=> Before(s, j, k)
<1> DEFINE t == MoveToFront(s, i)
           p == PlaceOf(s, i)
           u == Without(s, i)
<1>0. s \in [1..n -> 1..n] /\ Len(s) = n
  BY OrdersAreFunctions
<1>1. p \in 1..n /\ s[p] = i /\ \A k \in 1..n : s[k] = i => k = p
  BY PlaceOfIs
<1>2. u \in Seq(1..n) /\ Len(u) = n - 1
      /\ \A k \in 1..(n - 1) : u[k] = IF k < p THEN s[k] ELSE s[k + 1]
  BY WithoutIs
<1> HIDE DEF p, u
<1>3. t = <<i>> \o u
  BY DEF MoveToFront, u
<1>4. t \in Seq(1..n) /\ Len(t) = n /\ t[1] = i /\ \A k \in 2..n : t[k] = u[k - 1]
  BY <1>2, <1>3
<1> HIDE DEF t
<1> DEFINE to(k) == IF k < p THEN k + 1 ELSE IF k = p THEN 1 ELSE k
<1>5. \A k \in 1..n : to(k) \in 1..n /\ t[to(k)] = s[k]
  <2> SUFFICES ASSUME NEW k \in 1..n PROVE to(k) \in 1..n /\ t[to(k)] = s[k]
    OBVIOUS
  <2>1. CASE k < p
    <3>1. k + 1 \in 2..n /\ k \in 1..(n - 1)
      BY <1>1, <2>1
    <3> QED BY <1>2, <1>4, <2>1, <3>1
  <2>2. CASE k = p
    BY <1>1, <1>4, <2>2
  <2>3. CASE k > p
    <3>1. k \in 2..n /\ k - 1 \in 1..(n - 1) /\ ~(k - 1 < p)
      BY <1>1, <2>3
    <3>2. t[k] = u[k - 1] /\ u[k - 1] = s[(k - 1) + 1]
      BY <1>2, <1>4, <3>1
    <3> QED BY <1>1, <2>3, <3>2
  <2> QED BY <1>1, <2>1, <2>2, <2>3
<1>6. \A k \in 1..n : \E l \in 1..n : to(l) = k
  <2> SUFFICES ASSUME NEW k \in 1..n PROVE \E l \in 1..n : to(l) = k
    OBVIOUS
  <2>1. CASE k = 1
    BY <1>1, <2>1
  <2>2. CASE k > 1 /\ k <= p
    <3>1. k - 1 \in 1..n /\ to(k - 1) = k
      BY <1>1, <2>2
    <3> QED BY <3>1
  <2>3. CASE k > 1 /\ k > p
    BY <1>1, <2>3
  <2> QED BY <1>1, <2>1, <2>2, <2>3
<1>7. IsOrder(t, n)
  <2>1. ASSUME NEW j \in 1..n PROVE \E k \in 1..n : t[k] = j
    <3>1. PICK l \in 1..n : s[l] = j
      BY DEF IsOrder
    <3>2. to(l) \in 1..n /\ t[to(l)] = j
      BY <1>5, <3>1
    <3> QED BY <3>2
  <2>2. ASSUME NEW k \in 1..n, NEW l \in 1..n, t[k] = t[l] PROVE k = l
    <3>1. PICK a \in 1..n, b \in 1..n : to(a) = k /\ to(b) = l
      BY <1>6
    <3>2. s[a] = s[b]
      BY <1>5, <2>2, <3>1
    <3>3. a = b
      BY <3>2 DEF IsOrder
    <3> QED BY <3>1, <3>3
  <2> QED BY <1>4, <2>1, <2>2 DEF IsOrder
<1>8. \A j \in 1..n : PlaceOf(t, j) = to(PlaceOf(s, j))
  <2> SUFFICES ASSUME NEW j \in 1..n PROVE PlaceOf(t, j) = to(PlaceOf(s, j))
    OBVIOUS
  <2>1. PlaceOf(s, j) \in 1..n /\ s[PlaceOf(s, j)] = j
    BY PlaceOfIs
  <2>2. to(PlaceOf(s, j)) \in 1..n /\ t[to(PlaceOf(s, j))] = j
    BY <1>5, <2>1
  <2> QED BY <1>7, <2>2, PlaceOfIs
<1>9. \A j \in 1..n : PlaceOf(s, j) \in 1..n /\ (PlaceOf(s, j) = p <=> j = i)
  BY <1>1, PlaceOfIs
<1>10. p = PlaceOf(s, i)
  BY DEF p
<1>11. \A j \in 1..n \ {i} : Before(t, i, j)
  BY <1>1, <1>8, <1>9, <1>10 DEF Before
<1>12. \A j, k \in 1..n \ {i} : Before(t, j, k) <=> Before(s, j, k)
  BY <1>1, <1>8, <1>9, <1>10 DEF Before
<1> QED BY <1>7, <1>11, <1>12 DEF t

(* ... and so does list::splice to the end. *)
LEMMA MovedToEnd ==
  ASSUME NEW n \in Nat, NEW s, IsOrder(s, n), NEW i \in 1..n
  PROVE  /\ IsOrder(MoveToEnd(s, i), n)
         /\ \A j, k \in 1..n \ {i} : Before(MoveToEnd(s, i), j, k) <=> Before(s, j, k)
<1> DEFINE t == MoveToEnd(s, i)
           p == PlaceOf(s, i)
           u == Without(s, i)
<1>0. s \in [1..n -> 1..n] /\ Len(s) = n
  BY OrdersAreFunctions
<1>1. p \in 1..n /\ s[p] = i /\ \A k \in 1..n : s[k] = i => k = p
  BY PlaceOfIs
<1>2. u \in Seq(1..n) /\ Len(u) = n - 1
      /\ \A k \in 1..(n - 1) : u[k] = IF k < p THEN s[k] ELSE s[k + 1]
  BY WithoutIs
<1> HIDE DEF p, u
<1>3. t = u \o <<i>>
  BY DEF MoveToEnd, u
<1>4. t \in Seq(1..n) /\ Len(t) = n /\ t[n] = i /\ \A k \in 1..(n - 1) : t[k] = u[k]
  BY <1>2, <1>3
<1> HIDE DEF t
<1> DEFINE to(k) == IF k < p THEN k ELSE IF k = p THEN n ELSE k - 1
<1>5. \A k \in 1..n : to(k) \in 1..n /\ t[to(k)] = s[k]
  <2> SUFFICES ASSUME NEW k \in 1..n PROVE to(k) \in 1..n /\ t[to(k)] = s[k]
    OBVIOUS
  <2>1. CASE k < p
    <3>1. k \in 1..(n - 1)
      BY <1>1, <2>1
    <3> QED BY <1>2, <1>4, <2>1, <3>1
  <2>2. CASE k = p
    BY <1>1, <1>4, <2>2
  <2>3. CASE k > p
    <3>1. k - 1 \in 1..(n - 1) /\ ~(k - 1 < p)
      BY <1>1, <2>3
    <3>2. t[k - 1] = u[k - 1] /\ u[k - 1] = s[(k - 1) + 1]
      BY <1>2, <1>4, <3>1
    <3> QED BY <1>1, <2>3, <3>1, <3>2
  <2> QED BY <1>1, <2>1, <2>2, <2>3
<1>6. \A k \in 1..n : \E l \in 1..n : to(l) = k
  <2> SUFFICES ASSUME NEW k \in 1..n PROVE \E l \in 1..n : to(l) = k
    OBVIOUS
  <2>1. CASE k = n
    BY <1>1, <2>1
  <2>2. CASE k < n /\ k < p
    BY <1>1, <2>2
  <2>3. CASE k < n /\ k >= p
    <3>1. k + 1 \in 1..n /\ to(k + 1) = k
      BY <1>1, <2>3
    <3> QED BY <3>1
  <2> QED BY <1>1, <2>1, <2>2, <2>3
<1>7. IsOrder(t, n)
  <2>1. ASSUME NEW j \in 1..n PROVE \E k \in 1..n : t[k] = j
    <3>1. PICK l \in 1..n : s[l] = j
      BY DEF IsOrder
    <3>2. to(l) \in 1..n /\ t[to(l)] = j
      BY <1>5, <3>1
    <3> QED BY <3>2
  <2>2. ASSUME NEW k \in 1..n, NEW l \in 1..n, t[k] = t[l] PROVE k = l
    <3>1. PICK a \in 1..n, b \in 1..n : to(a) = k /\ to(b) = l
      BY <1>6
    <3>2. s[a] = s[b]
      BY <1>5, <2>2, <3>1
    <3>3. a = b
      BY <3>2 DEF IsOrder
    <3> QED BY <3>1, <3>3
  <2> QED BY <1>4, <2>1, <2>2 DEF IsOrder
<1>8. \A j \in 1..n : PlaceOf(t, j) = to(PlaceOf(s, j))
  <2> SUFFICES ASSUME NEW j \in 1..n PROVE PlaceOf(t, j) = to(PlaceOf(s, j))
    OBVIOUS
  <2>1. PlaceOf(s, j) \in 1..n /\ s[PlaceOf(s, j)] = j
    BY PlaceOfIs
  <2>2. to(PlaceOf(s, j)) \in 1..n /\ t[to(PlaceOf(s, j))] = j
    BY <1>5, <2>1
  <2> QED BY <1>7, <2>2, PlaceOfIs
<1>9. \A j \in 1..n : PlaceOf(s, j) \in 1..n /\ (PlaceOf(s, j) = p <=> j = i)
  BY <1>1, PlaceOfIs
<1>10. \A j, k \in 1..n \ {i} : Before(t, j, k) <=> Before(s, j, k)
  BY <1>1, <1>8, <1>9 DEF Before
<1> QED BY <1>7, <1>10 DEF t

-----------------------------------------------------------------------------
(* The calls of the recursion, the last first. *)
LEMMA TopOfCalls ==
  ASSUME NEW T, NEW c \in Seq(T), c # <<>>
  PROVE  /\ Head(c) \in T /\ Tail(c) \in Seq(T)
         /\ ToSet(c) = {Head(c)} \cup ToSet(Tail(c))
<1>1. Len(c) \in Nat \ {0} /\ Head(c) = c[1] /\ DOMAIN c = 1..Len(c) /\ Head(c) \in T
  OBVIOUS
<1>2. Tail(c) \in Seq(T) /\ Len(Tail(c)) = Len(c) - 1 /\ DOMAIN Tail(c) = 1..(Len(c) - 1)
      /\ \A m \in 1..(Len(c) - 1) : Tail(c)[m] = c[m + 1]
  BY <1>1
<1>3. \A x : x \in ToSet(c) <=> \E m \in DOMAIN c : c[m] = x
  BY DEF ToSet
<1>4. \A x : x \in ToSet(Tail(c)) <=> \E m \in DOMAIN Tail(c) : Tail(c)[m] = x
  BY DEF ToSet
<1>5. ASSUME NEW x \in ToSet(c) PROVE x = Head(c) \/ x \in ToSet(Tail(c))
  <2>1. PICK m \in DOMAIN c : c[m] = x
    BY <1>3, <1>5
  <2>2. CASE m = 1
    BY <1>1, <2>1, <2>2
  <2>3. CASE m # 1
    <3>1. m - 1 \in 1..(Len(c) - 1) /\ (m - 1) + 1 = m
      BY <1>1, <2>3
    <3>2. Tail(c)[m - 1] = x
      BY <1>2, <2>1, <3>1
    <3> QED BY <1>2, <1>4, <3>1, <3>2
  <2> QED BY <2>2, <2>3
<1>6. ASSUME NEW x \in ToSet(Tail(c)) PROVE x \in ToSet(c)
  <2>1. PICK m \in DOMAIN Tail(c) : Tail(c)[m] = x
    BY <1>4, <1>6
  <2>2. m + 1 \in DOMAIN c /\ c[m + 1] = x
    BY <1>1, <1>2, <2>1
  <2> QED BY <1>3, <2>2
<1>7. Head(c) \in ToSet(c)
  BY <1>1, <1>3
<1> QED BY <1>1, <1>2, <1>5, <1>6, <1>7

LEMMA PushedOnCalls ==
  ASSUME NEW T, NEW c \in Seq(T), NEW x \in T
  PROVE  /\ <<x>> \o c \in Seq(T) /\ <<x>> \o c # <<>> /\ Head(<<x>> \o c) = x
         /\ ToSet(<<x>> \o c) = {x} \cup ToSet(c)
<1> DEFINE d == <<x>> \o c
<1>1. d \in Seq(T) /\ Len(d) = Len(c) + 1 /\ d[1] = x /\ Len(c) \in Nat
      /\ \A m \in 1..Len(c) : d[m + 1] = c[m]
  OBVIOUS
<1>2. d # <<>> /\ Head(d) = x /\ DOMAIN d = 1..(Len(c) + 1) /\ DOMAIN c = 1..Len(c)
  BY <1>1
<1> HIDE DEF d
<1>3. \A y : y \in ToSet(c) <=> \E m \in DOMAIN c : c[m] = y
  BY DEF ToSet
<1>4. \A y : y \in ToSet(d) <=> \E m \in DOMAIN d : d[m] = y
  BY DEF ToSet
<1>5. ASSUME NEW y \in ToSet(d) PROVE y = x \/ y \in ToSet(c)
  <2>1. PICK m \in DOMAIN d : d[m] = y
    BY <1>4, <1>5
  <2>2. CASE m = 1
    BY <1>1, <2>1, <2>2
  <2>3. CASE m # 1
    <3>1. m - 1 \in 1..Len(c) /\ (m - 1) + 1 = m
      BY <1>1, <1>2, <2>3
    <3>2. c[m - 1] = y
      BY <1>1, <2>1, <3>1
    <3> QED BY <1>2, <1>3, <3>1, <3>2
  <2> QED BY <2>2, <2>3
<1>6. ASSUME NEW y \in ToSet(c) PROVE y \in ToSet(d)
  <2>1. PICK m \in DOMAIN c : c[m] = y
    BY <1>3, <1>6
  <2>2. m + 1 \in DOMAIN d /\ d[m + 1] = y
    BY <1>1, <1>2, <2>1
  <2> QED BY <1>4, <2>2
<1>7. x \in ToSet(d)
  BY <1>1, <1>2, <1>4
<1> QED BY <1>1, <1>2, <1>5, <1>6, <1>7 DEF d

-----------------------------------------------------------------------------
(***************************************************************************)
(* The recursion of assign_streams.                                        *)
(***************************************************************************)
Parts(g)    == (0..g.n) \X (0..g.n)
CallType(g) == [ins : 1..g.n, part : Parts(g), rest : SUBSET (1..g.n)]

WalkType(g, wk) ==
  /\ wk \in [calls : Seq(CallType(g)), partOf : [1..g.n -> Parts(g)],
             weight : [Parts(g) -> Nat], order : Seq(1..g.n)]
  /\ IsOrder(wk.order, g.n)
  /\ wk.partOf[g.n] = Critical

CallsInv(g, wk) ==
  \A c \in ToSet(wk.calls) :
    Visited(wk, c.ins) /\ c.part = wk.partOf[c.ins] /\ c.rest \subseteq g.inputs[c.ins]

(* The inputs of what was visited were visited, or a call is to do so. *)
InputsWalked(g, wk) ==
  \A k \in 1..g.n : Visited(wk, k) => \A j \in g.inputs[k] :
    Visited(wk, j) \/ \E c \in ToSet(wk.calls) : c.ins = k /\ j \in c.rest

(* An instruction was visited from a user.  It starts a partition of its   *)
(* own unless it is light or no input of the user is heavier.              *)
StartedInv(g, w, wk) ==
  \A i \in 1..g.n : Visited(wk, i) =>
    \/ i = g.n
    \/ \E k \in 1..g.n :
         /\ Visited(wk, k) /\ i \in g.inputs[k]
         /\ \/ wk.partOf[i] = <<k, i>>
            \/ w[i] <= MinPartitionThreshold
            \/ \A j \in g.inputs[k] : ~(w[j] > w[i])

(* What was not visited keeps its place among what was not visited. *)
UnvisitedInOrder(g, wk) ==
  \A i, j \in 1..g.n :
    ~Visited(wk, i) /\ ~Visited(wk, j) /\ i < j => Before(wk.order, i, j)

(* A partition weighs something if one of its instructions does. *)
WeightInv(g, wk) ==
  \A p \in Parts(g) \ {NoPart} :
    wk.weight[p] > 0 <=> \E i \in 1..g.n : wk.partOf[i] = p /\ IWeight(g, i) > 0

WalkInv(g, w, wk) ==
  /\ WalkType(g, wk)
  /\ CallsInv(g, wk)
  /\ InputsWalked(g, wk)
  /\ StartedInv(g, w, wk)
  /\ UnvisitedInOrder(g, wk)
  /\ WeightInv(g, wk)

IsWeights(g, w) == \A i \in 1..g.n : w[i] \in Nat

LEMMA InputsAreEarlier ==
  ASSUME NEW g, IsGraph(g)
  PROVE  /\ g.n \in Nat \ {0}
         /\ \A i \in 1..g.n : g.inputs[i] \subseteq 1..g.n /\ g.implicit[i] \subseteq 1..g.n
         /\ \A i \in 1..g.n : \A j \in g.inputs[i] \cup g.implicit[i] : j \in 1..g.n /\ j < i
BY DEF IsGraph

LEMMA PartTypes ==
  ASSUME NEW g, IsGraph(g)
  PROVE  /\ Critical \in Parts(g) /\ NoPart \in Parts(g) /\ Critical # NoPart
         /\ \A i, j \in 1..g.n : <<i, j>> \in Parts(g) \ {Critical, NoPart}
BY DEF IsGraph, Parts, Critical, NoPart

LEMMA OwnWeightType ==
  ASSUME NEW g, IsGraph(g), NEW i \in 1..g.n
  PROVE  IWeight(g, i) \in Nat
BY DEF IsGraph, IWeight

LEMMA WeightsAreNumbers ==
  ASSUME NEW g, IsGraph(g)
  PROVE  IsWeights(g, Weights(g))
<1> DEFINE IsFirst(f, m) ==
             f = [i \in 0..m |-> IF i = 0 THEN <<>>
                                 ELSE Append(f[i - 1], Accumulated(g, f[i - 1], i))]
           n == g.n
           first == CHOOSE f : IsFirst(f, n)
           T == {m \in Nat : \A f : ~ IsFirst(f, m)}
<1>0. n \in Nat
  BY DEF IsGraph
<1>1. T = {}
  <2> SUFFICES ASSUME T # {} PROVE FALSE
    OBVIOUS
  <2>1. PICK m \in T : \A u \in T : m <= u
    <3>1. T \in SUBSET Nat
      OBVIOUS
    <3> HIDE DEF T
    <3> QED BY <3>1, SmallestExists
  <2>2. m # 0
    <3> SUFFICES ASSUME m = 0 PROVE FALSE
      OBVIOUS
    <3>1. IsFirst([i \in 0..0 |-> <<>>], 0)
      OBVIOUS
    <3> QED BY <2>1, <3>1
  <2>3. m - 1 \in Nat /\ m - 1 \notin T
    <3>1. m \in Nat /\ m - 1 \in Nat
      BY <2>1, <2>2
    <3> HIDE DEF T
    <3> QED BY <2>1, <3>1
  <2>4. PICK f : IsFirst(f, m - 1)
    BY <2>3
  <2> DEFINE h == [i \in 0..m |-> IF i = m THEN Append(f[m - 1], Accumulated(g, f[m - 1], m))
                                  ELSE f[i]]
  <2>5. ASSUME NEW i \in 0..m
        PROVE  h[i] = IF i = 0 THEN <<>> ELSE Append(h[i - 1], Accumulated(g, h[i - 1], i))
    <3>1. \A k \in 0..(m - 1) : k \in 0..m /\ k # m /\ h[k] = f[k]
      BY <2>1
    <3>2. CASE i = m
      <4>1. m - 1 \in 0..(m - 1)
        BY <2>3
      <4>2. h[i - 1] = f[m - 1] /\ h[i] = Append(f[m - 1], Accumulated(g, f[m - 1], m))
        BY <3>1, <3>2, <4>1
      <4> HIDE DEF h
      <4> QED BY <2>2, <3>2, <4>2
    <3>3. CASE i # m
      <4>1. i \in 0..(m - 1) /\ (i # 0 => i - 1 \in 0..(m - 1))
        BY <2>1, <3>3
      <4>2. f[i] = IF i = 0 THEN <<>> ELSE Append(f[i - 1], Accumulated(g, f[i - 1], i))
        BY <2>4, <4>1
      <4>3. h[i] = f[i] /\ (i # 0 => h[i - 1] = f[i - 1])
        BY <3>1, <4>1
      <4> HIDE DEF h
      <4> QED BY <4>2, <4>3
    <3> QED BY <3>2, <3>3
  <2>6. IsFirst(h, m)
    <3>1. h = [i \in 0..m |-> h[i]]
      OBVIOUS
    <3> HIDE DEF h
    <3> QED BY <2>5, <3>1
  <2> HIDE DEF h
  <2> QED BY <2>1, <2>6
<1>2. IsFirst(first, n)
  <2> HIDE DEF IsFirst
  <2>1. n \notin T
    BY <1>1
  <2>2. \E f : IsFirst(f, n)
    BY <1>0, <2>1
  <2> QED BY <2>2
<1>3. Weights(g) = first[n]
  BY DEF Weights, InOrder
<1> HIDE DEF first, T
<1>4. first[0] = <<>>
  BY <1>0, <1>2
<1>5. \A i \in 1..n : first[i] = Append(first[i - 1], Accumulated(g, first[i - 1], i))
  <2> SUFFICES ASSUME NEW i \in 1..n
               PROVE  first[i] = Append(first[i - 1], Accumulated(g, first[i - 1], i))
    OBVIOUS
  <2>1. i \in 0..n /\ i # 0
    BY <1>0
  <2> QED BY <1>2, <2>1
<1> DEFINE B == {m \in 0..n : ~ (first[m] \in Seq(Nat) /\ Len(first[m]) = m)}
<1>6. B = {}
  <2> SUFFICES ASSUME B # {} PROVE FALSE
    OBVIOUS
  <2>1. PICK m \in B : \A u \in B : m <= u
    <3>1. B \in SUBSET Nat
      BY <1>0
    <3> HIDE DEF B
    <3> QED BY <3>1, SmallestExists
  <2>2. first[0] \in Seq(Nat) /\ Len(first[0]) = 0
    BY <1>4
  <2>3. m \in 1..n
    BY <1>0, <2>1, <2>2
  <2>4. m - 1 \in 0..n /\ m - 1 \notin B
    BY <1>0, <2>1, <2>3
  <2> DEFINE a == first[m - 1]
  <2>5. a \in Seq(Nat) /\ Len(a) = m - 1
    BY <2>4
  <2>6. \A S : SumIn(a, S, m - 1) \in Nat
    <3> TAKE S
    <3>1. m - 1 \in Nat /\ m - 1 \in 0..(m - 1)
      BY <2>3
    <3> HIDE DEF a
    <3>2. \A i \in 1..(m - 1) : a[i] \in Nat
      BY <2>5
    <3>3. SumIn(a, S, m - 1) = Sums(a, S, m - 1)[m - 1]
      BY <3>1, SumInIs
    <3>4. \A i \in 0..(m - 1) : Sums(a, S, m - 1)[i] \in Nat
      BY <3>1, <3>2, SumIsNumber
    <3> QED BY <3>1, <3>3, <3>4
  <2>7. Accumulated(g, a, m) \in Nat
    <3>1. IWeight(g, m) \in Nat
      BY <2>3, OwnWeightType
    <3> HIDE DEF a
    <3> QED BY <2>6, <3>1 DEF Accumulated
  <2>8. first[m] = Append(a, Accumulated(g, a, m))
    BY <1>5, <2>3
  <2> HIDE DEF a
  <2>9. first[m] \in Seq(Nat) /\ Len(first[m]) = m
    BY <2>3, <2>5, <2>7, <2>8
  <2> QED BY <2>1, <2>9
<1>7. first[n] \in Seq(Nat) /\ Len(first[n]) = n
  BY <1>0, <1>6
<1> HIDE DEF n
<1>8. \A i \in 1..n : first[n][i] \in Nat
  BY <1>7
<1> QED BY <1>3, <1>8 DEF IsWeights, n

LEMMA WalkStarts ==
  ASSUME NEW g, IsGraph(g), NEW w
  PROVE  WalkInv(g, w, WalkFrom(g))
<1> DEFINE n == g.n
           wk == WalkFrom(g)
           c0 == CallOf(g, g.n, Critical)
<1>1. n \in Nat \ {0} /\ n \in 1..n
  BY DEF IsGraph
<1>2. c0 \in CallType(g) /\ c0.ins = n /\ c0.part = Critical /\ c0.rest = g.inputs[n]
  BY <1>1, InputsAreEarlier, PartTypes DEF CallOf, CallType
<1>3. /\ wk.calls = <<c0>>
      /\ wk.partOf = [i \in 1..n |-> IF i = n THEN Critical ELSE NoPart]
      /\ wk.weight = [p \in Parts(g) |-> IF p = Critical THEN IWeight(g, n) ELSE 0]
      /\ wk.order = [i \in 1..n |-> i]
      /\ wk = [calls |-> wk.calls, partOf |-> wk.partOf, weight |-> wk.weight, order |-> wk.order]
  BY DEF WalkFrom, Parts
<1> HIDE DEF n, wk, c0
<1>4. wk.calls \in Seq(CallType(g)) /\ ToSet(wk.calls) = {c0}
  <2>1. <<c0>> \in Seq(CallType(g)) /\ DOMAIN <<c0>> = {1} /\ <<c0>>[1] = c0
    BY <1>2
  <2>2. ToSet(<<c0>>) = {c0}
    BY <2>1 DEF ToSet
  <2> QED BY <1>3, <2>1, <2>2
<1>5. IsOrder(wk.order, n) /\ \A i \in 1..n : PlaceOf(wk.order, i) = i
  <2>1. wk.order \in Seq(1..n) /\ Len(wk.order) = n
    BY <1>1, <1>3
  <2>2. IsOrder(wk.order, n)
    BY <1>3, <2>1 DEF IsOrder
  <2>3. \A i \in 1..n : wk.order[i] = i
    BY <1>3
  <2> QED BY <1>1, <2>2, <2>3, PlaceOfIs
<1>6. \A i \in 1..n : Visited(wk, i) <=> i = n
  BY <1>3, PartTypes DEF Visited
<1>7. WalkType(g, wk)
  <2>1. wk.partOf \in [1..n -> Parts(g)] /\ wk.partOf[n] = Critical
    BY <1>1, <1>3, PartTypes
  <2>2. wk.weight \in [Parts(g) -> Nat]
    BY <1>1, <1>3, OwnWeightType DEF n
  <2>3. wk.order \in Seq(1..n)
    BY <1>5 DEF IsOrder
  <2> QED BY <1>3, <1>4, <1>5, <2>1, <2>2, <2>3 DEF WalkType, n
<1>8. CallsInv(g, wk)
  BY <1>1, <1>2, <1>3, <1>4, <1>6 DEF CallsInv, n
<1>9. InputsWalked(g, wk)
  BY <1>2, <1>4, <1>6 DEF InputsWalked, n
<1>10. StartedInv(g, w, wk)
  BY <1>6 DEF StartedInv, n
<1>11. UnvisitedInOrder(g, wk)
  BY <1>5 DEF UnvisitedInOrder, Before, n
<1>12. WeightInv(g, wk)
  <2> SUFFICES ASSUME NEW p \in Parts(g) \ {NoPart}
               PROVE  wk.weight[p] > 0 <=> \E i \in 1..n : wk.partOf[i] = p /\ IWeight(g, i) > 0
    BY DEF WeightInv, n
  <2>1. \A i \in 1..n : wk.partOf[i] = p <=> i = n /\ p = Critical
    BY <1>1, <1>3
  <2>2. IWeight(g, n) \in Nat
    BY <1>1, OwnWeightType DEF n
  <2> QED BY <1>1, <1>3, <2>1, <2>2
<1> QED BY <1>7, <1>8, <1>9, <1>10, <1>11, <1>12 DEF WalkInv, wk

(***************************************************************************)
(* The walk wk2 after the last call handled its input j: what is left of   *)
(* the call is left, kept are the calls below it, new is the call for j    *)
(* with the partition part.                                                *)
(***************************************************************************)
VisitFacts(g, wk, j, call, left, part, wk2, kept, new) ==
  /\ call \in CallType(g) /\ left \in CallType(g)
  /\ Visited(wk, call.ins) /\ call.part = wk.partOf[call.ins]
  /\ call.rest \subseteq g.inputs[call.ins]
  /\ left.ins = call.ins /\ left.part = call.part /\ left.rest = call.rest \ {j}
  /\ j \in 1..g.n /\ j \in g.inputs[call.ins] /\ j < call.ins
  /\ part \in Parts(g) \ {NoPart}
  /\ ToSet(wk.calls) = {call} \cup kept
  /\ wk2 \in [calls : Seq(CallType(g)), partOf : [1..g.n -> Parts(g)],
              weight : [Parts(g) -> Nat], order : Seq(1..g.n)]
  /\ wk2.order = wk.order
  /\ Visited(wk, j) => /\ ToSet(wk2.calls) = {left} \cup kept
                       /\ wk2.partOf = wk.partOf /\ wk2.weight = wk.weight
                       /\ wk2.calls # <<>> /\ Head(wk2.calls) = left
  /\ ~Visited(wk, j) =>
       /\ ToSet(wk2.calls) = {new, left} \cup kept
       /\ wk2.calls # <<>> /\ Head(wk2.calls) = new
       /\ wk2.partOf = [wk.partOf EXCEPT ![j] = part]
       /\ wk2.weight = [wk.weight EXCEPT ![part] = @ + IWeight(g, j)]

HandledBy(call, j) == [call EXCEPT !.rest = @ \ {j}]

LEMMA VisitIs ==
  ASSUME NEW g, IsGraph(g), NEW w, NEW wk, WalkInv(g, w, wk), wk.calls # <<>>,
         NEW j, IsNextArg(g, w, Head(wk.calls), j)
  PROVE  VisitFacts(g, wk, j, Head(wk.calls), HandledBy(Head(wk.calls), j),
                    PartitionFor(g, w, Head(wk.calls), j), VisitArg(g, w, wk, j),
                    ToSet(Tail(wk.calls)),
                    CallOf(g, j, PartitionFor(g, w, Head(wk.calls), j)))
<1> DEFINE call  == Head(wk.calls)
           call2 == HandledBy(call, j)
           part  == PartitionFor(g, w, call, j)
           wk2   == VisitArg(g, w, wk, j)
           kept  == ToSet(Tail(wk.calls))
           new   == CallOf(g, j, part)
           rest  == <<call2>> \o Tail(wk.calls)
<1>1. /\ wk \in [calls : Seq(CallType(g)), partOf : [1..g.n -> Parts(g)],
                 weight : [Parts(g) -> Nat], order : Seq(1..g.n)]
  BY DEF WalkInv, WalkType
<1>2. call \in CallType(g) /\ Tail(wk.calls) \in Seq(CallType(g))
      /\ ToSet(wk.calls) = {call} \cup kept
  BY <1>1, TopOfCalls
<1>3. Visited(wk, call.ins) /\ call.part = wk.partOf[call.ins]
      /\ call.rest \subseteq g.inputs[call.ins]
  BY <1>2 DEF WalkInv, CallsInv
<1>4. j \in call.rest
  BY DEF IsNextArg
<1> HIDE DEF call
<1>5. call2 \in CallType(g) /\ call2.ins = call.ins /\ call2.part = call.part
      /\ call2.rest = call.rest \ {j}
  BY <1>2 DEF CallType, HandledBy
<1>6. j \in 1..g.n /\ j \in g.inputs[call.ins] /\ j < call.ins
  BY <1>2, <1>3, <1>4, InputsAreEarlier DEF CallType
<1>7. part \in Parts(g) \ {NoPart}
  <2>1. call.part \in Parts(g) /\ call.part # NoPart
    BY <1>2, <1>3 DEF CallType, Visited
  <2>2. <<call.ins, j>> \in Parts(g) \ {NoPart}
    BY <1>2, <1>6, PartTypes DEF CallType
  <2> QED BY <2>1, <2>2 DEF PartitionFor
<1>8. new \in CallType(g)
  BY <1>6, <1>7, InputsAreEarlier DEF CallOf, CallType
<1> HIDE DEF call2, part, kept, new
<1>9. rest \in Seq(CallType(g)) /\ rest # <<>> /\ Head(rest) = call2
      /\ ToSet(rest) = {call2} \cup kept
  BY <1>2, <1>5, PushedOnCalls DEF kept
<1> HIDE DEF rest
<1>10. <<new>> \o rest \in Seq(CallType(g)) /\ <<new>> \o rest # <<>> /\ Head(<<new>> \o rest) = new
      /\ ToSet(<<new>> \o rest) = {new} \cup ({call2} \cup kept)
  BY <1>8, <1>9, PushedOnCalls
<1>11. wk2 = IF Visited(wk, j) THEN [wk EXCEPT !.calls = rest]
             ELSE [wk EXCEPT !.calls = <<new>> \o rest,
                             !.partOf[j] = part,
                             !.weight[part] = @ + IWeight(g, j)]
  BY DEF VisitArg, HandledBy, new, part, call2, call, rest
<1> HIDE DEF wk2
<1>12. CASE Visited(wk, j)
  <2>1. wk2 = [wk EXCEPT !.calls = rest]
    BY <1>11, <1>12
  <2>2. wk2 \in [calls : Seq(CallType(g)), partOf : [1..g.n -> Parts(g)],
                 weight : [Parts(g) -> Nat], order : Seq(1..g.n)]
        /\ wk2.calls = rest /\ wk2.partOf = wk.partOf /\ wk2.weight = wk.weight
        /\ wk2.order = wk.order
    BY <1>1, <1>9, <2>1
  <2> QED BY <1>2, <1>3, <1>5, <1>6, <1>7, <1>9, <1>12, <2>2
          DEF VisitFacts, wk2, part, call2, call, kept, new
<1>13. CASE ~Visited(wk, j)
  <2> DEFINE calls2 == <<new>> \o rest
  <2>1. calls2 \in Seq(CallType(g))
    BY <1>10
  <2> HIDE DEF calls2
  <2>2. wk2 = [wk EXCEPT !.calls = calls2,
                         !.partOf[j] = part,
                         !.weight[part] = @ + IWeight(g, j)]
    BY <1>11, <1>13 DEF calls2
  <2>3. IWeight(g, j) \in Nat
    BY <1>6, OwnWeightType
  <2>4. wk2.calls = calls2 /\ wk2.partOf = [wk.partOf EXCEPT ![j] = part]
        /\ wk2.weight = [wk.weight EXCEPT ![part] = @ + IWeight(g, j)]
        /\ wk2.order = wk.order
        /\ wk2 = [calls |-> wk2.calls, partOf |-> wk2.partOf, weight |-> wk2.weight,
                  order |-> wk2.order]
    BY <1>1, <2>2
  <2>5. wk2.partOf \in [1..g.n -> Parts(g)] /\ wk2.weight \in [Parts(g) -> Nat]
    BY <1>1, <1>6, <1>7, <2>3, <2>4
  <2>6. wk2 \in [calls : Seq(CallType(g)), partOf : [1..g.n -> Parts(g)],
                 weight : [Parts(g) -> Nat], order : Seq(1..g.n)]
    BY <1>1, <2>1, <2>4, <2>5
  <2>7. ToSet(calls2) = {new, call2} \cup kept /\ calls2 # <<>> /\ Head(calls2) = new
    BY <1>10 DEF calls2
  <2> QED BY <1>2, <1>3, <1>5, <1>6, <1>7, <1>13, <2>4, <2>6, <2>7
          DEF VisitFacts, wk2, part, call2, call, kept, new
<1> QED BY <1>12, <1>13

LEMMA VisitKeeps ==
  ASSUME NEW g, IsGraph(g), NEW w, IsWeights(g, w), NEW wk, WalkInv(g, w, wk),
         wk.calls # <<>>, NEW j, IsNextArg(g, w, Head(wk.calls), j)
  PROVE  /\ WalkInv(g, w, VisitArg(g, w, wk, j))
         /\ \A i \in 1..g.n : Visited(VisitArg(g, w, wk, j), i) <=> Visited(wk, i) \/ i = j
<1> DEFINE call  == Head(wk.calls)
           call2 == HandledBy(call, j)
           part  == PartitionFor(g, w, call, j)
           wk2   == VisitArg(g, w, wk, j)
           kept  == ToSet(Tail(wk.calls))
           new   == CallOf(g, j, part)
<1>1. VisitFacts(g, wk, j, call, call2, part, wk2, kept, new)
  BY VisitIs
<1>4. new.ins = j /\ new.part = part /\ new.rest = g.inputs[j]
  BY DEF CallOf
<1>5. part = IF call.rest = g.inputs[call.ins] \/ w[j] <= MinPartitionThreshold
               THEN call.part ELSE <<call.ins, j>>
  BY DEF PartitionFor
<1>6. j \in call.rest /\ \A k \in call.rest \ {j} : Heavier(g, w, j, k)
  BY DEF IsNextArg
<1> HIDE DEF call, call2, part, wk2, kept, new
<1>2. /\ call \in CallType(g) /\ call2 \in CallType(g)
      /\ Visited(wk, call.ins) /\ call.part = wk.partOf[call.ins]
      /\ call.rest \subseteq g.inputs[call.ins]
      /\ call2.ins = call.ins /\ call2.part = call.part /\ call2.rest = call.rest \ {j}
      /\ j \in 1..g.n /\ j \in g.inputs[call.ins] /\ j < call.ins
      /\ part \in Parts(g) \ {NoPart}
      /\ ToSet(wk.calls) = {call} \cup kept
      /\ wk2 \in [calls : Seq(CallType(g)), partOf : [1..g.n -> Parts(g)],
                  weight : [Parts(g) -> Nat], order : Seq(1..g.n)]
      /\ wk2.order = wk.order
  BY <1>1 DEF VisitFacts
<1>3. /\ Visited(wk, j) => /\ ToSet(wk2.calls) = {call2} \cup kept
                           /\ wk2.partOf = wk.partOf /\ wk2.weight = wk.weight
      /\ ~Visited(wk, j) =>
           /\ ToSet(wk2.calls) = {new, call2} \cup kept
           /\ wk2.partOf = [wk.partOf EXCEPT ![j] = part]
           /\ wk2.weight = [wk.weight EXCEPT ![part] = @ + IWeight(g, j)]
  BY <1>1 DEF VisitFacts
<1>7. g.n \in Nat \ {0} /\ g.n \in 1..g.n /\ call.ins \in 1..g.n
  BY <1>2, InputsAreEarlier DEF CallType
<1>8. wk.partOf \in [1..g.n -> Parts(g)] /\ wk.weight \in [Parts(g) -> Nat]
      /\ IsOrder(wk.order, g.n) /\ wk.partOf[g.n] = Critical
  BY DEF WalkInv, WalkType
<1>9. \A i \in 1..g.n : wk2.partOf[i] = IF i = j /\ ~Visited(wk, j) THEN part ELSE wk.partOf[i]
  BY <1>2, <1>3, <1>8
<1>10. \A i \in 1..g.n : Visited(wk2, i) <=> Visited(wk, i) \/ i = j
  BY <1>2, <1>9 DEF Visited
<1>11. WalkType(g, wk2)
  BY <1>2, <1>7, <1>8, <1>9 DEF WalkType
<1>12. CallsInv(g, wk2)
  <2> SUFFICES ASSUME NEW c \in ToSet(wk2.calls)
               PROVE  Visited(wk2, c.ins) /\ c.part = wk2.partOf[c.ins]
                      /\ c.rest \subseteq g.inputs[c.ins]
    BY DEF CallsInv
  <2>1. CASE c = new /\ ~Visited(wk, j)
    BY <1>2, <1>4, <1>9, <1>10, <2>1
  <2>2. CASE c = call2
    <3>1. c.ins # j /\ c.ins \in 1..g.n
      BY <1>2, <1>7, <2>2
    <3> QED BY <1>2, <1>7, <1>9, <1>10, <2>2, <3>1
  <2>3. CASE c \in kept
    <3>1. Visited(wk, c.ins) /\ c.part = wk.partOf[c.ins] /\ c.rest \subseteq g.inputs[c.ins]
      BY <1>2, <2>3 DEF WalkInv, CallsInv
    <3>2. c.ins \in 1..g.n
      <4>1. Tail(wk.calls) \in Seq(CallType(g))
        BY TopOfCalls DEF WalkInv, WalkType
      <4>2. c \in CallType(g)
        BY <2>3, <4>1 DEF kept, ToSet
      <4> QED BY <4>2 DEF CallType
    <3> QED BY <1>9, <1>10, <3>1, <3>2
  <2> QED BY <1>2, <1>3, <2>1, <2>2, <2>3
<1>13. InputsWalked(g, wk2)
  <2> SUFFICES ASSUME NEW k \in 1..g.n, Visited(wk2, k), NEW i \in g.inputs[k]
               PROVE  Visited(wk2, i) \/ \E c \in ToSet(wk2.calls) : c.ins = k /\ i \in c.rest
    BY DEF InputsWalked
  <2>0. i \in 1..g.n
    BY InputsAreEarlier
  <2>1. CASE Visited(wk, k)
    <3>1. CASE Visited(wk, i)
      BY <1>10, <2>0, <3>1
    <3>2. CASE ~Visited(wk, i)
      <4>1. PICK c \in ToSet(wk.calls) : c.ins = k /\ i \in c.rest
        BY <2>1, <3>2 DEF WalkInv, InputsWalked
      <4>2. CASE c = call
        <5>1. CASE i = j
          BY <1>2, <1>10, <5>1
        <5>2. CASE i # j
          <6>1. call2.ins = k /\ i \in call2.rest /\ call2 \in ToSet(wk2.calls)
            BY <1>2, <1>3, <4>1, <4>2, <5>2
          <6> QED BY <6>1
        <5> QED BY <5>1, <5>2
      <4>3. CASE c \in kept
        BY <1>2, <1>3, <4>1, <4>3
      <4> QED BY <1>2, <4>1, <4>2, <4>3
    <3> QED BY <3>1, <3>2
  <2>2. CASE ~Visited(wk, k)
    <3>1. k = j /\ ~Visited(wk, j)
      BY <1>10, <2>2
    <3>2. new \in ToSet(wk2.calls) /\ new.ins = k /\ i \in new.rest
      BY <1>3, <1>4, <3>1
    <3> QED BY <3>2
  <2> QED BY <2>1, <2>2
<1>14. StartedInv(g, w, wk2)
  <2> SUFFICES ASSUME NEW i \in 1..g.n, Visited(wk2, i), i # g.n
               PROVE  \E k \in 1..g.n :
                        /\ Visited(wk2, k) /\ i \in g.inputs[k]
                        /\ \/ wk2.partOf[i] = <<k, i>>
                           \/ w[i] <= MinPartitionThreshold
                           \/ \A l \in g.inputs[k] : ~(w[l] > w[i])
    BY DEF StartedInv
  <2>1. CASE Visited(wk, i)
    <3>1. PICK k \in 1..g.n :
            /\ Visited(wk, k) /\ i \in g.inputs[k]
            /\ \/ wk.partOf[i] = <<k, i>>
               \/ w[i] <= MinPartitionThreshold
               \/ \A l \in g.inputs[k] : ~(w[l] > w[i])
      BY <2>1 DEF WalkInv, StartedInv
    <3>2. wk2.partOf[i] = wk.partOf[i] /\ Visited(wk2, k)
      BY <1>9, <1>10, <2>1, <3>1
    <3> QED BY <3>1, <3>2
  <2>2. CASE ~Visited(wk, i)
    <3>1. i = j /\ wk2.partOf[i] = part
      BY <1>9, <1>10, <2>2
    <3>2. Visited(wk2, call.ins) /\ i \in g.inputs[call.ins]
      BY <1>2, <1>7, <1>10, <3>1
    <3>3. \/ part = <<call.ins, j>>
          \/ w[j] <= MinPartitionThreshold
          \/ call.rest = g.inputs[call.ins]
      BY <1>5
    <3>4. ASSUME call.rest = g.inputs[call.ins], NEW l \in g.inputs[call.ins]
          PROVE  ~(w[l] > w[j])
      <4>1. w[l] \in Nat /\ w[j] \in Nat
        BY <1>2, <1>7, InputsAreEarlier DEF IsWeights
      <4>2. l = j \/ Heavier(g, w, j, l)
        BY <1>6, <3>4
      <4> QED BY <4>1, <4>2 DEF Heavier
    <3> QED BY <1>7, <3>1, <3>2, <3>3, <3>4
  <2> QED BY <2>1, <2>2
<1>15. UnvisitedInOrder(g, wk2)
  <2> SUFFICES ASSUME NEW i \in 1..g.n, NEW k \in 1..g.n,
                      ~Visited(wk2, i), ~Visited(wk2, k), i < k
               PROVE  Before(wk2.order, i, k)
    BY DEF UnvisitedInOrder
  <2>1. ~Visited(wk, i) /\ ~Visited(wk, k)
    BY <1>10
  <2> QED BY <1>2, <2>1 DEF WalkInv, UnvisitedInOrder
<1>16. WeightInv(g, wk2)
  <2> SUFFICES ASSUME NEW p \in Parts(g) \ {NoPart}
               PROVE  wk2.weight[p] > 0 <=>
                        \E i \in 1..g.n : wk2.partOf[i] = p /\ IWeight(g, i) > 0
    BY DEF WeightInv
  <2>1. wk.weight[p] > 0 <=> \E i \in 1..g.n : wk.partOf[i] = p /\ IWeight(g, i) > 0
    BY DEF WalkInv, WeightInv
  <2>2. CASE Visited(wk, j)
    BY <1>3, <2>1, <2>2
  <2>3. CASE ~Visited(wk, j) /\ p # part
    <3>1. wk2.weight[p] = wk.weight[p]
      BY <1>3, <1>8, <2>3
    <3>2. \A i \in 1..g.n : wk2.partOf[i] = p <=> wk.partOf[i] = p
      BY <1>9, <2>3 DEF Visited
    <3> QED BY <2>1, <3>1, <3>2
  <2>4. CASE ~Visited(wk, j) /\ p = part
    <3>1. wk2.weight[p] = wk.weight[p] + IWeight(g, j)
      BY <1>2, <1>3, <1>8, <2>4
    <3>2. wk.weight[p] \in Nat /\ IWeight(g, j) \in Nat
      BY <1>2, <1>8, OwnWeightType
    <3>3. wk2.partOf[j] = p /\ \A i \in 1..g.n \ {j} : wk2.partOf[i] = wk.partOf[i]
      BY <1>2, <1>9, <2>4
    <3>4. wk.partOf[j] # p
      BY <2>4 DEF Visited
    <3>5. (\E i \in 1..g.n : wk2.partOf[i] = p /\ IWeight(g, i) > 0)
             <=> IWeight(g, j) > 0 \/ \E i \in 1..g.n : wk.partOf[i] = p /\ IWeight(g, i) > 0
      BY <1>2, <3>3, <3>4
    <3> QED BY <2>1, <3>1, <3>2, <3>5
  <2> QED BY <2>2, <2>3, <2>4
<1> QED BY <1>10, <1>11, <1>12, <1>13, <1>14, <1>15, <1>16 DEF WalkInv, wk2

LEMMA ReturnKeeps ==
  ASSUME NEW g, IsGraph(g), NEW w, NEW wk, WalkInv(g, w, wk), wk.calls # <<>>,
         Head(wk.calls).rest = {}
  PROVE  /\ WalkInv(g, w, ReturnFrom(wk))
         /\ ReturnFrom(wk).partOf = wk.partOf
         /\ ReturnFrom(wk).calls = Tail(wk.calls)
<1> DEFINE call == Head(wk.calls)
           wk2  == ReturnFrom(wk)
<1>1. /\ wk \in [calls : Seq(CallType(g)), partOf : [1..g.n -> Parts(g)],
                 weight : [Parts(g) -> Nat], order : Seq(1..g.n)]
      /\ IsOrder(wk.order, g.n) /\ wk.partOf[g.n] = Critical
  BY DEF WalkInv, WalkType
<1>2. call \in CallType(g) /\ Tail(wk.calls) \in Seq(CallType(g))
      /\ ToSet(wk.calls) = {call} \cup ToSet(Tail(wk.calls))
  BY <1>1, TopOfCalls
<1>3. Visited(wk, call.ins) /\ call.ins \in 1..g.n
  BY <1>2 DEF WalkInv, CallsInv, CallType
<1>4. g.n \in Nat
  BY DEF IsGraph
<1>5. /\ IsOrder(MoveToEnd(wk.order, call.ins), g.n)
      /\ \A j, k \in 1..g.n \ {call.ins} :
           Before(MoveToEnd(wk.order, call.ins), j, k) <=> Before(wk.order, j, k)
  BY <1>1, <1>3, <1>4, MovedToEnd
<1>6. MoveToEnd(wk.order, call.ins) \in Seq(1..g.n)
  BY <1>5 DEF IsOrder
<1>7. /\ wk2.calls = Tail(wk.calls) /\ wk2.partOf = wk.partOf /\ wk2.weight = wk.weight
      /\ wk2.order = MoveToEnd(wk.order, call.ins)
      /\ wk2 \in [calls : Seq(CallType(g)), partOf : [1..g.n -> Parts(g)],
                  weight : [Parts(g) -> Nat], order : Seq(1..g.n)]
  <2>1. wk2 = [wk EXCEPT !.calls = Tail(wk.calls), !.order = MoveToEnd(wk.order, call.ins)]
    BY <1>1 DEF ReturnFrom
  <2> QED BY <1>1, <1>2, <1>6, <2>1
<1>8. call.rest = {}
  OBVIOUS
<1> HIDE DEF call, wk2
<1>9. \A i : Visited(wk2, i) <=> Visited(wk, i)
  BY <1>7 DEF Visited
<1>10. WalkType(g, wk2)
  BY <1>1, <1>5, <1>7 DEF WalkType
<1>11. CallsInv(g, wk2)
  BY <1>2, <1>7, <1>9 DEF WalkInv, CallsInv
<1>12. InputsWalked(g, wk2)
  BY <1>2, <1>7, <1>8, <1>9 DEF WalkInv, InputsWalked
<1>13. StartedInv(g, w, wk2)
  BY <1>7, <1>9 DEF WalkInv, StartedInv
<1>14. UnvisitedInOrder(g, wk2)
  BY <1>3, <1>5, <1>7, <1>9 DEF WalkInv, UnvisitedInOrder
<1>15. WeightInv(g, wk2)
  BY <1>7 DEF WalkInv, WeightInv
<1> QED BY <1>7, <1>10, <1>11, <1>12, <1>13, <1>14, <1>15 DEF WalkInv, wk2

-----------------------------------------------------------------------------
(***************************************************************************)
(* The chain of heaviest inputs.  Until it ends all that was visited is on *)
(* it, and the last call has not handled any input; then it is all in the  *)
(* critical partition.                                                     *)
(***************************************************************************)
Heaviest(g, w, k, j) ==
  j \in g.inputs[k] /\ \A m \in g.inputs[k] \ {j} : w[m] < w[j]

GoesOn(g, w, T, k) == \A j \in 1..g.n : Heaviest(g, w, k, j) => j \in T

ChainUpTo(g, w, wk, T) ==
  /\ g.n \in T
  /\ \A k \in T : wk.partOf[k] = Critical
  /\ \/ \A k \in T : GoesOn(g, w, T, k)
     \/ /\ wk.calls # <<>> /\ Head(wk.calls).rest = g.inputs[Head(wk.calls).ins]
        /\ \A i \in 1..g.n : Visited(wk, i) => i \in T
        /\ \A k \in T \ {Head(wk.calls).ins} : GoesOn(g, w, T, k)

ChainInv(g, w, wk) == \E T \in SUBSET (1..g.n) : ChainUpTo(g, w, wk, T)

LEMMA ChainStarts ==
  ASSUME NEW g, IsGraph(g), NEW w
  PROVE  ChainInv(g, w, WalkFrom(g))
<1>1. g.n \in 1..g.n
  BY DEF IsGraph
<1>2. WalkFrom(g).calls = <<CallOf(g, g.n, Critical)>>
      /\ WalkFrom(g).partOf = [i \in 1..g.n |-> IF i = g.n THEN Critical ELSE NoPart]
  BY DEF WalkFrom
<1>3. Head(WalkFrom(g).calls).ins = g.n /\ Head(WalkFrom(g).calls).rest = g.inputs[g.n]
      /\ WalkFrom(g).calls # <<>>
  BY <1>2 DEF CallOf
<1>4. \A i \in 1..g.n : Visited(WalkFrom(g), i) => i = g.n
  BY <1>2 DEF Visited
<1>5. ChainUpTo(g, w, WalkFrom(g), {g.n})
  BY <1>1, <1>2, <1>3, <1>4 DEF ChainUpTo
<1> QED BY <1>1, <1>5 DEF ChainInv

LEMMA VisitKeepsChain ==
  ASSUME NEW g, IsGraph(g), NEW w, IsWeights(g, w), NEW wk, WalkInv(g, w, wk),
         wk.calls # <<>>, NEW j, IsNextArg(g, w, Head(wk.calls), j), ChainInv(g, w, wk)
  PROVE  ChainInv(g, w, VisitArg(g, w, wk, j))
<1> DEFINE call  == Head(wk.calls)
           call2 == HandledBy(call, j)
           part  == PartitionFor(g, w, call, j)
           wk2   == VisitArg(g, w, wk, j)
           kept  == ToSet(Tail(wk.calls))
           new   == CallOf(g, j, part)
<1>1. VisitFacts(g, wk, j, call, call2, part, wk2, kept, new)
  BY VisitIs
<1>2. \A i \in 1..g.n : Visited(wk2, i) <=> Visited(wk, i) \/ i = j
  BY VisitKeeps
<1>3. new.ins = j /\ new.rest = g.inputs[j]
  BY DEF CallOf
<1>4. call.rest = g.inputs[call.ins] => part = call.part
  BY DEF PartitionFor
<1>5. \A k \in call.rest \ {j} : Heavier(g, w, j, k)
  BY DEF IsNextArg
<1>6. PICK T \in SUBSET (1..g.n) : ChainUpTo(g, w, wk, T)
  BY DEF ChainInv
<1>7. /\ g.n \in T /\ \A k \in T : wk.partOf[k] = Critical
      /\ \/ \A k \in T : GoesOn(g, w, T, k)
         \/ /\ call.rest = g.inputs[call.ins]
            /\ \A i \in 1..g.n : Visited(wk, i) => i \in T
            /\ \A k \in T \ {call.ins} : GoesOn(g, w, T, k)
  BY <1>6 DEF ChainUpTo
<1> HIDE DEF call, call2, part, wk2, kept, new
<1>8. /\ call.ins \in 1..g.n /\ Visited(wk, call.ins) /\ call.part = wk.partOf[call.ins]
      /\ j \in 1..g.n /\ j \in g.inputs[call.ins]
      /\ Visited(wk, j) => wk2.partOf = wk.partOf
      /\ ~Visited(wk, j) => /\ wk2.calls # <<>> /\ Head(wk2.calls) = new
                            /\ wk2.partOf = [wk.partOf EXCEPT ![j] = part]
  BY <1>1 DEF VisitFacts, CallType
<1>9. wk.partOf \in [1..g.n -> Parts(g)]
  BY DEF WalkInv, WalkType
<1>10. \A k \in T : wk2.partOf[k] = Critical
  <2> SUFFICES ASSUME NEW k \in T PROVE wk2.partOf[k] = Critical
    OBVIOUS
  <2>1. Visited(wk, k)
    BY <1>7, PartTypes DEF Visited
  <2> QED BY <1>7, <1>8, <1>9, <2>1
<1>11. CASE \A k \in T : GoesOn(g, w, T, k)
  <2>1. ChainUpTo(g, w, wk2, T)
    BY <1>7, <1>10, <1>11 DEF ChainUpTo
  <2> QED BY <2>1 DEF ChainInv, wk2
<1>12. CASE /\ call.rest = g.inputs[call.ins]
            /\ \A i \in 1..g.n : Visited(wk, i) => i \in T
            /\ \A k \in T \ {call.ins} : GoesOn(g, w, T, k)
  <2>1. \A i \in 1..g.n : Heaviest(g, w, call.ins, i) => i = j
    <3> SUFFICES ASSUME NEW i \in 1..g.n, Heaviest(g, w, call.ins, i), i # j PROVE FALSE
      OBVIOUS
    <3>1. w[j] < w[i] /\ i \in g.inputs[call.ins]
      BY <1>8 DEF Heaviest
    <3>2. Heavier(g, w, j, i)
      BY <1>5, <1>12, <3>1
    <3>3. w[i] \in Nat /\ w[j] \in Nat
      BY <1>8 DEF IsWeights
    <3> QED BY <3>1, <3>2, <3>3 DEF Heavier
  <2>2. CASE Visited(wk, j)
    <3>1. \A k \in T : GoesOn(g, w, T, k)
      BY <1>8, <1>12, <2>1, <2>2 DEF GoesOn
    <3>2. ChainUpTo(g, w, wk2, T)
      BY <1>7, <1>10, <3>1 DEF ChainUpTo
    <3> QED BY <3>2 DEF ChainInv, wk2
  <2>3. CASE ~Visited(wk, j)
    <3> DEFINE U == T \cup {j}
    <3>1. U \in SUBSET (1..g.n) /\ g.n \in U
      BY <1>7, <1>8
    <3>2. part = Critical
      BY <1>4, <1>7, <1>8, <1>12
    <3>3. \A k \in U : wk2.partOf[k] = Critical
      BY <1>8, <1>9, <1>10, <2>3, <3>2
    <3>4. wk2.calls # <<>> /\ Head(wk2.calls).rest = g.inputs[Head(wk2.calls).ins]
          /\ Head(wk2.calls).ins = j
      BY <1>3, <1>8, <2>3
    <3>5. \A i \in 1..g.n : Visited(wk2, i) => i \in U
      BY <1>2, <1>12 DEF wk2
    <3>6. \A k \in U \ {j} : GoesOn(g, w, U, k)
      BY <1>12, <2>1 DEF GoesOn
    <3>7. ChainUpTo(g, w, wk2, U)
      BY <3>1, <3>3, <3>4, <3>5, <3>6 DEF ChainUpTo
    <3> QED BY <3>1, <3>7 DEF ChainInv, wk2
  <2> QED BY <2>2, <2>3
<1> QED BY <1>7, <1>11, <1>12

LEMMA ReturnKeepsChain ==
  ASSUME NEW g, IsGraph(g), NEW w, NEW wk, WalkInv(g, w, wk), wk.calls # <<>>,
         Head(wk.calls).rest = {}, ChainInv(g, w, wk)
  PROVE  ChainInv(g, w, ReturnFrom(wk))
<1>1. ReturnFrom(wk).partOf = wk.partOf
  BY ReturnKeeps
<1>2. PICK T \in SUBSET (1..g.n) : ChainUpTo(g, w, wk, T)
  BY DEF ChainInv
<1>3. \A k \in T : GoesOn(g, w, T, k)
  BY <1>2 DEF ChainUpTo, GoesOn, Heaviest
<1>4. ChainUpTo(g, w, ReturnFrom(wk), T)
  BY <1>1, <1>2, <1>3 DEF ChainUpTo
<1> QED BY <1>4 DEF ChainInv

-----------------------------------------------------------------------------
(***************************************************************************)
(* The partitions other than Critical are still left to place or are on    *)
(* one of the streams 1..NStreams-1, whose loads differ by no more than    *)
(* one partition; a load is what was placed on the stream.                 *)
(***************************************************************************)
PlacedType(g, pl) ==
  /\ pl \in [load : [1..(NStreams - 1) -> Nat], stream : [Parts(g) -> 0..(NStreams - 1)],
             left : SUBSET Parts(g)]
  /\ pl.stream[Critical] = 0

PlacedSides(g, wk, pl) ==
  /\ pl.left \subseteq SidePartitions(g, wk)
  /\ \A p \in SidePartitions(g, wk) \ pl.left : NStreams > 1 => pl.stream[p] # 0

LoadInv(g, wk, pl) ==
  \A s \in 1..(NStreams - 1) :
    pl.load[s] > 0 <=> \E p \in SidePartitions(g, wk) \ pl.left :
                         pl.stream[p] = s /\ wk.weight[p] > 0

LoadsClose(g, wk, pl) ==
  \A a, b \in 1..(NStreams - 1) : pl.load[a] > pl.load[b] =>
    \E p \in SidePartitions(g, wk) : pl.load[a] - pl.load[b] <= wk.weight[p]

PlacedInv(g, wk, pl) ==
  /\ PlacedType(g, pl)
  /\ PlacedSides(g, wk, pl)
  /\ LoadInv(g, wk, pl)
  /\ LoadsClose(g, wk, pl)

LEMMA SideParts ==
  ASSUME NEW g, IsGraph(g), NEW w, NEW wk, WalkInv(g, w, wk)
  PROVE  /\ SidePartitions(g, wk) \subseteq Parts(g) \ {Critical, NoPart}
         /\ \A i \in 1..g.n : wk.partOf[i] \in SidePartitions(g, wk) \cup {Critical, NoPart}
BY DEF SidePartitions, WalkInv, WalkType

LEMMA PlacingStarts ==
  ASSUME NEW g, IsGraph(g), NEW w, NEW wk, WalkInv(g, w, wk)
  PROVE  PlacedInv(g, wk, PlacementFrom(g, wk, NStreams))
<1> DEFINE pl == PlacementFrom(g, wk, NStreams)
<1>1. NStreams \in Nat \ {0}
  BY StreamsAssumption
<1>2. /\ pl.load = [s \in 1..(NStreams - 1) |-> 0]
      /\ pl.stream = [p \in Parts(g) |-> 0]
      /\ pl.left = IF NStreams = 1 THEN {} ELSE SidePartitions(g, wk)
      /\ pl = [load |-> pl.load, stream |-> pl.stream, left |-> pl.left]
  BY DEF PlacementFrom, Parts
<1> HIDE DEF pl
<1>3. Critical \in Parts(g) /\ 0 \in 0..(NStreams - 1)
  BY <1>1, PartTypes
<1>4. PlacedType(g, pl)
  <2>1. pl.load \in [1..(NStreams - 1) -> Nat] /\ pl.stream \in [Parts(g) -> 0..(NStreams - 1)]
        /\ pl.left \in SUBSET Parts(g) /\ pl.stream[Critical] = 0
    BY <1>2, <1>3, SideParts
  <2> QED BY <1>2, <2>1 DEF PlacedType
<1>5. PlacedSides(g, wk, pl)
  BY <1>1, <1>2 DEF PlacedSides
<1>6. LoadInv(g, wk, pl)
  BY <1>1, <1>2, <1>3, SideParts DEF LoadInv
<1>7. LoadsClose(g, wk, pl)
  BY <1>2 DEF LoadsClose
<1> QED BY <1>4, <1>5, <1>6, <1>7 DEF PlacedInv, pl

LEMMA PlaceKeeps ==
  ASSUME NEW g, IsGraph(g), NEW w, NEW wk, WalkInv(g, w, wk), NEW pl, PlacedInv(g, wk, pl),
         NEW p \in pl.left, NEW s, LeastLoaded(pl.load, s)
  PROVE  PlacedInv(g, wk, PlaceOn(wk, pl, p, s))
<1> DEFINE pl2 == PlaceOn(wk, pl, p, s)
<1>1. /\ pl \in [load : [1..(NStreams - 1) -> Nat], stream : [Parts(g) -> 0..(NStreams - 1)],
                 left : SUBSET Parts(g)]
      /\ pl.stream[Critical] = 0
  BY DEF PlacedInv, PlacedType
<1>2. s \in 1..(NStreams - 1) /\ \A t \in 1..(NStreams - 1) : pl.load[s] <= pl.load[t]
  BY <1>1, StreamsAssumption DEF LeastLoaded
<1>3. NStreams \in Nat /\ NStreams > 1 /\ s \in 0..(NStreams - 1) /\ s # 0
  BY <1>2, StreamsAssumption
<1>4. p \in SidePartitions(g, wk) /\ p \in Parts(g) \ {Critical, NoPart}
  BY SideParts DEF PlacedInv, PlacedSides
<1>5. wk.weight[p] \in Nat
  BY <1>4 DEF WalkInv, WalkType
<1>6. /\ pl2.load = [pl.load EXCEPT ![s] = @ + wk.weight[p]]
      /\ pl2.stream = [pl.stream EXCEPT ![p] = s]
      /\ pl2.left = pl.left \ {p}
      /\ pl2 = [load |-> pl2.load, stream |-> pl2.stream, left |-> pl2.left]
  <2>1. pl2 = [pl EXCEPT !.load[s] = @ + wk.weight[p], !.stream[p] = s, !.left = @ \ {p}]
    BY DEF PlaceOn
  <2>2. pl = [load |-> pl.load, stream |-> pl.stream, left |-> pl.left]
    BY <1>1
  <2>3. pl2 = [load |-> [pl.load EXCEPT ![s] = @ + wk.weight[p]],
               stream |-> [pl.stream EXCEPT ![p] = s], left |-> pl.left \ {p}]
    BY <2>1, <2>2
  <2> QED BY <2>3
<1> HIDE DEF pl2
<1>7. pl2.load \in [1..(NStreams - 1) -> Nat] /\ pl2.stream \in [Parts(g) -> 0..(NStreams - 1)]
      /\ pl2.left \in SUBSET Parts(g)
  BY <1>1, <1>2, <1>3, <1>4, <1>5, <1>6
<1>8. PlacedType(g, pl2)
  <2>1. pl2.stream[Critical] = 0
    BY <1>1, <1>4, <1>6, PartTypes
  <2> QED BY <1>6, <1>7, <2>1 DEF PlacedType
<1>9. \A q \in Parts(g) : pl2.stream[q] = IF q = p THEN s ELSE pl.stream[q]
  BY <1>1, <1>6
<1>10. \A t \in 1..(NStreams - 1) :
         pl2.load[t] = IF t = s THEN pl.load[t] + wk.weight[p] ELSE pl.load[t]
  BY <1>1, <1>6
<1>11. SidePartitions(g, wk) \ pl2.left = (SidePartitions(g, wk) \ pl.left) \cup {p}
  BY <1>4, <1>6
<1>12. PlacedSides(g, wk, pl2)
  BY <1>3, <1>6, <1>9, <1>11, SideParts DEF PlacedInv, PlacedSides
<1>13. LoadInv(g, wk, pl2)
  <2> SUFFICES ASSUME NEW t \in 1..(NStreams - 1)
               PROVE  pl2.load[t] > 0 <=> \E q \in SidePartitions(g, wk) \ pl2.left :
                                            pl2.stream[q] = t /\ wk.weight[q] > 0
    BY DEF LoadInv
  <2>1. pl.load[t] > 0 <=> \E q \in SidePartitions(g, wk) \ pl.left :
                             pl.stream[q] = t /\ wk.weight[q] > 0
    BY DEF PlacedInv, LoadInv
  <2>2. pl.load[t] \in Nat
    BY <1>1
  <2>3. (\E q \in SidePartitions(g, wk) \ pl2.left : pl2.stream[q] = t /\ wk.weight[q] > 0)
          <=> \/ s = t /\ wk.weight[p] > 0
              \/ \E q \in SidePartitions(g, wk) \ pl.left :
                   pl.stream[q] = t /\ wk.weight[q] > 0
    <3>1. p \notin SidePartitions(g, wk) \ pl.left
      OBVIOUS
    <3>2. \A q \in SidePartitions(g, wk) \ pl.left : pl2.stream[q] = pl.stream[q]
      BY <1>9, <3>1, SideParts
    <3>3. pl2.stream[p] = s
      BY <1>4, <1>9
    <3> QED BY <1>11, <3>2, <3>3
  <2> QED BY <1>5, <1>10, <2>1, <2>2, <2>3
<1>14. LoadsClose(g, wk, pl2)
  <2> SUFFICES ASSUME NEW a \in 1..(NStreams - 1), NEW b \in 1..(NStreams - 1),
                      pl2.load[a] > pl2.load[b]
               PROVE  \E q \in SidePartitions(g, wk) : pl2.load[a] - pl2.load[b] <= wk.weight[q]
    BY DEF LoadsClose
  <2>1. pl.load[a] \in Nat /\ pl.load[b] \in Nat /\ pl.load[s] <= pl.load[b]
    BY <1>1, <1>2
  <2>2. CASE a = s
    <3>1. pl2.load[a] - pl2.load[b] <= wk.weight[p]
      BY <1>5, <1>10, <2>1, <2>2
    <3> QED BY <1>4, <3>1
  <2>3. CASE a # s
    <3>1. pl.load[a] > pl.load[b]
      BY <1>5, <1>10, <2>1, <2>3
    <3>2. PICK q \in SidePartitions(g, wk) : pl.load[a] - pl.load[b] <= wk.weight[q]
      BY <3>1 DEF PlacedInv, LoadsClose
    <3>3. wk.weight[q] \in Nat
      BY SideParts DEF WalkInv, WalkType
    <3>4. pl2.load[a] - pl2.load[b] <= wk.weight[q]
      BY <1>5, <1>10, <2>1, <2>3, <3>2, <3>3
    <3> QED BY <3>4
  <2> QED BY <2>2, <2>3
<1> QED BY <1>8, <1>12, <1>13, <1>14 DEF PlacedInv, pl2

-----------------------------------------------------------------------------
(***************************************************************************)
(* sort.  An instruction that was added is among the children, or all it   *)
(* needs is among the children or before it, and it is before all that was *)
(* not added yet.  What was not added is in the order assign_streams left. *)
(***************************************************************************)
Needs(g, i) == g.inputs[i] \cup g.implicit[i]

Waits(st, i) == \E c \in st.children : c[2] = i

SortType(g, st) ==
  /\ st = [children |-> st.children, order |-> st.order, visited |-> st.visited]
  /\ IsOrder(st.order, g.n)
  /\ st.visited \in [1..g.n -> Nat]
  /\ \A c \in st.children : c[2] \in 1..g.n /\ st.visited[c[2]] > 0

NeedsAhead(g, st) ==
  \A i \in 1..g.n : st.visited[i] > 0 =>
    \/ Waits(st, i)
    \/ \A j \in Needs(g, i) : Waits(st, j) \/ (st.visited[j] > 0 /\ Before(st.order, j, i))

AddedFirst(g, st) ==
  \A i, j \in 1..g.n : st.visited[i] > 0 /\ st.visited[j] = 0 =>
    Waits(st, i) \/ Before(st.order, i, j)

OthersStay(g, wk, st) ==
  \A i, j \in 1..g.n : st.visited[i] = 0 /\ st.visited[j] = 0 =>
    (Before(st.order, i, j) <=> Before(wk.order, i, j))

SortInv(g, wk, st) ==
  /\ SortType(g, st)
  /\ st.visited[g.n] > 0
  /\ NeedsAhead(g, st)
  /\ AddedFirst(g, st)
  /\ OthersStay(g, wk, st)

(* The instructions S are among the children, the others are as before. *)
Added(g, st, S, st2) ==
  /\ SortType(g, st2) /\ st2.order = st.order
  /\ st.children \subseteq st2.children
  /\ \A i \in S : Waits(st2, i) /\ st2.visited[i] > 0
  /\ \A i \in (1..g.n) \ S : st2.visited[i] = st.visited[i]
  /\ \A i \in 1..g.n : st2.visited[i] >= st.visited[i]

LEMMA AddingChildren ==
  ASSUME NEW g, IsGraph(g), NEW w, NEW st, SortType(g, st), NEW S \in SUBSET (1..g.n)
  PROVE  Added(g, st, S, AddChildren(g, w, st, S))
<1> DEFINE st2 == AddChildren(g, w, st, S)
           new == {i \in S : <<ChildKey(g, w, i, st.visited[i]), i>> \notin st.children}
           keys == {<<ChildKey(g, w, i, st.visited[i] + 1), i>> : i \in new}
<1>1. /\ st2.children = st.children \cup keys
      /\ st2.order = st.order
      /\ st2.visited = [i \in 1..g.n |-> IF i \in new THEN st.visited[i] + 1 ELSE st.visited[i]]
      /\ st2 = [children |-> st2.children, order |-> st2.order, visited |-> st2.visited]
  <2>1. st2 = [st EXCEPT !.visited = [i \in 1..g.n |-> IF i \in new THEN st.visited[i] + 1
                                                        ELSE st.visited[i]],
                         !.children = st.children \cup keys]
    BY DEF AddChildren
  <2>2. st = [children |-> st.children, order |-> st.order, visited |-> st.visited]
    BY DEF SortType
  <2> HIDE DEF st2, new, keys
  <2> QED BY <2>1, <2>2
<1>2. \A i \in new : i \in S /\ i \in 1..g.n
  OBVIOUS
<1>3. \A i \in S \ new : <<ChildKey(g, w, i, st.visited[i]), i>> \in st.children
  OBVIOUS
<1>4. \A c \in keys : c[2] \in new
  <2> HIDE DEF new
  <2> QED OBVIOUS
<1>5. \A i \in new : \E c \in keys : c[2] = i
  <2> SUFFICES ASSUME NEW i \in new PROVE \E c \in keys : c[2] = i
    OBVIOUS
  <2>1. <<ChildKey(g, w, i, st.visited[i] + 1), i>> \in keys
    OBVIOUS
  <2> QED BY <2>1
<1>6. \A i \in S \ new : \E c \in st.children : c[2] = i
  BY <1>3
<1> HIDE DEF st2, new, keys
<1>7. st.visited \in [1..g.n -> Nat]
      /\ \A c \in st.children : c[2] \in 1..g.n /\ st.visited[c[2]] > 0
  BY DEF SortType
<1>8. \A i \in 1..g.n : st2.visited[i] \in Nat /\ st2.visited[i] >= st.visited[i]
                        /\ (i \in new => st2.visited[i] > 0)
                        /\ (i \notin new => st2.visited[i] = st.visited[i])
  <2> SUFFICES ASSUME NEW i \in 1..g.n
               PROVE  st2.visited[i] \in Nat /\ st2.visited[i] >= st.visited[i]
                      /\ (i \in new => st2.visited[i] > 0)
                      /\ (i \notin new => st2.visited[i] = st.visited[i])
    OBVIOUS
  <2>1. st2.visited[i] = IF i \in new THEN st.visited[i] + 1 ELSE st.visited[i]
    BY <1>1
  <2>2. st.visited[i] \in Nat
    BY <1>7
  <2> QED BY <2>1, <2>2
<1>9. \A i \in S : Waits(st2, i) /\ st2.visited[i] > 0
  <2> SUFFICES ASSUME NEW i \in S PROVE Waits(st2, i) /\ st2.visited[i] > 0
    OBVIOUS
  <2>1. CASE i \in new
    BY <1>1, <1>5, <1>8, <2>1 DEF Waits
  <2>2. CASE i \notin new
    BY <1>1, <1>6, <1>7, <1>8, <2>2 DEF Waits
  <2> QED BY <2>1, <2>2
<1>10. SortType(g, st2)
  <2>1. \A c \in st2.children : c[2] \in 1..g.n /\ st2.visited[c[2]] > 0
    <3> SUFFICES ASSUME NEW c \in st2.children
                 PROVE  c[2] \in 1..g.n /\ st2.visited[c[2]] > 0
      OBVIOUS
    <3>1. CASE c \in keys
      BY <1>2, <1>4, <1>8, <3>1
    <3>2. CASE c \in st.children
      <4>1. c[2] \in 1..g.n /\ st.visited[c[2]] > 0 /\ st.visited[c[2]] \in Nat
        BY <1>7, <3>2
      <4>2. st2.visited[c[2]] >= st.visited[c[2]] /\ st2.visited[c[2]] \in Nat
        BY <1>8, <4>1
      <4> QED BY <4>1, <4>2
    <3> QED BY <1>1, <3>1, <3>2
  <2>2. st2.visited \in [1..g.n -> Nat]
    BY <1>1, <1>8
  <2>3. IsOrder(st2.order, g.n)
    BY <1>1 DEF SortType
  <2> QED BY <1>1, <2>1, <2>2, <2>3 DEF SortType
<1> QED BY <1>1, <1>2, <1>8, <1>9, <1>10 DEF Added, st2

LEMMA SortStarts ==
  ASSUME NEW g, IsGraph(g), NEW w, NEW wk, WalkType(g, wk)
  PROVE  SortInv(g, wk, SortFrom(g, w, wk.order))
<1> DEFINE st  == [children |-> {}, order |-> wk.order, visited |-> [i \in 1..g.n |-> 0]]
           st2 == SortFrom(g, w, wk.order)
<1>1. SortType(g, st)
  BY DEF SortType, WalkType
<1>2. {g.n} \in SUBSET (1..g.n) /\ g.n \in 1..g.n
  BY DEF IsGraph
<1>3. st2 = AddChildren(g, w, st, {g.n})
  BY DEF SortFrom
<1>4. st.order = wk.order /\ \A i \in 1..g.n : st.visited[i] = 0
  OBVIOUS
<1> HIDE DEF st, st2
<1>5. /\ SortType(g, st2) /\ st2.order = wk.order
      /\ Waits(st2, g.n) /\ st2.visited[g.n] > 0
      /\ \A i \in (1..g.n) \ {g.n} : st2.visited[i] = 0
  <2>1. Added(g, st, {g.n}, st2)
    BY <1>1, <1>2, <1>3, AddingChildren
  <2> QED BY <1>2, <1>4, <2>1 DEF Added
<1>6. NeedsAhead(g, st2)
  BY <1>5 DEF NeedsAhead
<1>7. AddedFirst(g, st2)
  BY <1>5 DEF AddedFirst
<1>8. OthersStay(g, wk, st2)
  BY <1>5 DEF OthersStay
<1> QED BY <1>5, <1>6, <1>7, <1>8 DEF SortInv, st2

LEMMA PopKeeps ==
  ASSUME NEW g, IsGraph(g), NEW w, NEW wk, NEW st, SortInv(g, wk, st),
         NEW c \in st.children
  PROVE  SortInv(g, wk, PopChild(g, w, st, c))
<1> DEFINE n   == g.n
           top == c[2]
           st1 == [st EXCEPT !.children = @ \ {c}, !.order = MoveToFront(@, c[2])]
           st2 == PopChild(g, w, st, c)
<1>1. /\ st = [children |-> st.children, order |-> st.order, visited |-> st.visited]
      /\ IsOrder(st.order, n) /\ st.visited \in [1..n -> Nat]
      /\ \A d \in st.children : d[2] \in 1..n /\ st.visited[d[2]] > 0
  BY DEF SortInv, SortType
<1>2. top \in 1..n /\ st.visited[top] > 0 /\ n \in Nat
  BY <1>1 DEF IsGraph
<1>3. st1.children = st.children \ {c} /\ st1.order = MoveToFront(st.order, top)
      /\ st1.visited = st.visited
      /\ st1 = [children |-> st1.children, order |-> st1.order, visited |-> st1.visited]
  <2>0. st = [children |-> st.children, order |-> st.order, visited |-> st.visited]
    BY <1>1
  <2>1. st1 = [children |-> st.children \ {c}, order |-> MoveToFront(st.order, top),
               visited |-> st.visited]
    <3> HIDE DEF top
    <3> DEFINE front == MoveToFront(st.order, top)
    <3>1. st1 = [st EXCEPT !.children = st.children \ {c}, !.order = front]
      BY DEF top
    <3> HIDE DEF st1, front
    <3>2. st1 = [children |-> st.children \ {c}, order |-> front, visited |-> st.visited]
      BY <2>0, <3>1
    <3> QED BY <3>2 DEF front
  <2> HIDE DEF st1
  <2> QED BY <2>1
<1>4. Needs(g, top) \in SUBSET (1..n) /\ \A i \in 1..n : \A j \in Needs(g, i) : j \in 1..n /\ j < i
  BY <1>2, InputsAreEarlier DEF Needs
<1>5. st2 = AddChildren(g, w, st1, Needs(g, top))
  BY DEF PopChild, Needs
<1> HIDE DEF n, top, st1, st2
<1>6. /\ IsOrder(st1.order, n)
      /\ \A j \in 1..n \ {top} : Before(st1.order, top, j)
      /\ \A j, k \in 1..n \ {top} : Before(st1.order, j, k) <=> Before(st.order, j, k)
  BY <1>1, <1>2, <1>3, MovedToFront
<1>7. SortType(g, st1)
  BY <1>1, <1>3, <1>6 DEF SortType, n
<1>8. /\ SortType(g, st2) /\ st2.order = st1.order
      /\ st1.children \subseteq st2.children
      /\ \A i \in Needs(g, top) : Waits(st2, i) /\ st2.visited[i] > 0
      /\ \A i \in (1..n) \ Needs(g, top) : st2.visited[i] = st.visited[i]
      /\ \A i \in 1..n : st2.visited[i] >= st.visited[i]
  <2>1. Added(g, st1, Needs(g, top), st2)
    BY <1>4, <1>5, <1>7, AddingChildren DEF n
  <2> QED BY <1>3, <2>1 DEF Added, n
<1>9. \A i \in 1..n \ {top} : Waits(st, i) => Waits(st2, i)
  BY <1>3, <1>8 DEF Waits, top
<1>10. \A i \in 1..n : st2.visited[i] \in Nat /\ st.visited[i] \in Nat
  BY <1>1, <1>8 DEF SortType, n
<1>11. \A i \in 1..n : st2.visited[i] > 0 => st.visited[i] > 0 \/ Waits(st2, i)
  BY <1>8, <1>10
<1>12. \A i \in 1..n : st2.visited[i] = 0 => st.visited[i] = 0 /\ i # top
  BY <1>2, <1>8, <1>10
<1>13. NeedsAhead(g, st2)
  <2> SUFFICES ASSUME NEW i \in 1..n, st2.visited[i] > 0, ~Waits(st2, i),
                      NEW j \in Needs(g, i), ~Waits(st2, j)
               PROVE  st2.visited[j] > 0 /\ Before(st2.order, j, i)
    BY DEF NeedsAhead, n
  <2>1. st.visited[i] > 0 /\ i # top /\ j \in 1..n /\ j # i
    BY <1>4, <1>8, <1>11
  <2>2. ~Waits(st, i)
    BY <1>9, <2>1
  <2>3. Waits(st, j) \/ (st.visited[j] > 0 /\ Before(st.order, j, i))
    BY <2>1, <2>2 DEF SortInv, NeedsAhead, n
  <2>4. CASE j = top
    BY <1>2, <1>6, <1>8, <1>10, <2>1, <2>4
  <2>5. CASE j # top
    <3>1. st.visited[j] > 0 /\ Before(st.order, j, i)
      BY <1>9, <2>1, <2>3, <2>5
    <3> QED BY <1>6, <1>8, <1>10, <2>1, <2>5, <3>1
  <2> QED BY <2>4, <2>5
<1>14. AddedFirst(g, st2)
  <2> SUFFICES ASSUME NEW i \in 1..n, NEW j \in 1..n, st2.visited[i] > 0, st2.visited[j] = 0,
                      ~Waits(st2, i)
               PROVE  Before(st2.order, i, j)
    BY DEF AddedFirst, n
  <2>1. st.visited[i] > 0 /\ st.visited[j] = 0 /\ j # top
    BY <1>11, <1>12
  <2>2. CASE i = top
    BY <1>6, <1>8, <2>1, <2>2
  <2>3. CASE i # top
    <3>1. Before(st.order, i, j)
      BY <1>9, <2>1, <2>3 DEF SortInv, AddedFirst, n
    <3> QED BY <1>6, <1>8, <2>1, <2>3, <3>1
  <2> QED BY <2>2, <2>3
<1>15. OthersStay(g, wk, st2)
  <2> SUFFICES ASSUME NEW i \in 1..n, NEW j \in 1..n, st2.visited[i] = 0, st2.visited[j] = 0
               PROVE  Before(st2.order, i, j) <=> Before(wk.order, i, j)
    BY DEF OthersStay, n
  <2>1. st.visited[i] = 0 /\ st.visited[j] = 0 /\ i # top /\ j # top
    BY <1>12
  <2>2. Before(st.order, i, j) <=> Before(wk.order, i, j)
    BY <2>1 DEF SortInv, OthersStay, n
  <2> QED BY <1>6, <1>8, <2>1, <2>2
<1>16. st2.visited[n] > 0
  <2>1. n \in 1..n /\ st.visited[n] > 0
    BY DEF SortInv, n, IsGraph
  <2> QED BY <1>8, <1>10, <2>1
<1> QED BY <1>8, <1>13, <1>14, <1>15, <1>16 DEF SortInv, st2, n

-----------------------------------------------------------------------------
(***************************************************************************)
(* The invariant of the whole of the first half.                           *)
(***************************************************************************)
AssignInv ==
  /\ graph \in Graphs
  /\ step \in {"weigh", "walk", "place", "sort", "done"}
  /\ IsWeights(graph, weights)
  /\ WalkInv(graph, weights, walk)
  /\ ChainInv(graph, weights, walk)
  /\ step = "weigh" => walk = WalkFrom(graph)
  /\ step \in {"place", "sort", "done"} =>
       walk.calls = <<>> /\ PlacedInv(graph, walk, placed)
  /\ AssignDone => placed.left = {} /\ SortInv(graph, walk, sorting)
  /\ step = "done" => sorting.children = {}

LEMMA InitAssignInv == Init => AssignInv
<1> SUFFICES ASSUME Init PROVE AssignInv
  OBVIOUS
<1>1. graph \in Graphs /\ IsGraph(graph)
  BY GraphsAssumption DEF Init
<1>2. IsWeights(graph, weights)
  BY DEF Init, IsWeights
<1>3. WalkInv(graph, weights, walk) /\ ChainInv(graph, weights, walk)
  BY <1>1, WalkStarts, ChainStarts DEF Init
<1> QED BY <1>1, <1>2, <1>3 DEF AssignInv, Init, AssignDone

LEMMA NextAssignInv == AssignInv /\ [Next]_vars => AssignInv'
<1> SUFFICES ASSUME AssignInv, [Next]_vars PROVE AssignInv'
  OBVIOUS
<1>0. IsGraph(graph) /\ graph \in Graphs /\ NStreams \in Nat \ {0}
  BY GraphsAssumption, StreamsAssumption DEF AssignInv
<1>1. CASE Weigh
  <2>1. graph' = graph /\ walk' = walk /\ walk = WalkFrom(graph) /\ step' = "walk"
        /\ weights' = Weights(graph)
    BY <1>1 DEF Weigh, AssignInv
  <2>2. IsWeights(graph, weights')
    BY <1>0, <2>1, WeightsAreNumbers
  <2>3. WalkInv(graph, weights', walk) /\ ChainInv(graph, weights', walk)
    BY <1>0, <2>1, WalkStarts, ChainStarts
  <2> QED BY <1>0, <2>1, <2>2, <2>3 DEF AssignInv, AssignDone
<1>2. ASSUME NEW j \in 1..graph.n, Visit(j) PROVE AssignInv'
  <2>1. /\ step = "walk" /\ walk.calls # <<>>
        /\ IsNextArg(graph, weights, Head(walk.calls), j)
        /\ walk' = VisitArg(graph, weights, walk, j)
        /\ UNCHANGED <<graph, step, weights, placed, sorting>>
    BY <1>2 DEF Visit
  <2>2. WalkInv(graph, weights, walk') /\ ChainInv(graph, weights, walk')
    BY <1>0, <2>1, VisitKeeps, VisitKeepsChain DEF AssignInv
  <2> QED BY <1>0, <2>1, <2>2 DEF AssignInv, AssignDone
<1>3. CASE Return
  <2>1. /\ step = "walk" /\ walk.calls # <<>> /\ Head(walk.calls).rest = {}
        /\ walk' = ReturnFrom(walk)
        /\ UNCHANGED <<graph, step, weights, placed, sorting>>
    BY <1>3 DEF Return
  <2>2. WalkInv(graph, weights, walk') /\ ChainInv(graph, weights, walk')
    BY <1>0, <2>1, ReturnKeeps, ReturnKeepsChain DEF AssignInv
  <2> QED BY <1>0, <2>1, <2>2 DEF AssignInv, AssignDone
<1>4. CASE StartPlacing
  <2>1. /\ step = "walk" /\ walk.calls = <<>> /\ step' = "place"
        /\ placed' = PlacementFrom(graph, walk, NStreams)
        /\ UNCHANGED <<graph, weights, walk, sorting>>
    BY <1>4 DEF StartPlacing
  <2>2. PlacedInv(graph, walk, placed')
    BY <1>0, <2>1, PlacingStarts DEF AssignInv
  <2> QED BY <1>0, <2>1, <2>2 DEF AssignInv, AssignDone
<1>5. ASSUME NEW p \in placed.left, NEW s \in 1..(NStreams - 1), Place(p, s) PROVE AssignInv'
  <2>1. /\ step = "place" /\ LeastLoaded(placed.load, s)
        /\ placed' = PlaceOn(walk, placed, p, s)
        /\ UNCHANGED <<graph, step, weights, walk, sorting>>
    BY <1>5 DEF Place
  <2>2. PlacedInv(graph, walk, placed')
    BY <1>0, <2>1, PlaceKeeps DEF AssignInv
  <2> QED BY <1>0, <2>1, <2>2 DEF AssignInv, AssignDone
<1>6. CASE StartSorting
  <2>1. /\ step = "place" /\ placed.left = {} /\ step' = "sort"
        /\ sorting' = SortFrom(graph, weights, walk.order)
        /\ UNCHANGED <<graph, weights, walk, placed>>
    BY <1>6 DEF StartSorting
  <2>2. SortInv(graph, walk, sorting')
    BY <1>0, <2>1, SortStarts DEF AssignInv, WalkInv
  <2> QED BY <1>0, <2>1, <2>2 DEF AssignInv, AssignDone
<1>7. ASSUME NEW c \in sorting.children, Pop(c) PROVE AssignInv'
  <2>1. /\ step = "sort" /\ sorting' = PopChild(graph, weights, sorting, c)
        /\ UNCHANGED <<graph, step, weights, walk, placed>>
    BY <1>7 DEF Pop
  <2>2. SortInv(graph, walk, sorting')
    BY <1>0, <2>1, PopKeeps DEF AssignInv, AssignDone
  <2> QED BY <1>0, <2>1, <2>2 DEF AssignInv, AssignDone
<1>8. CASE EndSorting
  <2>1. /\ step = "sort" /\ sorting.children = {} /\ step' = "done"
        /\ UNCHANGED <<graph, weights, walk, placed, sorting>>
    BY <1>8 DEF EndSorting
  <2> QED BY <1>0, <2>1 DEF AssignInv, AssignDone
<1>9. CASE UNCHANGED vars
  BY <1>9 DEF vars, AssignInv, AssignDone
<1> QED BY <1>1, <1>2, <1>3, <1>4, <1>5, <1>6, <1>7, <1>8, <1>9 DEF Next

LEMMA AssignInvHolds == Spec => []AssignInv
BY InitAssignInv, NextAssignInv, PTL DEF Spec

-----------------------------------------------------------------------------
LEMMA LargestExists ==
  ASSUME NEW n \in Nat, NEW S \in SUBSET (1..n), S # {}
  PROVE  \E i \in S : \A k \in S : k <= i
<1> DEFINE D == {d \in Nat : n - d \in S}
           R == OpToRel(<, Nat)
<1>1. \A k \in S : k \in 1..n /\ n - k \in D
  OBVIOUS
<1>2. D \in SUBSET Nat /\ D # {}
  BY <1>1
<1>3. PICK d \in D : \A e \in D : ~(<<e, d>> \in R)
  <2>1. IsWellFoundedOn(R, Nat)
    BY NatLessThanWellFounded
  <2> HIDE DEF D, R
  <2> QED BY <1>2, <2>1, WFMin
<1>4. \A a, b \in Nat : a < b => <<a, b>> \in R
  BY DEF OpToRel
<1>5. d \in Nat /\ n - d \in S
  OBVIOUS
<1> HIDE DEF D, R
<1>6. ASSUME NEW k \in S PROVE k <= n - d
  <2>1. n - k \in D /\ n - k \in Nat /\ ~(n - k < d)
    BY <1>1, <1>2, <1>3, <1>4
  <2> QED BY <1>1, <1>5, <2>1
<1> QED BY <1>5, <1>6

(* After the recursion what was visited is what @return finds. *)
LEMMA WalkedIsClosed ==
  ASSUME NEW g, IsGraph(g), NEW w, NEW wk, WalkInv(g, w, wk), wk.calls = <<>>
  PROVE  \A k \in 1..g.n : Visited(wk, k) => \A j \in g.inputs[k] : Visited(wk, j)
<1>1. ToSet(wk.calls) = {}
  BY DEF ToSet
<1> QED BY <1>1 DEF WalkInv, InputsWalked

(* A set that holds the last instruction and the inputs of its own holds   *)
(* all the recursion visited.                                              *)
LEMMA WalkStaysInside ==
  ASSUME NEW g, IsGraph(g), NEW w, NEW wk, WalkInv(g, w, wk), NEW S,
         g.n \in S, \A k \in 1..g.n : k \in S => g.inputs[k] \subseteq S
  PROVE  \A i \in 1..g.n : Visited(wk, i) => i \in S
<1> DEFINE M == {i \in 1..g.n : Visited(wk, i) /\ i \notin S}
<1> SUFFICES ASSUME M # {} PROVE FALSE
  OBVIOUS
<1>1. g.n \in Nat /\ M \in SUBSET (1..g.n)
  BY DEF IsGraph
<1>2. PICK i \in M : \A k \in M : k <= i
  BY <1>1, LargestExists
<1>3. PICK k \in 1..g.n : Visited(wk, k) /\ i \in g.inputs[k]
  BY <1>2 DEF WalkInv, StartedInv
<1>4. i < k
  BY <1>3, InputsAreEarlier
<1>5. k \in M
  BY <1>2, <1>3
<1> QED BY <1>1, <1>2, <1>4, <1>5

LEMMA SortedProperly ==
  ASSUME NEW g, IsGraph(g), NEW w, NEW wk, WalkInv(g, w, wk),
         NEW st, SortInv(g, wk, st), st.children = {}
  PROVE  \A i \in 1..g.n : \A j \in Needs(g, i) : Before(st.order, j, i)
<1> DEFINE S == {i \in 1..g.n : st.visited[i] > 0}
<1>1. \A i : ~Waits(st, i)
  BY DEF Waits
<1>2. \A i \in 1..g.n : st.visited[i] \in Nat
  BY DEF SortInv, SortType
<1>3. \A i \in S : \A j \in Needs(g, i) : j \in S /\ Before(st.order, j, i)
  <2> SUFFICES ASSUME NEW i \in S, NEW j \in Needs(g, i)
               PROVE  j \in S /\ Before(st.order, j, i)
    OBVIOUS
  <2>1. j \in 1..g.n
    BY InputsAreEarlier DEF Needs
  <2>2. st.visited[j] > 0 /\ Before(st.order, j, i)
    BY <1>1 DEF SortInv, NeedsAhead
  <2> QED BY <2>1, <2>2
<1>4. \A i \in 1..g.n : Visited(wk, i) => i \in S
  <2>1. g.n \in S
    BY DEF SortInv, IsGraph
  <2>2. \A k \in 1..g.n : k \in S => g.inputs[k] \subseteq S
    BY <1>3 DEF Needs
  <2> QED BY <2>1, <2>2, WalkStaysInside
<1>5. ASSUME NEW i \in 1..g.n, NEW j \in Needs(g, i), i \notin S PROVE Before(st.order, j, i)
  <2>1. j \in 1..g.n /\ j < i
    BY InputsAreEarlier DEF Needs
  <2>2. st.visited[i] = 0
    BY <1>2, <1>5
  <2>3. CASE j \in S
    BY <1>1, <2>1, <2>2, <2>3 DEF SortInv, AddedFirst
  <2>4. CASE j \notin S
    <3>1. st.visited[j] = 0
      BY <1>2, <2>1, <2>4
    <3>2. ~Visited(wk, i) /\ ~Visited(wk, j)
      BY <1>4, <1>5, <2>1, <2>4
    <3>3. Before(wk.order, j, i)
      BY <2>1, <3>2 DEF WalkInv, UnvisitedInOrder
    <3> QED BY <2>1, <2>2, <3>1, <3>3 DEF SortInv, OthersStay
  <2> QED BY <2>3, <2>4
<1> QED BY <1>3, <1>5

(***************************************************************************)
(* stream_info::sort leaves a program order, in every module and whatever  *)
(* the weights and priorities: every instruction ends up after its inputs  *)
(* and after what its submodules use.                                      *)
(***************************************************************************)
THEOREM SortKeepsProgramOrder == Spec => []OrderIsProgramOrder
<1>1. AssignInv => OrderIsProgramOrder
  <2> SUFFICES ASSUME AssignInv, step = "done"
               PROVE  /\ {order[k] : k \in Instrs} = Instrs
                      /\ \A a, b \in Instrs :
                           order[a] \in graph.inputs[order[b]] \cup graph.implicit[order[b]]
                             => a < b
    BY DEF OrderIsProgramOrder
  <2>1. IsGraph(graph) /\ graph.n \in Nat
    BY GraphsAssumption DEF AssignInv, IsGraph
  <2>2. SortInv(graph, walk, sorting) /\ sorting.children = {}
    BY DEF AssignInv, AssignDone
  <2>3. IsOrder(order, graph.n)
    BY <2>2 DEF SortInv, SortType, order
  <2>4. \A k \in Instrs : order[k] \in Instrs /\ PlaceOf(order, order[k]) = k
    <3> SUFFICES ASSUME NEW k \in Instrs
                 PROVE  order[k] \in Instrs /\ PlaceOf(order, order[k]) = k
      OBVIOUS
    <3>1. order[k] \in Instrs
      BY <2>1, <2>3, OrdersAreFunctions DEF Instrs
    <3> QED BY <2>1, <2>3, <3>1, PlaceOfIs DEF Instrs
  <2>5. \A i \in Instrs : \E k \in Instrs : order[k] = i
    BY <2>3 DEF IsOrder, Instrs
  <2>6. \A i \in Instrs : \A j \in Needs(graph, i) : Before(order, j, i)
    BY <2>1, <2>2, SortedProperly DEF AssignInv, Instrs, order
  <2>7. ASSUME NEW a \in Instrs, NEW b \in Instrs,
               order[a] \in graph.inputs[order[b]] \cup graph.implicit[order[b]]
        PROVE  a < b
    <3>1. Before(order, order[a], order[b])
      BY <2>4, <2>6, <2>7 DEF Needs
    <3> QED BY <2>4, <3>1 DEF Before
  <2> QED BY <2>4, <2>5, <2>7
<1> QED BY <1>1, AssignInvHolds, PTL

(***************************************************************************)
(* assign_streams puts the chain of heaviest inputs from @return on stream *)
(* 0, in every module: the recursion takes the heaviest input first and in *)
(* the partition of its user, so nothing else claims one of the chain.     *)
(***************************************************************************)
THEOREM LongestChainTogether == Spec => []CriticalChainOnStreamZero
<1>1. AssignInv => CriticalChainOnStreamZero
  <2> SUFFICES ASSUME AssignInv, AssignDone, NEW i \in LongestChain, IWeight(graph, i) > 0
               PROVE  StreamOf(i) = 0
    BY DEF CriticalChainOnStreamZero
  <2>1. IsGraph(graph) /\ graph.n \in 1..graph.n
    BY GraphsAssumption DEF AssignInv, IsGraph
  <2>2. walk.calls = <<>> /\ PlacedInv(graph, walk, placed)
    BY DEF AssignInv, AssignDone
  <2>3. PICK T \in SUBSET Instrs : ChainUpTo(graph, weights, walk, T)
    BY DEF AssignInv, ChainInv, Instrs
  <2>4. graph.n \in T /\ \A k \in T : GoesOn(graph, weights, T, k)
    BY <2>2, <2>3 DEF ChainUpTo
  <2>5. \A k \in T : \A j \in Instrs : OnlyHeaviest(k, j) => j \in T
    BY <2>4 DEF GoesOn, Heaviest, OnlyHeaviest, Instrs
  <2>6. i \in T
    BY <2>4, <2>5 DEF LongestChain
  <2>7. walk.partOf[i] = Critical /\ Visited(walk, i)
    BY <2>1, <2>3, <2>6, PartTypes DEF ChainUpTo, Visited
  <2>8. placed.stream[Critical] = 0
    BY <2>2 DEF PlacedInv, PlacedType
  <2> QED BY <2>7, <2>8 DEF StreamOf, StreamIn
<1> QED BY <1>1, AssignInvHolds, PTL

-----------------------------------------------------------------------------
LEMMA OwnWeightOfReturn == ASSUME NEW g PROVE IWeight(g, g.n) = 1
BY DEF IWeight

(* The recursion visits what @return finds through inputs. *)
LEMMA FoundIsVisited ==
  ASSUME AssignInv, walk.calls = <<>>
  PROVE  \A i \in Instrs : i \in FromReturn <=> Visited(walk, i)
<1>1. IsGraph(graph) /\ graph.n \in 1..graph.n /\ WalkInv(graph, weights, walk)
  BY GraphsAssumption DEF AssignInv, IsGraph
<1> DEFINE V == {i \in Instrs : Visited(walk, i)}
<1>2. graph.n \in V
  BY <1>1, PartTypes DEF WalkInv, WalkType, Visited, Instrs
<1>3. \A k \in V : graph.inputs[k] \subseteq V
  BY <1>1, WalkedIsClosed, InputsAreEarlier DEF Instrs
<1>4. ASSUME NEW i \in FromReturn PROVE Visited(walk, i)
  <2>1. V \in SUBSET Instrs
    OBVIOUS
  <2> HIDE DEF V
  <2>2. i \in V
    BY <1>2, <1>3, <1>4, <2>1 DEF FromReturn
  <2> QED BY <2>2 DEF V
<1>5. ASSUME NEW i \in Instrs, Visited(walk, i) PROVE i \in FromReturn
  <2> SUFFICES ASSUME NEW S \in SUBSET Instrs, graph.n \in S,
                      \A k \in S : graph.inputs[k] \subseteq S
               PROVE  i \in S
    BY DEF FromReturn
  <2> QED BY <1>1, <1>5, WalkStaysInside DEF Instrs
<1> QED BY <1>4, <1>5

(***************************************************************************)
(* Every instruction with weight that @return finds through inputs is on a *)
(* stream of the device; a heavy input that is not the heaviest of its     *)
(* only user is not on stream 0 where there is another; and the number     *)
(* assign_streams returns, which decides whether any event is recorded, is *)
(* the number of streams that have an instruction.                         *)
(***************************************************************************)
THEOREM EveryoneHasAStream == Spec => []StreamsAssigned
<1>1. AssignInv => StreamsAssigned
  <2> SUFFICES ASSUME AssignInv, AssignDone PROVE StreamsAssigned
    BY DEF StreamsAssigned
  <2> DEFINE g == graph
  <2>1. IsGraph(g) /\ g.n \in 1..g.n /\ WalkInv(g, weights, walk)
    BY GraphsAssumption DEF AssignInv, IsGraph
  <2>2. walk.calls = <<>> /\ PlacedInv(g, walk, placed) /\ placed.left = {}
    BY DEF AssignInv, AssignDone
  <2>3. /\ placed.load \in [1..(NStreams - 1) -> Nat]
        /\ placed.stream \in [Parts(g) -> 0..(NStreams - 1)]
        /\ placed.stream[Critical] = 0
    BY <2>2 DEF PlacedInv, PlacedType
  <2>4. NStreams \in Nat \ {0}
    BY StreamsAssumption
  <2>5. walk.partOf \in [1..g.n -> Parts(g)] /\ walk.weight \in [Parts(g) -> Nat]
        /\ walk.partOf[g.n] = Critical
    BY <2>1 DEF WalkInv, WalkType
  <2>6. \A i \in Instrs : StreamOf(i) = IF Visited(walk, i) /\ IWeight(g, i) > 0
                                          THEN placed.stream[walk.partOf[i]] ELSE -1
    BY DEF StreamOf, StreamIn
  <2>7. \A i \in Instrs : placed.stream[walk.partOf[i]] \in 0..(NStreams - 1)
    BY <2>3, <2>5 DEF Instrs
  <2>8. ASSUME NEW i \in FromReturn, IWeight(g, i) > 0
        PROVE  /\ StreamOf(i) \in 0..(NStreams - 1)
               /\ SideBranch(i) /\ NStreams > 1 => StreamOf(i) # 0
    <3>1. i \in Instrs /\ Visited(walk, i)
      BY <2>2, <2>8, FoundIsVisited DEF FromReturn
    <3>2. StreamOf(i) = placed.stream[walk.partOf[i]]
      BY <2>6, <2>8, <3>1
    <3>3. ASSUME SideBranch(i), NStreams > 1 PROVE StreamOf(i) # 0
      <4>1. PICK k \in FromReturn : /\ {m \in FromReturn : i \in g.inputs[m]} = {k}
                                    /\ \E j \in g.inputs[k] : weights[j] > weights[i]
        BY <3>3 DEF SideBranch
      <4>2. weights[i] > MinPartitionThreshold
        BY <3>3 DEF SideBranch
      <4>3. k \in 1..g.n /\ i \in g.inputs[k]
        BY <4>1 DEF FromReturn, Instrs
      <4>4. i # g.n
        BY <2>1, <4>3, InputsAreEarlier DEF IsGraph
      <4>5. PICK u \in 1..g.n :
              /\ Visited(walk, u) /\ i \in g.inputs[u]
              /\ \/ walk.partOf[i] = <<u, i>>
                 \/ weights[i] <= MinPartitionThreshold
                 \/ \A j \in g.inputs[u] : ~(weights[j] > weights[i])
        BY <2>1, <3>1, <4>4 DEF WalkInv, StartedInv, Instrs
      <4>6. u \in FromReturn
        BY <2>2, <4>5, FoundIsVisited DEF Instrs
      <4>7. u = k
        BY <4>1, <4>5, <4>6
      <4>8. weights[i] \in Nat
        BY <3>1 DEF AssignInv, IsWeights, Instrs
      <4>9. walk.partOf[i] = <<u, i>>
        BY <4>1, <4>2, <4>5, <4>7, <4>8 DEF MinPartitionThreshold
      <4>10. walk.partOf[i] \in SidePartitions(g, walk)
        BY <2>1, <3>1, <4>5, <4>9, PartTypes DEF SidePartitions, Instrs
      <4> QED BY <2>2, <3>2, <3>3, <4>10 DEF PlacedInv, PlacedSides
    <3> QED BY <2>7, <3>1, <3>2, <3>3
  <2>9. StreamsUsed(placed) = Cardinality({StreamOf(i) : i \in Instrs} \ {-1})
    <3> DEFINE L == {s \in 1..(NStreams - 1) : placed.load[s] > 0}
               U == {StreamOf(i) : i \in Instrs} \ {-1}
    <3>1. IsFiniteSet(L)
      <4>1. IsFiniteSet(1..(NStreams - 1))
        BY <2>4, FS_Interval
      <4> QED BY <4>1, FS_Subset
    <3>2. 0 \notin L
      OBVIOUS
    <3>3. 0 \in U
      <4>1. Visited(walk, g.n) /\ IWeight(g, g.n) > 0
        BY <2>1, <2>5, PartTypes, OwnWeightOfReturn DEF Visited
      <4>2. StreamOf(g.n) = 0 /\ g.n \in Instrs
        BY <2>1, <2>3, <2>5, <2>6, <4>1 DEF Instrs
      <4> QED BY <4>2
    <3>4. ASSUME NEW s \in U PROVE s = 0 \/ s \in L
      <4>1. PICK i \in Instrs : s = StreamOf(i) /\ s # -1
        OBVIOUS
      <4>2. Visited(walk, i) /\ IWeight(g, i) > 0 /\ s = placed.stream[walk.partOf[i]]
        BY <2>6, <4>1
      <4>3. CASE walk.partOf[i] = Critical
        BY <2>3, <4>2, <4>3
      <4>4. CASE walk.partOf[i] # Critical
        <5> DEFINE p == walk.partOf[i]
        <5>1. p \in SidePartitions(g, walk) /\ p \in Parts(g) \ {NoPart}
          BY <2>1, <4>2, <4>4, SideParts DEF Visited, Instrs
        <5>2. walk.weight[p] > 0
          BY <2>1, <4>2, <5>1 DEF WalkInv, WeightInv, Instrs
        <5>3. s = 0 \/ s \in 1..(NStreams - 1)
          BY <2>4, <2>7, <4>2
        <5>4. s \in 1..(NStreams - 1) => placed.load[s] > 0
          BY <2>2, <4>2, <5>1, <5>2 DEF PlacedInv, LoadInv
        <5> QED BY <5>3, <5>4
      <4> QED BY <4>3, <4>4
    <3>5. ASSUME NEW s \in L PROVE s \in U
      <4>1. PICK p \in SidePartitions(g, walk) : placed.stream[p] = s /\ walk.weight[p] > 0
        BY <2>2, <3>5 DEF PlacedInv, LoadInv
      <4>2. p \in Parts(g) \ {Critical, NoPart}
        BY <2>1, <4>1, SideParts
      <4>3. PICK i \in 1..g.n : walk.partOf[i] = p /\ IWeight(g, i) > 0
        BY <2>1, <4>1, <4>2 DEF WalkInv, WeightInv
      <4>4. StreamOf(i) = s /\ s # -1 /\ i \in Instrs
        BY <2>6, <4>1, <4>2, <4>3 DEF Visited, Instrs
      <4> QED BY <4>4
    <3>6. U = L \cup {0}
      BY <3>3, <3>4, <3>5
    <3>7. DOMAIN placed.load = 1..(NStreams - 1)
      BY <2>3
    <3>8. StreamsUsed(placed) = 1 + Cardinality(L)
      BY <3>7 DEF StreamsUsed
    <3> HIDE DEF L, U
    <3>9. Cardinality(L \cup {0}) = Cardinality(L) + 1 /\ Cardinality(L) \in Nat
      BY <3>1, <3>2, FS_AddElement, FS_CardinalityType
    <3> QED BY <3>6, <3>8, <3>9 DEF U
  <2> QED BY <2>8, <2>9 DEF StreamsAssigned
<1> QED BY <1>1, AssignInvHolds, PTL

-----------------------------------------------------------------------------
(***************************************************************************)
(* What assign_streams adds up is the weight of the instructions: of those *)
(* of a partition, and of those it gives a stream.  A partition left to    *)
(* place has no stream yet.                                                *)
(***************************************************************************)
OwnWeights(g) == [i \in 1..g.n |-> IWeight(g, i)]

InPart(g, wk, p) == {i \in 1..g.n : wk.partOf[i] = p}

OnStream(g, wk, pl, s) == {i \in 1..g.n : StreamIn(g, wk, pl, i) = s}

PartWeights(g, wk) ==
  \A p \in Parts(g) \ {NoPart} : wk.weight[p] = SumIn(OwnWeights(g), InPart(g, wk, p), g.n)

StreamLoads(g, wk, pl) ==
  /\ \A p \in pl.left : pl.stream[p] = 0
  /\ \A s \in 1..(NStreams - 1) :
       pl.load[s] = SumIn(OwnWeights(g), OnStream(g, wk, pl, s), g.n)

SumsInv ==
  /\ PartWeights(graph, walk)
  /\ step \in {"place", "sort", "done"} => StreamLoads(graph, walk, placed)

LEMMA OwnWeightsType ==
  ASSUME NEW g, IsGraph(g)
  PROVE  g.n \in Nat /\ \A i \in 1..g.n : /\ OwnWeights(g)[i] = IWeight(g, i)
                                          /\ OwnWeights(g)[i] \in Nat
BY OwnWeightType DEF OwnWeights, IsGraph

LEMMA PartWeightsStart ==
  ASSUME NEW g, IsGraph(g)
  PROVE  PartWeights(g, WalkFrom(g))
<1> DEFINE wk == WalkFrom(g)
<1>1. g.n \in Nat /\ g.n \in 1..g.n
  BY DEF IsGraph
<1>2. /\ wk.partOf = [i \in 1..g.n |-> IF i = g.n THEN Critical ELSE NoPart]
      /\ wk.weight = [p \in Parts(g) |-> IF p = Critical THEN IWeight(g, g.n) ELSE 0]
  BY DEF WalkFrom, Parts
<1> HIDE DEF wk
<1> SUFFICES ASSUME NEW p \in Parts(g) \ {NoPart}
             PROVE  wk.weight[p] = SumIn(OwnWeights(g), InPart(g, wk, p), g.n)
  BY DEF PartWeights, wk
<1>3. CASE p = Critical
  <2>1. InPart(g, wk, p) = {g.n}
    BY <1>1, <1>2, <1>3, PartTypes DEF InPart
  <2>2. SumIn(OwnWeights(g), {g.n}, g.n) = OwnWeights(g)[g.n]
    BY <1>1, OwnWeightsType, SumOfOne
  <2> QED BY <1>1, <1>2, <1>3, <2>1, <2>2, OwnWeightsType
<1>4. CASE p # Critical
  <2>1. \A i \in 1..g.n : i \notin InPart(g, wk, p)
    BY <1>2, <1>4 DEF InPart
  <2>2. SumIn(OwnWeights(g), InPart(g, wk, p), g.n) = 0
    BY <1>1, <2>1, SumOfNothing
  <2> QED BY <1>2, <1>4, <2>2
<1> QED BY <1>3, <1>4

LEMMA VisitKeepsWeights ==
  ASSUME NEW g, IsGraph(g), NEW w, IsWeights(g, w), NEW wk, WalkInv(g, w, wk),
         wk.calls # <<>>, NEW j, IsNextArg(g, w, Head(wk.calls), j), PartWeights(g, wk)
  PROVE  PartWeights(g, VisitArg(g, w, wk, j))
<1> DEFINE part == PartitionFor(g, w, Head(wk.calls), j)
           wk2  == VisitArg(g, w, wk, j)
<1>1. /\ j \in 1..g.n /\ part \in Parts(g) \ {NoPart}
      /\ Visited(wk, j) => wk2.partOf = wk.partOf /\ wk2.weight = wk.weight
      /\ ~Visited(wk, j) => /\ wk2.partOf = [wk.partOf EXCEPT ![j] = part]
                            /\ wk2.weight = [wk.weight EXCEPT ![part] = @ + IWeight(g, j)]
  <2> DEFINE call == Head(wk.calls)
             kept == ToSet(Tail(wk.calls))
             new  == CallOf(g, j, part)
  <2>1. VisitFacts(g, wk, j, call, HandledBy(call, j), part, wk2, kept, new)
    BY VisitIs
  <2> HIDE DEF call, kept, new, part, wk2
  <2> QED BY <2>1 DEF VisitFacts
<1>2. wk.partOf \in [1..g.n -> Parts(g)] /\ wk.weight \in [Parts(g) -> Nat]
  BY DEF WalkInv, WalkType
<1> HIDE DEF part, wk2
<1> SUFFICES ASSUME NEW p \in Parts(g) \ {NoPart}
             PROVE  wk2.weight[p] = SumIn(OwnWeights(g), InPart(g, wk2, p), g.n)
  BY DEF PartWeights, wk2
<1>3. wk.weight[p] = SumIn(OwnWeights(g), InPart(g, wk, p), g.n)
  BY DEF PartWeights
<1>4. CASE Visited(wk, j)
  BY <1>1, <1>3, <1>4 DEF InPart
<1>5. CASE ~Visited(wk, j) /\ p # part
  <2>1. wk2.weight[p] = wk.weight[p]
    BY <1>1, <1>2, <1>5
  <2>2. InPart(g, wk2, p) = InPart(g, wk, p)
    BY <1>1, <1>2, <1>5 DEF InPart, Visited
  <2> QED BY <1>3, <2>1, <2>2
<1>6. CASE ~Visited(wk, j) /\ p = part
  <2>1. wk2.weight[p] = wk.weight[p] + IWeight(g, j)
    BY <1>1, <1>2, <1>6
  <2>2. InPart(g, wk2, p) = InPart(g, wk, p) \cup {j} /\ InPart(g, wk, p) \cap {j} = {}
    BY <1>1, <1>2, <1>6 DEF InPart, Visited
  <2>3. SumIn(OwnWeights(g), InPart(g, wk, p) \cup {j}, g.n)
          = SumIn(OwnWeights(g), InPart(g, wk, p), g.n) + SumIn(OwnWeights(g), {j}, g.n)
    BY <2>2, OwnWeightsType, SumOfUnion
  <2>4. SumIn(OwnWeights(g), {j}, g.n) = IWeight(g, j)
    <3>1. j \in 1..g.n
      BY <1>1
    <3> QED BY <3>1, OwnWeightsType, SumOfOne
  <2> QED BY <1>3, <2>1, <2>2, <2>3, <2>4
<1> QED BY <1>4, <1>5, <1>6

LEMMA LoadsStart ==
  ASSUME NEW g, IsGraph(g), NEW w, NEW wk, WalkInv(g, w, wk)
  PROVE  StreamLoads(g, wk, PlacementFrom(g, wk, NStreams))
<1> DEFINE pl == PlacementFrom(g, wk, NStreams)
<1>1. /\ pl.load = [s \in 1..(NStreams - 1) |-> 0]
      /\ pl.stream = [p \in Parts(g) |-> 0]
      /\ pl.left \subseteq SidePartitions(g, wk)
  BY DEF PlacementFrom, Parts
<1> HIDE DEF pl
<1>2. \A p \in pl.left : pl.stream[p] = 0
  BY <1>1, SideParts
<1>3. ASSUME NEW s \in 1..(NStreams - 1)
      PROVE  pl.load[s] = SumIn(OwnWeights(g), OnStream(g, wk, pl, s), g.n)
  <2>1. wk.partOf \in [1..g.n -> Parts(g)]
    BY DEF WalkInv, WalkType
  <2>2. \A i \in 1..g.n : StreamIn(g, wk, pl, i) \in {0, -1}
    BY <1>1, <2>1 DEF StreamIn
  <2>3. \A i \in 1..g.n : i \notin OnStream(g, wk, pl, s)
    BY <2>2, StreamsAssumption DEF OnStream
  <2>4. SumIn(OwnWeights(g), OnStream(g, wk, pl, s), g.n) = 0
    BY <2>3, OwnWeightsType, SumOfNothing
  <2> QED BY <1>1, <2>4
<1> QED BY <1>2, <1>3 DEF StreamLoads, pl

LEMMA PlaceKeepsLoads ==
  ASSUME NEW g, IsGraph(g), NEW w, NEW wk, WalkInv(g, w, wk), PartWeights(g, wk),
         NEW pl, PlacedInv(g, wk, pl), StreamLoads(g, wk, pl),
         NEW p \in pl.left, NEW s \in 1..(NStreams - 1)
  PROVE  StreamLoads(g, wk, PlaceOn(wk, pl, p, s))
<1> DEFINE pl2 == PlaceOn(wk, pl, p, s)
           own == OwnWeights(g)
<1>1. /\ pl \in [load : [1..(NStreams - 1) -> Nat], stream : [Parts(g) -> 0..(NStreams - 1)],
                 left : SUBSET Parts(g)]
  BY DEF PlacedInv, PlacedType
<1>2. /\ pl2.load = [pl.load EXCEPT ![s] = @ + wk.weight[p]]
      /\ pl2.stream = [pl.stream EXCEPT ![p] = s]
      /\ pl2.left = pl.left \ {p}
  <2>1. pl2 = [pl EXCEPT !.load[s] = @ + wk.weight[p], !.stream[p] = s, !.left = @ \ {p}]
    BY DEF PlaceOn
  <2> HIDE DEF pl2
  <2> QED BY <1>1, <2>1
<1> HIDE DEF pl2
<1>3. p \in Parts(g) \ {Critical, NoPart} /\ pl.stream[p] = 0
  BY SideParts DEF PlacedInv, PlacedSides, StreamLoads
<1>4. \A q \in Parts(g) : pl2.stream[q] = IF q = p THEN s ELSE pl.stream[q]
  BY <1>1, <1>2
<1>5. \A i \in 1..g.n : wk.partOf[i] \in Parts(g)
  <2>1. wk.partOf \in [1..g.n -> Parts(g)]
    BY DEF WalkInv, WalkType
  <2> QED BY <2>1
<1>6. NStreams \in Nat
  BY StreamsAssumption
<1>7. g.n \in Nat /\ \A i \in 1..g.n : own[i] = IWeight(g, i) /\ own[i] \in Nat
  BY OwnWeightsType
<1> HIDE DEF own
<1>8. \A q \in pl2.left : pl2.stream[q] = 0
  BY <1>1, <1>2, <1>4 DEF StreamLoads
<1>9. ASSUME NEW t \in 1..(NStreams - 1)
      PROVE  pl2.load[t] = SumIn(own, OnStream(g, wk, pl2, t), g.n)
  <2>1. pl.load[t] = SumIn(own, OnStream(g, wk, pl, t), g.n)
    BY DEF StreamLoads, own
  <2>2. CASE t # s
    <3>1. \A i \in 1..g.n : StreamIn(g, wk, pl2, i) = t <=> StreamIn(g, wk, pl, i) = t
      BY <1>3, <1>4, <1>5, <1>6, <2>2 DEF StreamIn
    <3>2. OnStream(g, wk, pl2, t) = OnStream(g, wk, pl, t)
      BY <3>1 DEF OnStream
    <3> QED BY <1>1, <1>2, <2>1, <2>2, <3>2
  <2>3. CASE t = s
    <3> DEFINE heavy == {i \in InPart(g, wk, p) : IWeight(g, i) > 0}
               light == {i \in InPart(g, wk, p) : ~ (IWeight(g, i) > 0)}
    <3>1. \A i \in 1..g.n : StreamIn(g, wk, pl2, i) = t
                              <=> StreamIn(g, wk, pl, i) = t \/ i \in heavy
      BY <1>3, <1>4, <1>5, <1>6, <2>3 DEF StreamIn, InPart, Visited
    <3>2. OnStream(g, wk, pl2, t) = OnStream(g, wk, pl, t) \cup heavy
      BY <3>1 DEF OnStream, InPart
    <3>3. OnStream(g, wk, pl, t) \cap heavy = {}
      BY <1>3, <1>6 DEF OnStream, StreamIn, InPart, Visited
    <3>4. InPart(g, wk, p) = heavy \cup light /\ heavy \cap light = {}
      OBVIOUS
    <3>5. \A i \in 1..g.n : i \in light => own[i] = 0
      BY <1>7
    <3> HIDE DEF heavy, light
    <3>6. SumIn(own, OnStream(g, wk, pl2, t), g.n) = pl.load[t] + SumIn(own, heavy, g.n)
      BY <1>7, <2>1, <3>2, <3>3, SumOfUnion
    <3>7. SumIn(own, InPart(g, wk, p), g.n) = SumIn(own, heavy, g.n) + SumIn(own, light, g.n)
      BY <1>7, <3>4, SumOfUnion
    <3>8. SumIn(own, light, g.n) = 0
      BY <1>7, <3>5, SumOfNothing
    <3>9. wk.weight[p] = SumIn(own, InPart(g, wk, p), g.n) /\ wk.weight[p] \in Nat
      BY <1>3 DEF PartWeights, own, WalkInv, WalkType
    <3>10. SumIn(own, heavy, g.n) \in Nat
      <4>1. \A i \in 0..g.n : Sums(own, heavy, g.n)[i] \in Nat
        BY <1>7, SumIsNumber
      <4> QED BY <1>7, <4>1, SumInIs
    <3>11. pl2.load[t] = pl.load[t] + wk.weight[p]
      BY <1>1, <1>2, <2>3
    <3> QED BY <3>6, <3>7, <3>8, <3>9, <3>10, <3>11
  <2> QED BY <2>2, <2>3
<1> QED BY <1>8, <1>9 DEF StreamLoads, pl2, own

THEOREM SumsAreExact == Spec => []SumsInv
<1>1. Init => SumsInv
  BY GraphsAssumption, PartWeightsStart DEF Init, SumsInv
<1>2. AssignInv /\ SumsInv /\ [Next]_vars => SumsInv'
  <2> SUFFICES ASSUME AssignInv, SumsInv, [Next]_vars PROVE SumsInv'
    OBVIOUS
  <2>0. IsGraph(graph) /\ IsWeights(graph, weights) /\ WalkInv(graph, weights, walk)
    BY GraphsAssumption DEF AssignInv
  <2>1. CASE Weigh \/ UNCHANGED vars \/ StartSorting \/ EndSorting
    BY <2>1 DEF Weigh, StartSorting, EndSorting, vars, SumsInv
  <2>2. ASSUME NEW j \in 1..graph.n, Visit(j) PROVE SumsInv'
    <3>1. PartWeights(graph, walk') /\ graph' = graph /\ step' = "walk"
      BY <2>0, <2>2, VisitKeepsWeights DEF Visit, SumsInv
    <3> QED BY <3>1 DEF SumsInv
  <2>3. CASE Return
    <3>1. walk'.partOf = walk.partOf /\ walk'.weight = walk.weight /\ graph' = graph
          /\ step' = "walk"
      <4>1. walk \in [calls : Seq(CallType(graph)), partOf : [1..graph.n -> Parts(graph)],
                      weight : [Parts(graph) -> Nat], order : Seq(1..graph.n)]
        BY <2>0 DEF WalkInv, WalkType
      <4> QED BY <2>3, <4>1 DEF Return, ReturnFrom
    <3> QED BY <3>1 DEF SumsInv, PartWeights, InPart
  <2>4. CASE StartPlacing
    <3>1. StreamLoads(graph, walk, placed') /\ graph' = graph /\ walk' = walk
      BY <2>0, <2>4, LoadsStart DEF StartPlacing
    <3> QED BY <3>1 DEF SumsInv
  <2>5. ASSUME NEW p \in placed.left, NEW s \in 1..(NStreams - 1), Place(p, s) PROVE SumsInv'
    <3>1. /\ graph' = graph /\ walk' = walk /\ step' = "place" /\ step = "place"
          /\ placed' = PlaceOn(walk, placed, p, s)
      BY <2>5 DEF Place
    <3>2. StreamLoads(graph, walk, placed')
      BY <2>0, <3>1, PlaceKeepsLoads DEF SumsInv, AssignInv
    <3> QED BY <3>1, <3>2 DEF SumsInv
  <2>6. ASSUME NEW c \in sorting.children, Pop(c) PROVE SumsInv'
    BY <2>6 DEF Pop, SumsInv
  <2> QED BY <2>1, <2>2, <2>3, <2>4, <2>5, <2>6 DEF Next
<1> QED BY <1>1, <1>2, AssignInvHolds, PTL DEF Spec

(***************************************************************************)
(* Placing partitions one by one on the least loaded stream keeps the work *)
(* of the streams other than 0 within one partition of each other, however *)
(* the partitions are ordered: what assign_streams counts is the weight of *)
(* the instructions it gives a stream, and its counts stay close.          *)
(***************************************************************************)
THEOREM LoadsStayBalanced == Spec => []LoadsBalanced
<1>1. AssignInv /\ SumsInv => LoadsBalanced
  <2> SUFFICES ASSUME AssignInv, SumsInv, AssignDone PROVE LoadsBalanced
    BY DEF LoadsBalanced
  <2> DEFINE load == [s \in 1..(NStreams - 1) |-> WeightIn({i \in Instrs : StreamOf(i) = s})]
  <2>1. IsGraph(graph) /\ WalkInv(graph, weights, walk)
    BY GraphsAssumption DEF AssignInv
  <2>2. LoadsClose(graph, walk, placed) /\ StreamLoads(graph, walk, placed)
    BY DEF AssignInv, AssignDone, PlacedInv, SumsInv
  <2>3. \A S : WeightIn(S) = SumIn(OwnWeights(graph), S, graph.n)
    BY DEF WeightIn, OwnWeights, Instrs
  <2>4. \A s \in 1..(NStreams - 1) : load[s] = placed.load[s]
    BY <2>2, <2>3 DEF StreamLoads, OnStream, Instrs, StreamOf
  <2>5. \A p \in SidePartitions(graph, walk) :
          walk.weight[p] = WeightIn({i \in Instrs : walk.partOf[i] = p})
    BY <2>1, <2>3, SideParts DEF SumsInv, PartWeights, InPart, Instrs
  <2> HIDE DEF load
  <2>6. \A a, b \in 1..(NStreams - 1) : load[a] > load[b] =>
          \E p \in SidePartitions(graph, walk) :
            load[a] - load[b] <= WeightIn({i \in Instrs : walk.partOf[i] = p})
    BY <2>2, <2>4, <2>5 DEF LoadsClose
  <2>7. DOMAIN load = 1..(NStreams - 1)
    BY DEF load
  <2> QED BY <2>6, <2>7 DEF LoadsBalanced, load
<1> QED BY <1>1, AssignInvHolds, SumsAreExact, PTL
=============================================================================

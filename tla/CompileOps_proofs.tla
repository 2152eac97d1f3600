------------------------- MODULE CompileOps_proofs -------------------------
(***************************************************************************)
(* What the two turns of compile_ops rest on, for every number of ops,     *)
(* every set of problems and number of solutions: within a module a        *)
(* problem is benchmarked for one plan only, its solution goes into the    *)
(* cache while it is marked there, and what the second turn finds marked   *)
(* was marked before the module.                                           *)
(***************************************************************************)
EXTENDS CompileOps, TLAPS

Active   == pc \in {"add", "compile", "replace"}
InModule == Active \/ pc = "done"
Tuned(p) == problem[p] # Untuned
Many(p)  == Len(results[p]) > 1

(* The solution an op of this problem may get. *)
Right(p, sol) ==
  \/ sol = cache[problem[p]] /\ Cached(problem[p])
  \/ Solutions[problem[p]] = 1 /\ sol = 1

(* Several results are the solutions of a config, of a problem in the      *)
(* cache, and no other plan has them.                                      *)
ManyInv ==
  \A p \in Plans : Many(p) =>
    /\ Tuned(p)
    /\ \A k \in DOMAIN results[p] : results[p][k].sol \in 1..Solutions[problem[p]]
    /\ InModule => cache[problem[p]] # Absent

OneManyInv ==
  InModule => \A p, r \in Plans :
                p # r /\ problem[p] = problem[r] => ~ Many(p) \/ ~ Many(r)

(* A plan that will be benchmarked has its problem marked. *)
WaitingInv ==
  Active => \A p \in cps :
              Many(p) /\ (pc = "replace" => p >= at) => cache[problem[p]] = Null

SingleInv ==
  Active => \A p \in cps :
              Tuned(p) /\ Len(results[p]) = 1 => Right(p, results[p][1].sol)

CodeInv ==
  InModule => \A p \in Plans :
                Tuned(p) /\ code[p] # Precompile => Right(p, code[p])

(* Plans the loop has not come to have no results of the turn before. *)
FreshInv == pc = "add" => \A p \in cps : p >= at => results[p] = <<>>

SharedInv ==
  TypeOK /\ ManyInv /\ OneManyInv /\ WaitingInv /\ SingleInv /\ CodeInv /\ FreshInv

-----------------------------------------------------------------------------
(* A mark that was not there before the module is that of a plan to be     *)
(* benchmarked in this turn.                                               *)
Pending(q) ==
  \E r \in cps : Many(r) /\ problem[r] = q /\ (pc = "replace" => r >= at)

MarkInv ==
  /\ Active => \A q \in Problems : cache[q] = Null => before[q] = Null \/ Pending(q)
  /\ pc = "done" => \A q \in Problems : cache[q] = Null => before[q] = Null

(* A plan without results, in this turn or the one before, has a problem   *)
(* in the cache, and in the second turn one that is marked.                *)
EmptyInv ==
  Active => \A p \in cps :
    results[p] = <<>> /\ (turn = 2 \/ pc # "add" \/ p < at) =>
      /\ Tuned(p) /\ cache[problem[p]] # Absent
      /\ turn = 2 /\ (pc # "add" \/ p < at) => cache[problem[p]] = Null

SecondInv == Active /\ turn = 2 => \A p \in cps : ~ Many(p)

LeftInv ==
  /\ InModule => \A p \in Plans \ cps : code[p] # Precompile
  /\ pc = "replace" => \A p \in cps : p < at /\ results[p] # <<>> => code[p] # Precompile
  /\ pc = "done" => \A p \in cps : Tuned(p) /\ cache[problem[p]] = Null

TurnsInv == SharedInv /\ MarkInv /\ EmptyInv /\ SecondInv /\ LeftInv

-----------------------------------------------------------------------------
(* Sequences of a set.                                                    *)
LEMMA Element ==
  ASSUME NEW S, NEW s \in Seq(S), NEW k \in DOMAIN s
  PROVE  s[k] \in S
OBVIOUS

(* A result of the same solution in place of another.                      *)
LEMMA OutcomeOnly ==
  ASSUME NEW S, NEW s \in Seq(S), NEW k \in DOMAIN s, NEW r \in S, r.sol = s[k].sol
  PROVE  /\ [s EXCEPT ![k] = r] \in Seq(S)
         /\ DOMAIN [s EXCEPT ![k] = r] = DOMAIN s /\ Len([s EXCEPT ![k] = r]) = Len(s)
         /\ \A j \in DOMAIN s : [s EXCEPT ![k] = r][j].sol = s[j].sol
         /\ [s EXCEPT ![k] = r] = <<>> <=> s = <<>>
OBVIOUS

(* No module has been begun.                                               *)
LEMMA InitShared == Init => SharedInv
<1> SUFFICES ASSUME Init PROVE SharedInv
  OBVIOUS
<1> USE OpsAssumption, SolutionsAssumption, NamesAssumption
<1>1. TypeOK
  BY DEF Init, TypeOK, Caches, Plans
<1>2. \A p \in Plans : results[p] = <<>>
  BY DEF Init
<1>3. pc = "idle"
  BY DEF Init
<1> QED
  BY <1>1, <1>2, <1>3 DEF SharedInv, ManyInv, OneManyInv, WaitingInv, SingleInv, CodeInv,
                          FreshInv, Active, InModule, Many

(* The passing of a plan by the loop over cps. *)
LEMMA AddingType ==
  ASSUME TypeOK, NEW sols \in Seq(Nat), Adding(sols)
  PROVE  /\ results' \in [Plans -> Seq([sol : Nat, out : Outcomes])]
         /\ at \in Plans /\ at' \in 1..(Ops + 1)
         /\ Len(results'[at]) = Len(sols)
         /\ \A k \in DOMAIN results'[at] : results'[at][k].sol = sols[k]
         /\ \A p \in Plans : p # at => results'[p] = results[p]
<1> USE OpsAssumption
<1>1. at \in Plans
  BY DEF Adding, TypeOK
<1>2. Compiles(sols) \in Seq([sol : Nat, out : Outcomes])
  <2>1. Len(sols) \in Nat /\ \A k \in 1..Len(sols) : sols[k] \in Nat
    OBVIOUS
  <2> QED BY <2>1 DEF Compiles, Outcomes
<1>3. Len(Compiles(sols)) = Len(sols) /\ \A k \in DOMAIN Compiles(sols) : Compiles(sols)[k].sol = sols[k]
  BY DEF Compiles
<1>4. results' = [results EXCEPT ![at] = Compiles(sols)] /\ at' = at + 1
  BY DEF Adding
<1>5. at' \in 1..(Ops + 1)
  BY <1>1, <1>4 DEF Plans
<1>6. results \in [Plans -> Seq([sol : Nat, out : Outcomes])]
  BY DEF TypeOK
<1>7. results'[at] = Compiles(sols)
  BY <1>1, <1>4, <1>6
<1> QED BY <1>1, <1>2, <1>3, <1>4, <1>5, <1>6, <1>7

(* Adding the compiles of a plan, with what it may do to the cache.        *)
LEMMA AddingShared ==
  ASSUME SharedInv, NEW sols \in Seq(Nat), NEW a \in Plans, a = at, Adding(sols),
         cache' \in Caches,
         \A q \in Problems : \/ cache'[q] = cache[q]
                             \/ q = problem[a] /\ cache[q] = Absent /\ cache'[q] = Null,
         Len(sols) > 1 =>
           /\ Tuned(a) /\ cache[problem[a]] = Absent /\ cache'[problem[a]] = Null
           /\ \A k \in 1..Len(sols) : sols[k] \in 1..Solutions[problem[a]],
         Tuned(a) /\ Len(sols) = 1 => Right(a, sols[1])'
  PROVE  SharedInv'
<1> USE OpsAssumption, SolutionsAssumption, NamesAssumption
<1>1. TypeOK /\ pc = "add" /\ pc' = "add" /\ at \in cps /\ at' = at + 1 /\ turn' = turn
  BY DEF SharedInv, Adding
<1>2. /\ problem' = problem /\ code' = code /\ cps' = cps /\ before' = before
      /\ file' = file /\ modules' = modules
  BY DEF Adding
<1>3. /\ results' \in [Plans -> Seq([sol : Nat, out : Outcomes])]
      /\ at' \in 1..(Ops + 1)
      /\ Len(results'[a]) = Len(sols)
      /\ \A k \in DOMAIN results'[a] : results'[a][k].sol = sols[k]
      /\ \A p \in Plans : p # a => results'[p] = results[p]
  BY <1>1, AddingType
<1>4. TypeOK'
  BY <1>1, <1>2, <1>3 DEF TypeOK
<1>5. \A p \in Plans : Tuned(p) => problem[p] \in Problems
  BY <1>1 DEF TypeOK, Tuned
<1>6. \A p \in Plans : /\ (Many(p))' <=> Len(results'[p]) > 1
                       /\ Many(p) <=> Len(results[p]) > 1
                       /\ (Tuned(p))' <=> Tuned(p)
  BY <1>2 DEF Many, Tuned
<1>7. \A q \in Problems : /\ Cached(q) => cache'[q] = cache[q] /\ Cached(q)'
                          /\ cache[q] = Null => cache'[q] = Null
                          /\ cache[q] # Absent => cache'[q] # Absent
  BY DEF Cached
<1>9. \A p \in Plans : p # a => (Many(p)' <=> Many(p)) /\ results'[p] = results[p]
  BY <1>3, <1>6
<1>10. Many(a)' <=> Len(sols) > 1
  BY <1>3, <1>6
<1>11. Active /\ InModule /\ Active' /\ InModule'
  BY <1>1 DEF Active, InModule
<1>12. \A k \in DOMAIN results'[a] : k \in 1..Len(sols)
  BY <1>3
<1>13. cps \subseteq Plans /\ at \in Nat
  BY <1>1 DEF TypeOK, Plans
<1>14. ManyInv'
  <2> SUFFICES ASSUME NEW p \in Plans, Many(p)'
               PROVE  /\ Tuned(p)'
                      /\ \A k \in DOMAIN results'[p] :
                           results'[p][k].sol \in 1..Solutions[problem'[p]]
                      /\ cache'[problem'[p]] # Absent
    BY DEF ManyInv
  <2>1. CASE p = a
    BY <2>1, <1>2, <1>3, <1>6, <1>10, <1>12
  <2>2. CASE p # a
    BY <2>2, <1>2, <1>5, <1>6, <1>7, <1>9, <1>11 DEF SharedInv, ManyInv
  <2> QED BY <2>1, <2>2
<1>15. OneManyInv'
  <2>1. Many(a)' => \A p \in Plans : p # a /\ problem[p] = problem[a] => ~ Many(p)'
    BY <1>9, <1>10, <1>11 DEF SharedInv, ManyInv
  <2> QED BY <2>1, <1>2, <1>9, <1>11 DEF SharedInv, OneManyInv
<1>16. WaitingInv'
  <2>1. \A p \in cps : Many(p) => cache[problem[p]] = Null
    BY <1>1, <1>11 DEF SharedInv, WaitingInv
  <2>2. \A p \in Plans : Many(p) => Tuned(p)
    BY DEF SharedInv, ManyInv
  <2>3. ASSUME NEW p \in cps, Many(p)' PROVE cache'[problem[p]] = Null
    <3>1. CASE p = a
      BY <3>1, <2>3, <1>10
    <3>2. CASE p # a
      BY <3>2, <2>1, <2>2, <2>3, <1>5, <1>7, <1>9, <1>13
    <3> QED BY <3>1, <3>2
  <2> QED BY <2>3, <1>2 DEF WaitingInv
<1>17. SingleInv'
  <2> SUFFICES ASSUME NEW p \in cps, Tuned(p)', Len(results'[p]) = 1
               PROVE  Right(p, results[p][1].sol)'
    BY <1>2 DEF SingleInv
  <2>1. CASE p = a
    <3>1. 1 \in DOMAIN results'[a]
      BY <2>1, <1>3
    <3>2. results'[a][1].sol = sols[1]
      BY <3>1, <1>3
    <3>3. Right(a, sols[1])'
      BY <2>1, <1>3, <1>6
    <3> QED BY <2>1, <3>2, <3>3 DEF Right
  <2>2. CASE p # a
    <3>1. Right(p, results[p][1].sol)
      BY <2>2, <1>6, <1>9, <1>11, <1>13 DEF SharedInv, SingleInv
    <3>2. results'[p][1].sol = results[p][1].sol /\ Tuned(p)
      BY <2>2, <1>6, <1>9, <1>13
    <3> QED BY <3>1, <3>2, <1>2, <1>5, <1>7, <1>13 DEF Right
  <2> QED BY <2>1, <2>2
<1>18. CodeInv'
  BY <1>2, <1>5, <1>6, <1>7, <1>11 DEF SharedInv, CodeInv, Right
<1>19. FreshInv'
  <2> SUFFICES ASSUME NEW p \in cps, p >= at' PROVE results'[p] = <<>>
    BY <1>2 DEF FreshInv
  <2>1. p >= at /\ p # a
    BY <1>1, <1>13 DEF Plans
  <2>2. results[p] = <<>>
    BY <2>1, <1>1 DEF SharedInv, FreshInv
  <2> QED BY <2>1, <2>2, <1>9, <1>13
<1> QED BY <1>4, <1>14, <1>15, <1>16, <1>17, <1>18, <1>19 DEF SharedInv

(* Results with other outcomes, of the same solutions.                     *)
SameSolutions ==
  \A p \in Plans :
    /\ DOMAIN results'[p] = DOMAIN results[p] /\ Len(results'[p]) = Len(results[p])
    /\ \A k \in DOMAIN results[p] : results'[p][k].sol = results[p][k].sol
    /\ results'[p] = <<>> <=> results[p] = <<>>

(* A compile changes one outcome.                                          *)
LEMMA CompileSolutions ==
  ASSUME TypeOK, NEW p \in Plans, NEW k \in DOMAIN results[p], Compile(p, k)
  PROVE  TypeOK' /\ SameSolutions
<1>1. PICK out \in Outcomes :
        results' = [results EXCEPT ![p] =
                      [results[p] EXCEPT ![k] = [results[p][k] EXCEPT !.out = out]]]
  BY DEF Compile, Outcomes
<1>2. results[p] \in Seq([sol : Nat, out : Outcomes])
  BY DEF TypeOK
<1>3. results'[p] = [results[p] EXCEPT ![k] = [results[p][k] EXCEPT !.out = out]]
  BY <1>1 DEF TypeOK
<1>4. /\ results'[p] \in Seq([sol : Nat, out : Outcomes])
      /\ DOMAIN results'[p] = DOMAIN results[p] /\ Len(results'[p]) = Len(results[p])
      /\ \A j \in DOMAIN results[p] : results'[p][j].sol = results[p][j].sol
      /\ results'[p] = <<>> <=> results[p] = <<>>
  <2>1. PICK s \in Seq([sol : Nat, out : Outcomes]) : s = results[p]
    BY <1>2
  <2>2. PICK t : t = results'[p]
    OBVIOUS
  <2>3. PICK r \in [sol : Nat, out : Outcomes] :
          r = [results[p][k] EXCEPT !.out = out] /\ r.sol = s[k].sol
    <3>1. k \in DOMAIN s /\ s[k] = results[p][k] /\ s[k] \in [sol : Nat, out : Outcomes]
      BY <2>1, Element
    <3>2. [s[k] EXCEPT !.out = out] \in [sol : Nat, out : Outcomes]
      BY <3>1
    <3>3. [s[k] EXCEPT !.out = out].sol = s[k].sol
      BY <3>1
    <3> DEFINE R == [sol : Nat, out : Outcomes]
               o == [s[k] EXCEPT !.out = out]
    <3>4. o \in R /\ o.sol = s[k].sol /\ o = [results[p][k] EXCEPT !.out = out]
      BY <3>1, <3>2, <3>3
    <3> HIDE DEF R, o
    <3>5. \E r \in R : r = [results[p][k] EXCEPT !.out = out] /\ r.sol = s[k].sol
      BY <3>4
    <3> QED BY <3>5 DEF R
  <2>4. k \in DOMAIN s /\ t = [s EXCEPT ![k] = r]
    BY <1>3, <2>1, <2>2, <2>3
  <2>5. /\ t \in Seq([sol : Nat, out : Outcomes])
        /\ DOMAIN t = DOMAIN s /\ Len(t) = Len(s)
        /\ \A j \in DOMAIN s : t[j].sol = s[j].sol
        /\ t = <<>> <=> s = <<>>
    BY <2>1, <2>3, <2>4, OutcomeOnly
  <2> QED BY <2>1, <2>2, <2>5
<1>5. \A r \in Plans : r # p => results'[r] = results[r]
  BY <1>1 DEF TypeOK
<1>6. results' \in [Plans -> Seq([sol : Nat, out : Outcomes])]
  <2>1. \A r \in Plans : results'[r] \in Seq([sol : Nat, out : Outcomes])
    BY <1>4, <1>5 DEF TypeOK
  <2> QED BY <1>1, <2>1 DEF TypeOK
<1>7. TypeOK'
  BY <1>6 DEF Compile, TypeOK
<1>8. SameSolutions
  BY <1>4, <1>5 DEF SameSolutions
<1> QED BY <1>7, <1>8

(* Steps that go on to the next plan or phase, or leave the module.        *)
LEMMA QuietShared ==
  ASSUME SharedInv, TypeOK', SameSolutions, problem' = problem, code' = code, cps' \subseteq cps,
         InModule' => InModule /\ cache' = cache,
         Active' => Active,
         pc = "replace" => pc' # "compile" /\ (pc' = "replace" => at' >= at),
         pc' = "add" => \/ pc = "add" /\ at' >= at
                       \/ \A p \in cps' : results'[p] = <<>>
  PROVE  SharedInv'
<1>1. TypeOK
  BY DEF SharedInv
<1>2. cps \subseteq Plans /\ at \in Nat /\ at' \in Nat /\ Plans \subseteq Nat
  BY <1>1 DEF TypeOK, Plans
<1>3. Active' => InModule'
  BY DEF InModule
<1>4. \A p \in Plans : (Many(p)' <=> Many(p)) /\ (Tuned(p)' <=> Tuned(p))
  BY DEF SameSolutions, Many, Tuned
<1>5. ManyInv'
  <2> SUFFICES ASSUME NEW p \in Plans, Many(p)'
               PROVE  /\ Tuned(p)'
                      /\ \A k \in DOMAIN results'[p] :
                           results'[p][k].sol \in 1..Solutions[problem'[p]]
                      /\ InModule' => cache'[problem'[p]] # Absent
    BY DEF ManyInv
  <2> QED BY <1>4 DEF SharedInv, ManyInv, SameSolutions
<1>6. OneManyInv'
  BY <1>4 DEF SharedInv, OneManyInv
<1>7. WaitingInv'
  <2> SUFFICES ASSUME Active', NEW p \in cps', Many(p)', pc' = "replace" => p >= at'
               PROVE  cache'[problem'[p]] = Null
    BY DEF WaitingInv
  <2>1. Many(p) /\ p \in cps /\ p \in Nat
    BY <1>2, <1>4
  <2>2. pc = "replace" /\ pc' = "replace" => p >= at
    BY <1>2, <2>1
  <2>3. CASE pc' = "replace" \/ pc # "replace"
    BY <2>1, <2>2, <2>3, <1>3 DEF SharedInv, WaitingInv
  <2>4. CASE pc' # "replace" /\ pc = "replace"
    <3>1. pc' = "add"
      BY <2>4 DEF Active
    <3>2. results'[p] = <<>>
      BY <2>4, <3>1
    <3> QED BY <3>2 DEF Many
  <2> QED BY <2>3, <2>4
<1>8. SingleInv'
  <2> SUFFICES ASSUME Active', NEW p \in cps', Tuned(p)', Len(results'[p]) = 1
               PROVE  Right(p, results[p][1].sol)'
    BY DEF SingleInv
  <2>1. p \in cps /\ p \in Plans /\ Tuned(p)
    BY <1>2, <1>4
  <2>2. Len(results[p]) = 1 /\ results'[p][1].sol = results[p][1].sol
    BY <2>1 DEF SameSolutions
  <2>3. Right(p, results[p][1].sol)
    BY <2>1, <2>2 DEF SharedInv, SingleInv
  <2> QED BY <2>2, <2>3, <1>3 DEF Right, Cached
<1>9. CodeInv'
  BY <1>4 DEF SharedInv, CodeInv, Right, Cached
<1>10. FreshInv'
  <2> SUFFICES ASSUME pc' = "add", NEW p \in cps', p >= at' PROVE results'[p] = <<>>
    BY DEF FreshInv
  <2>1. CASE pc = "add" /\ at' >= at
    <3>1. p \in cps /\ p >= at
      BY <2>1, <1>2
    <3> QED BY <2>1, <3>1, <1>2 DEF SharedInv, FreshInv, SameSolutions
  <2> QED BY <2>1
<1> QED BY <1>5, <1>6, <1>7, <1>8, <1>9, <1>10 DEF SharedInv

(* A plan gets its solution, from the cache or from its benchmark.         *)
LEMMA ReplacingShared ==
  ASSUME SharedInv, TypeOK', NEW a \in Plans, a = at, a \in cps, NEW k \in DOMAIN results[a],
         pc = "replace", UNCHANGED <<problem, results, cps>>,
         \/ /\ Len(results[a]) = 1 /\ cache' = cache
         \/ Many(a) /\ cache' = [cache EXCEPT ![problem[a]] = results[a][k].sol],
         \/ pc' = "thrown" /\ code' = code
         \/ /\ pc' = "replace" /\ at' = at + 1 /\ code' = [code EXCEPT ![a] = results[a][k].sol]
  PROVE  SharedInv'
<1> USE SolutionsAssumption, NamesAssumption
<1>1. TypeOK /\ Active /\ InModule
  BY DEF SharedInv, Active, InModule
<1>2. cps \subseteq Plans /\ Plans \subseteq Nat
  BY <1>1 DEF TypeOK, Plans
<1>3. \A p \in Plans : (Many(p)' <=> Many(p)) /\ (Tuned(p)' <=> Tuned(p))
  BY DEF Many, Tuned
<1>4. \A p \in Plans : Tuned(p) => problem[p] \in Problems
  BY <1>1 DEF TypeOK, Tuned
<1>5. cache \in [Problems -> {Absent, Null} \cup Nat]
  BY <1>1 DEF TypeOK, Caches
<1>6. Many(a) => /\ Tuned(a) /\ cache[problem[a]] = Null
                 /\ results[a][k].sol \in 1..Solutions[problem[a]]
  BY <1>1 DEF SharedInv, ManyInv, WaitingInv, Plans
<1>7. \A q \in Problems : /\ Cached(q) => cache'[q] = cache[q] /\ Cached(q)'
                          /\ cache[q] # Absent => cache'[q] # Absent
                          /\ ~ (Many(a) /\ q = problem[a]) => cache'[q] = cache[q]
  <2> SUFFICES ASSUME NEW q \in Problems
               PROVE  /\ Cached(q) => cache'[q] = cache[q] /\ Cached(q)'
                      /\ cache[q] # Absent => cache'[q] # Absent
                      /\ ~ (Many(a) /\ q = problem[a]) => cache'[q] = cache[q]
    OBVIOUS
  <2>1. Many(a) => results[a][k].sol \in Nat
    BY <1>4, <1>6
  <2> QED BY <2>1, <1>4, <1>5, <1>6 DEF Cached, Many
<1>8. Tuned(a) => \/ results[a][k].sol = cache'[problem[a]] /\ Cached(problem[a])'
                  \/ Solutions[problem[a]] = 1 /\ results[a][k].sol = 1
  <2>1. CASE Len(results[a]) = 1 /\ cache' = cache
    <3>1. k = 1
      BY <2>1, <1>1 DEF TypeOK
    <3> QED BY <2>1, <3>1, <1>1 DEF SharedInv, SingleInv, Right, Cached
  <2>2. CASE Many(a) /\ cache' = [cache EXCEPT ![problem[a]] = results[a][k].sol]
    <3>1. cache'[problem[a]] = results[a][k].sol
      BY <2>2, <1>4, <1>5, <1>6
    <3>2. results[a][k].sol \in Nat
      BY <2>2, <1>4, <1>6
    <3> QED BY <3>1, <3>2, <1>4 DEF Cached
  <2> QED BY <2>1, <2>2
<1>9. ManyInv'
  BY <1>1, <1>3, <1>4, <1>7 DEF SharedInv, ManyInv
<1>10. OneManyInv'
  BY <1>1, <1>3 DEF SharedInv, OneManyInv
<1>11. WaitingInv'
  <2> SUFFICES ASSUME pc' = "replace", at' = at + 1, NEW p \in cps, Many(p), p >= at'
               PROVE  cache'[problem[p]] = Null
    BY <1>2, <1>3 DEF WaitingInv, Active
  <2>0. p >= at /\ p # a
    BY <1>2
  <2>1. Tuned(p) /\ cache[problem[p]] = Null
    BY <2>0, <1>1, <1>2 DEF SharedInv, ManyInv, WaitingInv
  <2>2. ~ (Many(a) /\ problem[p] = problem[a])
    BY <2>0, <1>1, <1>2 DEF SharedInv, OneManyInv
  <2> QED BY <2>1, <2>2, <1>2, <1>4, <1>7
<1>12. SingleInv'
  <2> SUFFICES ASSUME NEW p \in cps, Tuned(p), Len(results[p]) = 1
               PROVE  Right(p, results[p][1].sol)'
    BY <1>2, <1>3 DEF SingleInv
  <2>1. Right(p, results[p][1].sol)
    BY <1>1 DEF SharedInv, SingleInv
  <2> QED BY <2>1, <1>2, <1>4, <1>7 DEF Right
<1>13. CodeInv'
  <2> SUFFICES ASSUME NEW p \in Plans, Tuned(p), code'[p] # Precompile
               PROVE  \/ code'[p] = cache'[problem[p]] /\ Cached(problem[p])'
                      \/ Solutions[problem[p]] = 1 /\ code'[p] = 1
    BY <1>3 DEF CodeInv, Right
  <2>1. CASE p = a /\ code' # code
    BY <2>1, <1>1, <1>8 DEF TypeOK
  <2>2. CASE code'[p] = code[p]
    BY <2>2, <1>1, <1>4, <1>7 DEF SharedInv, CodeInv, Right
  <2> QED BY <2>1, <2>2, <1>1 DEF TypeOK
<1>14. FreshInv'
  BY DEF FreshInv
<1> QED BY <1>9, <1>10, <1>11, <1>12, <1>13, <1>14 DEF SharedInv

(* One step of the pass at a time.                                         *)
LEMMA NextShared == SharedInv /\ [Next]_compileVars => SharedInv'
<1> SUFFICES ASSUME SharedInv, [Next]_compileVars PROVE SharedInv'
  OBVIOUS
<1> USE OpsAssumption, SolutionsAssumption, NamesAssumption
<1>1. TypeOK
  BY DEF SharedInv
<1>2. CASE Apply
  <2>1. TypeOK'
    BY <1>1, <1>2 DEF Apply, TypeOK, Plans
  <2>2. /\ \A p \in Plans : results'[p] = <<>> /\ code'[p] = Precompile
        /\ pc' = "add" /\ cps' = Plans
    BY <1>2 DEF Apply
  <2>3. \A p \in Plans : ~ Many(p)'
    BY <2>2 DEF Many
  <2> QED BY <2>1, <2>2, <2>3 DEF SharedInv, ManyInv, OneManyInv, WaitingInv, SingleInv, CodeInv,
                                  FreshInv
<1>3. CASE AddUntuned
  <2> PICK a \in Plans : a = at
    BY <1>3 DEF AddUntuned
  <2>1. Adding(<<NoSolution>>) /\ cache' = cache /\ ~ Tuned(a)
    BY <1>3 DEF AddUntuned, Tuned
  <2>2. <<NoSolution>> \in Seq(Nat) /\ Len(<<NoSolution>>) = 1
    BY DEF NoSolution
  <2>3. cache' \in Caches
    BY <2>1, <1>1 DEF TypeOK
  <2>4. /\ \A q \in Problems : cache'[q] = cache[q]
        /\ ~ (Len(<<NoSolution>>) > 1)
    BY <2>1, <2>2
  <2> DEFINE sols == <<NoSolution>>
  <2> HIDE DEF sols
  <2>5. sols \in Seq(Nat) /\ Adding(sols) /\ ~ (Len(sols) > 1)
    BY <2>1, <2>2, <2>4 DEF sols
  <2> QED BY <2>1, <2>3, <2>4, <2>5, AddingShared
<1>4. CASE AddCached
  <2> PICK a \in Plans : a = at
    BY <1>4 DEF AddCached
  <2> PICK sol : sol = cache[problem[a]]
    OBVIOUS
  <2>1. /\ Adding(<<sol>>) /\ cache' = cache /\ problem[a] \in Problems
        /\ Cached(problem[a]) /\ problem' = problem
        /\ \A q \in Problems : cache'[q] = cache[q]
    BY <1>4, <1>1 DEF AddCached, Adding, TypeOK
  <2>2. sol \in Nat /\ cache' \in Caches
    BY <2>1, <1>1 DEF TypeOK, Caches, Cached
  <2>3. <<sol>> \in Seq(Nat) /\ Len(<<sol>>) = 1 /\ <<sol>>[1] = sol
    BY <2>2
  <2> DEFINE sols == <<sol>>
  <2>4. Right(a, sols[1])'
    BY <2>1, <2>3 DEF Right, Cached
  <2>5. sols \in Seq(Nat) /\ Adding(sols) /\ ~ (Len(sols) > 1)
    BY <2>1, <2>3
  <2> HIDE DEF sols
  <2> QED BY <2>1, <2>2, <2>4, <2>5, AddingShared
<1>5. CASE AddMarked
  <2> PICK a \in Plans : a = at
    BY <1>5 DEF AddMarked
  <2> DEFINE sols == <<>>
  <2>1. Adding(sols) /\ cache' = cache
    BY <1>5 DEF AddMarked
  <2>2. sols \in Seq(Nat) /\ Len(sols) = 0
    OBVIOUS
  <2>3. cache' \in Caches
    BY <2>1, <1>1 DEF TypeOK
  <2>4. \A q \in Problems : cache'[q] = cache[q]
    BY <2>1
  <2>5. ~ (Len(sols) > 1) /\ Len(sols) # 1
    BY <2>2
  <2> HIDE DEF sols
  <2> QED BY <2>1, <2>2, <2>3, <2>4, <2>5, AddingShared
<1>6. CASE AddNew
  <2> PICK a \in Plans : a = at
    BY <1>6 DEF AddNew
  <2> PICK n : n = Solutions[problem[a]]
    OBVIOUS
  <2> DEFINE sols == [k \in 1..n |-> k]
  <2>1. /\ Adding(sols) /\ problem[a] \in Problems /\ Tuned(a) /\ problem' = problem
        /\ cache' = [cache EXCEPT ![problem[a]] = Null] /\ cache[problem[a]] = Absent
    BY <1>6, <1>1 DEF AddNew, Adding, TypeOK, Tuned
  <2>2. n \in Nat
    BY <2>1
  <2>3. /\ sols \in Seq(Nat) /\ Len(sols) = n
        /\ \A k \in 1..Len(sols) : sols[k] = k
    BY <2>2
  <2>4. /\ cache' \in Caches /\ cache'[problem[a]] = Null
        /\ \A q \in Problems : q # problem[a] => cache'[q] = cache[q]
    BY <2>1, <1>1 DEF TypeOK, Caches
  <2>5. Len(sols) = 1 => Right(a, sols[1])'
    BY <2>1, <2>3 DEF Right
  <2>6. Len(sols) > 1 => \A k \in 1..Len(sols) : sols[k] \in 1..Solutions[problem[a]]
    BY <2>2, <2>3
  <2>7. \A q \in Problems : \/ cache'[q] = cache[q]
                            \/ q = problem[a] /\ cache[q] = Absent /\ cache'[q] = Null
    BY <2>1, <2>4
  <2> HIDE DEF sols
  <2>8. /\ Adding(sols) /\ cache' \in Caches /\ sols \in Seq(Nat)
        /\ Tuned(a) /\ cache[problem[a]] = Absent /\ cache'[problem[a]] = Null
    BY <2>1, <2>3, <2>4
  <2> QED BY <2>5, <2>6, <2>7, <2>8, AddingShared
<1>7. CASE AddThrows
  <2>1. cache' \in Caches
    BY <1>7, <1>1 DEF AddThrows, TypeOK, Caches
  <2>2. TypeOK'
    BY <2>1, <1>7, <1>1 DEF AddThrows, TypeOK
  <2>3. ~ Active' /\ ~ InModule'
    BY <1>7 DEF AddThrows, Active, InModule
  <2> QED BY <2>2, <2>3, <1>7, QuietShared DEF AddThrows, SameSolutions
<1>8. CASE Skip
  <2>1. at' \in 1..(Ops + 1) /\ at' >= at
    BY <1>8 DEF Skip, Plans
  <2>2. TypeOK'
    BY <2>1, <1>8, <1>1 DEF Skip, TypeOK
  <2> QED BY <2>1, <2>2, <1>8, QuietShared DEF Skip, SameSolutions, Active, InModule
<1>9. CASE StartCompiles
  <2>1. TypeOK'
    BY <1>9, <1>1 DEF StartCompiles, TypeOK
  <2> QED BY <2>1, <1>9, QuietShared DEF StartCompiles, SameSolutions, Active, InModule
<1>10. ASSUME NEW p \in Plans, NEW k \in DOMAIN results[p], Compile(p, k) PROVE SharedInv'
  <2>1. TypeOK' /\ SameSolutions
    BY <1>1, <1>10, CompileSolutions
  <2> QED BY <2>1, <1>10, QuietShared DEF Compile, Active, InModule
<1>11. CASE JoinCompiles
  <2>1. at' \in 1..(Ops + 1)
    BY <1>11 DEF JoinCompiles
  <2>2. TypeOK'
    BY <2>1, <1>11, <1>1 DEF JoinCompiles, TypeOK
  <2> QED BY <2>2, <1>11, QuietShared DEF JoinCompiles, SameSolutions, Active, InModule
<1>12. CASE ReplaceSingle
  <2> PICK a \in Plans : a = at /\ a \in cps
    BY <1>12, <1>1 DEF ReplaceSingle, Replacing, TypeOK
  <2>1. /\ Len(results[a]) = 1 /\ 1 \in DOMAIN results[a] /\ results[a][1].sol \in Nat
        /\ pc = "replace"
    <3>1. results[a] \in Seq([sol : Nat, out : Outcomes]) /\ Len(results[a]) = 1
      BY <1>12, <1>1 DEF ReplaceSingle, TypeOK
    <3>2. results[a][1] \in [sol : Nat, out : Outcomes] /\ 1 \in DOMAIN results[a]
      <4> DEFINE S == [sol : Nat, out : Outcomes]
      <4>1. results[a] \in Seq(S) /\ 1 \in DOMAIN results[a]
        BY <3>1
      <4> HIDE DEF S
      <4>2. results[a][1] \in S
        BY <4>1, Element
      <4> QED BY <4>1, <4>2 DEF S
    <3> QED BY <3>1, <3>2, <1>12 DEF ReplaceSingle, Replacing
  <2>2. \/ pc' = "thrown" /\ code' = code /\ at' = at
        \/ pc' = "replace" /\ at' = at + 1 /\ code' = [code EXCEPT ![a] = results[a][1].sol]
    BY <2>1, <1>12 DEF ReplaceSingle, Throw, Use
  <2>3. UNCHANGED <<problem, cache, file, turn, cps, results, modules, before>>
    BY <1>12 DEF ReplaceSingle
  <2>4. at' \in 1..(Ops + 1)
    BY <2>2, <1>1 DEF TypeOK, Plans
  <2>5. TypeOK'
    BY <2>1, <2>2, <2>3, <2>4, <1>1 DEF TypeOK
  <2> QED BY <2>1, <2>2, <2>3, <2>5, ReplacingShared
<1>13. CASE Benchmark
  <2> PICK a \in Plans : a = at /\ a \in cps
    BY <1>13, <1>1 DEF Benchmark, Replacing, TypeOK
  <2>1. Many(a) /\ 1 \in DOMAIN results[a] /\ pc = "replace"
    BY <1>13, <1>1 DEF Benchmark, Replacing, TypeOK, Many
  <2>2. PICK k \in DOMAIN results[a] :
          /\ cache' = [cache EXCEPT ![problem[a]] = results[a][k].sol]
          /\ \/ pc' = "thrown" /\ code' = code /\ at' = at
             \/ pc' = "replace" /\ at' = at + 1 /\ code' = [code EXCEPT ![a] = results[a][k].sol]
    BY <2>1, <1>13 DEF Benchmark, Throw, Use, Binaries
  <2>3. UNCHANGED <<problem, file, turn, cps, results, modules, before>>
    BY <1>13 DEF Benchmark
  <2>4. /\ problem[a] \in Problems /\ results[a][k].sol \in 1..Solutions[problem[a]]
        /\ results[a][k].sol \in Nat
    BY <2>1, <1>1 DEF SharedInv, ManyInv, TypeOK, Tuned
  <2>5. cache' \in Caches
    BY <2>2, <2>4, <1>1 DEF TypeOK, Caches
  <2>6. at' \in 1..(Ops + 1)
    BY <2>2, <1>1 DEF TypeOK, Plans
  <2>7. TypeOK'
    BY <2>2, <2>3, <2>4, <2>5, <2>6, <1>1 DEF TypeOK
  <2> QED BY <2>1, <2>2, <2>3, <2>7, ReplacingShared
<1>14. CASE EndTurn
  <2>1. cps' = {p \in cps : results[p] = <<>>} /\ results' = results
    BY <1>14 DEF EndTurn
  <2>2. at' \in 1..(Ops + 1)
    BY <1>14, <1>1 DEF EndTurn, TypeOK
  <2>3. TypeOK'
    BY <2>1, <2>2, <1>14, <1>1 DEF EndTurn, TypeOK
  <2> QED BY <2>1, <2>3, <1>14, QuietShared DEF EndTurn, SameSolutions, Active, InModule
<1>15. CASE NextModule
  <2>1. TypeOK'
    BY <1>15, <1>1 DEF NextModule, TypeOK
  <2> QED BY <2>1, <1>15, QuietShared DEF NextModule, SameSolutions, Active, InModule
<1>16. CASE NextProgram
  <2>1. TypeOK'
    BY <1>16, <1>1 DEF NextProgram, TypeOK
  <2> QED BY <2>1, <1>16, QuietShared DEF NextProgram, SameSolutions, Active, InModule
<1>17. CASE Crash
  <2>1. TypeOK'
    BY <1>17, <1>1 DEF Crash, TypeOK
  <2> QED BY <2>1, <1>17, QuietShared DEF Crash, SameSolutions, Active, InModule
<1>18. CASE UNCHANGED compileVars
  <2>1. TypeOK'
    BY <1>18, <1>1 DEF compileVars, TypeOK
  <2>2. at \in Nat
    BY <1>1 DEF TypeOK
  <2> QED BY <2>1, <2>2, <1>18, QuietShared DEF compileVars, SameSolutions, Active, InModule
<1> QED
  BY <1>2, <1>3, <1>4, <1>5, <1>6, <1>7, <1>8, <1>9, <1>10, <1>11, <1>12, <1>13, <1>14, <1>15,
     <1>16, <1>17, <1>18 DEF Next, Pass

(* Nothing else is needed for what the ops of a module share.              *)
LEMMA SharedHolds == Spec => []SharedInv
BY InitShared, NextShared, PTL DEF Spec

-----------------------------------------------------------------------------
(***************************************************************************)
(* Ops with the same problem get the same solution, whichever of them is   *)
(* benchmarked and in which turn the others are compiled.                  *)
(***************************************************************************)
THEOREM OneSolutionPerProblem == Spec => []SameProblemSameCode
<1>1. SharedInv => SameProblemSameCode
  <2> SUFFICES ASSUME SharedInv, NEW p \in Plans, NEW r \in Plans, pc = "done",
                      problem[p] = problem[r], Tuned(p),
                      code[p] # Precompile, code[r] # Precompile
               PROVE  code[p] = code[r]
    BY DEF SameProblemSameCode, Tuned
  <2>1. Right(p, code[p]) /\ Right(r, code[r])
    BY DEF SharedInv, CodeInv, InModule, Tuned
  <2>2. problem[p] \in Problems /\ cache \in Caches
    BY DEF SharedInv, TypeOK, Tuned
  <2>3. Cached(problem[p]) => cache[problem[p]] \in 1..Solutions[problem[p]]
    BY <2>2 DEF Caches, Cached
  <2>4. Solutions[problem[p]] = 1 => (Cached(problem[p]) => cache[problem[p]] = 1)
    BY <2>3
  <2> QED BY <2>1, <2>4 DEF Right
<1> QED BY <1>1, SharedHolds, PTL

(***************************************************************************)
(* Of the plans of a module, one at most has all solutions of a problem    *)
(* compiled: a problem is benchmarked once.                                *)
(***************************************************************************)
THEOREM OneBenchmark == Spec => []BenchmarkedOnce
<1>1. SharedInv => BenchmarkedOnce
  <2> SUFFICES ASSUME SharedInv, NEW p \in Plans, NEW r \in Plans,
                      pc \in {"compile", "replace"}, p # r, problem[p] = problem[r]
               PROVE  Len(results[p]) <= 1 \/ Len(results[r]) <= 1
    BY DEF BenchmarkedOnce
  <2>1. ~ Many(p) \/ ~ Many(r)
    BY DEF SharedInv, OneManyInv, InModule, Active
  <2>2. Len(results[p]) \in Nat /\ Len(results[r]) \in Nat
    BY DEF SharedInv, TypeOK
  <2> QED BY <2>1, <2>2 DEF Many
<1> QED BY <1>1, SharedHolds, PTL

(***************************************************************************)
(* A solution stays in the cache through modules and programs, until the   *)
(* process ends without saving it.                                         *)
(***************************************************************************)
THEOREM SolutionsAreKept == Spec => SolutionsStay
<1> DEFINE Kept == \A q \in Problems : Cached(q) => cache'[q] \in {cache[q], file[q]}
<1>1. SharedInv /\ [Next]_compileVars => [Kept]_compileVars
  <2> SUFFICES ASSUME SharedInv, Next, NEW q \in Problems, Cached(q)
               PROVE  cache'[q] \in {cache[q], file[q]}
    OBVIOUS
  <2>1. cache \in [Problems -> {Absent, Null} \cup Nat]
    BY DEF SharedInv, TypeOK, Caches
  <2>2. CASE AddNew \/ AddThrows
    BY <2>1, <2>2 DEF AddNew, AddThrows, Cached
  <2>3. CASE Benchmark
    <3>1. PICK a \in Plans : a = at /\ a \in cps
      BY <2>3 DEF Benchmark, Replacing, SharedInv, TypeOK
    <3>2. Many(a) /\ pc = "replace"
      BY <3>1, <2>3 DEF Benchmark, Replacing, Many
    <3>3. cache[problem[a]] = Null
      BY <3>1, <3>2 DEF SharedInv, WaitingInv, Active, Plans
    <3> QED BY <3>1, <3>3, <2>1, <2>3 DEF Benchmark, Cached
  <2>4. CASE Crash
    BY <2>4 DEF Crash
  <2>5. CASE cache' = cache
    BY <2>5
  <2> QED
    BY <2>2, <2>3, <2>4, <2>5
       DEF Next, Pass, Apply, AddUntuned, AddCached, AddMarked, Skip, StartCompiles, Compile,
           JoinCompiles, ReplaceSingle, EndTurn, NextModule, NextProgram
<1> QED BY <1>1, SharedHolds, PTL DEF Spec, SolutionsStay

-----------------------------------------------------------------------------
(* Where every config has two solutions or none, a mark is made for a      *)
(* benchmark of the same turn.                                             *)
LEMMA InitTurns == Init => TurnsInv
BY InitShared DEF Init, TurnsInv, MarkInv, EmptyInv, SecondInv, LeftInv, Active, InModule

(* Adding the compiles of a plan, with no single result that is marked.    *)
LEMMA AddingTurns ==
  ASSUME TurnsInv, NEW sols \in Seq(Nat), NEW a \in Plans, a = at, Adding(sols),
         \A q \in Problems :
           \/ cache'[q] = cache[q]
           \/ q = problem[a] /\ cache[q] = Absent /\ cache'[q] = Null /\ Len(sols) > 1,
         Len(sols) > 1 => Tuned(a) /\ cache[problem[a]] = Absent,
         sols = <<>> => Tuned(a) /\ cache[problem[a]] = Null
  PROVE  MarkInv' /\ EmptyInv' /\ SecondInv' /\ LeftInv'
<1> USE NamesAssumption
<1>1. /\ TypeOK /\ pc = "add" /\ pc' = "add" /\ a \in cps /\ at' = at + 1 /\ turn' = turn
      /\ problem' = problem /\ code' = code /\ cps' = cps /\ before' = before
  BY DEF TurnsInv, SharedInv, Adding
<1>2. /\ results' \in [Plans -> Seq([sol : Nat, out : Outcomes])]
      /\ Len(results'[a]) = Len(sols)
      /\ \A p \in Plans : p # a => results'[p] = results[p]
  BY <1>1, AddingType
<1>3. cps \subseteq Plans /\ Plans \subseteq Nat
  BY <1>1 DEF TypeOK, Plans
<1>4. results[a] = <<>>
  BY <1>1, <1>3 DEF TurnsInv, SharedInv, FreshInv
<1>5. \A p \in Plans : Tuned(p)' <=> Tuned(p)
  BY <1>1 DEF Tuned
<1>6. \A p \in Plans : Tuned(p) => problem[p] \in Problems
  BY <1>1 DEF TypeOK, Tuned
<1>7. \A q \in Problems : /\ cache[q] = Null => cache'[q] = Null
                          /\ cache[q] # Absent => cache'[q] # Absent
  OBVIOUS
<1>8. Active /\ InModule /\ pc # "replace" /\ pc # "done"
  BY <1>1 DEF Active, InModule
<1>9. MarkInv'
  <2> SUFFICES ASSUME NEW q \in Problems, cache'[q] = Null PROVE before[q] = Null \/ Pending(q)'
    BY <1>1 DEF MarkInv
  <2>1. CASE cache[q] = Null
    <3>1. before[q] = Null \/ Pending(q)
      BY <2>1, <1>8 DEF TurnsInv, MarkInv
    <3>2. ASSUME NEW r \in cps, Many(r), problem[r] = q PROVE Pending(q)'
      <4>1. r # a
        BY <3>2, <1>4 DEF Many
      <4>2. results'[r] = results[r]
        BY <4>1, <1>2, <1>3
      <4> QED BY <3>2, <4>2, <1>1 DEF Pending, Many
    <3> QED BY <3>1, <3>2 DEF Pending
  <2>2. CASE cache[q] # Null
    BY <2>2, <1>1, <1>2 DEF Pending, Many
  <2> QED BY <2>1, <2>2
<1>10. EmptyInv'
  <2> SUFFICES ASSUME NEW p \in cps, results'[p] = <<>>, turn = 2 \/ p < at + 1
               PROVE  /\ Tuned(p) /\ cache'[problem[p]] # Absent
                      /\ turn = 2 /\ p < at + 1 => cache'[problem[p]] = Null
    BY <1>1, <1>3, <1>5 DEF EmptyInv
  <2>1. CASE p = a
    <3>1. sols = <<>>
      BY <2>1, <1>2
    <3> QED BY <3>1, <2>1, <1>6, <1>7
  <2>2. CASE p # a
    <3>1. results[p] = <<>> /\ (p < at + 1 => p < at)
      BY <2>2, <1>2, <1>3
    <3>2. /\ Tuned(p) /\ cache[problem[p]] # Absent
          /\ turn = 2 /\ p < at => cache[problem[p]] = Null
      BY <3>1, <1>1, <1>8 DEF TurnsInv, EmptyInv
    <3> QED BY <3>1, <3>2, <1>3, <1>6, <1>7
  <2> QED BY <2>1, <2>2
<1>11. SecondInv'
  <2> SUFFICES ASSUME turn = 2, NEW p \in cps PROVE ~ (Len(results'[p]) > 1)
    BY <1>1 DEF SecondInv, Many
  <2>1. CASE p = a
    <3>1. cache[problem[a]] # Absent
      BY <1>1, <1>4, <1>8 DEF TurnsInv, EmptyInv
    <3> QED BY <2>1, <3>1, <1>2
  <2>2. CASE p # a
    BY <2>2, <1>2, <1>3, <1>8 DEF TurnsInv, SecondInv, Many
  <2> QED BY <2>1, <2>2
<1>12. LeftInv'
  BY <1>1, <1>8 DEF TurnsInv, LeftInv, InModule, Active
<1> QED BY <1>9, <1>10, <1>11, <1>12

(* Steps out of a module.                                                  *)
LEMMA LeavingTurns ==
  ASSUME pc' \in {"idle", "thrown"}
  PROVE  MarkInv' /\ EmptyInv' /\ SecondInv' /\ LeftInv'
BY DEF MarkInv, EmptyInv, SecondInv, LeftInv, Active, InModule

(* One step of the pass at a time.                                         *)
LEMMA NextTurns ==
  ASSUME \A q \in Problems : Solutions[q] # 1, TurnsInv, [Next]_compileVars
  PROVE  TurnsInv'
<1> USE OpsAssumption, SolutionsAssumption, NamesAssumption
<1>1. SharedInv'
  BY NextShared DEF TurnsInv
<1> SUFFICES MarkInv' /\ EmptyInv' /\ SecondInv' /\ LeftInv'
  BY <1>1 DEF TurnsInv
<1>2. TypeOK /\ cps \subseteq Plans /\ Plans \subseteq Nat /\ at \in Nat
  <2>1. TypeOK
    BY DEF TurnsInv, SharedInv
  <2>2. at \in 1..(Ops + 1) /\ cps \subseteq Plans
    BY <2>1 DEF TypeOK
  <2> QED BY <2>1, <2>2 DEF Plans
<1>3. CASE Apply
  <2>1. /\ pc' = "add" /\ turn' = 1 /\ at' = 1 /\ cps' = Plans /\ cache' = cache /\ before' = cache
        /\ \A p \in Plans : results'[p] = <<>>
    BY <1>3 DEF Apply
  <2>2. MarkInv'
    BY <2>1 DEF MarkInv
  <2>3. EmptyInv'
    <3> SUFFICES ASSUME NEW p \in Plans, p < 1 PROVE FALSE
      BY <2>1 DEF EmptyInv
    <3> QED BY DEF Plans
  <2>4. SecondInv' /\ LeftInv'
    BY <2>1 DEF SecondInv, LeftInv
  <2> QED BY <2>2, <2>3, <2>4
<1>4. CASE AddUntuned
  <2> PICK a \in Plans : a = at
    BY <1>4 DEF AddUntuned
  <2> DEFINE sols == <<NoSolution>>
  <2>1. Adding(sols) /\ sols \in Seq(Nat) /\ ~ (Len(sols) > 1) /\ sols # <<>>
    BY <1>4 DEF AddUntuned, NoSolution
  <2>2. \A q \in Problems : cache'[q] = cache[q]
    BY <1>4 DEF AddUntuned
  <2> HIDE DEF sols
  <2> QED BY <2>1, <2>2, AddingTurns
<1>5. CASE AddCached
  <2> PICK a \in Plans : a = at
    BY <1>5 DEF AddCached
  <2> PICK sol : sol = cache[problem[a]]
    OBVIOUS
  <2> DEFINE sols == <<sol>>
  <2>1. problem[a] \in Problems /\ Cached(problem[a])
    BY <1>5, <1>2 DEF AddCached, TypeOK
  <2>2. sol \in Nat
    BY <2>1, <1>2 DEF TypeOK, Caches, Cached
  <2>3. Adding(sols) /\ sols \in Seq(Nat) /\ ~ (Len(sols) > 1) /\ sols # <<>>
    BY <2>2, <1>5 DEF AddCached
  <2>4. \A q \in Problems : cache'[q] = cache[q]
    BY <1>5 DEF AddCached
  <2> HIDE DEF sols
  <2> QED BY <2>3, <2>4, AddingTurns
<1>6. CASE AddMarked
  <2> PICK a \in Plans : a = at
    BY <1>6 DEF AddMarked
  <2> DEFINE sols == <<>>
  <2>1. Adding(sols) /\ sols \in Seq(Nat) /\ ~ (Len(sols) > 1)
    BY <1>6 DEF AddMarked
  <2>2. Tuned(a) /\ cache[problem[a]] = Null /\ \A q \in Problems : cache'[q] = cache[q]
    BY <1>6 DEF AddMarked, Tuned
  <2> HIDE DEF sols
  <2> QED BY <2>1, <2>2, AddingTurns
<1>7. CASE AddNew
  <2> PICK a \in Plans : a = at
    BY <1>7 DEF AddNew
  <2> PICK n : n = Solutions[problem[a]]
    OBVIOUS
  <2> DEFINE sols == [k \in 1..n |-> k]
  <2>1. /\ Adding(sols) /\ problem[a] \in Problems /\ Tuned(a)
        /\ cache' = [cache EXCEPT ![problem[a]] = Null] /\ cache[problem[a]] = Absent
    BY <1>7, <1>2 DEF AddNew, TypeOK, Tuned
  <2>2. n \in Nat /\ n > 1
    BY <2>1, <1>7 DEF AddNew
  <2>3. sols \in Seq(Nat) /\ Len(sols) > 1
    BY <2>2
  <2>4. /\ cache'[problem[a]] = Null
        /\ \A q \in Problems : q # problem[a] => cache'[q] = cache[q]
    BY <2>1, <1>2 DEF TypeOK, Caches
  <2> HIDE DEF sols
  <2>5. \A q \in Problems :
          \/ cache'[q] = cache[q]
          \/ q = problem[a] /\ cache[q] = Absent /\ cache'[q] = Null /\ Len(sols) > 1
    BY <2>1, <2>3, <2>4
  <2>6. sols # <<>>
    BY <2>3
  <2> QED BY <2>1, <2>3, <2>5, <2>6, AddingTurns
<1>8. CASE AddThrows \/ NextModule \/ NextProgram \/ Crash
  BY <1>8, LeavingTurns DEF AddThrows, NextModule, NextProgram, Crash
<1>9. CASE Skip
  <2>1. /\ UNCHANGED <<problem, cache, turn, cps, results, code, before, pc>>
        /\ at' = at + 1 /\ Active
    BY <1>9 DEF Skip, Active
  <2>2. at \in cps => pc = "replace" /\ results[at] = <<>>
    BY <1>9 DEF Skip
  <2>0. \A p \in cps : p < at' /\ ~ (p < at) => p = at
    BY <2>1, <1>2
  <2>3. MarkInv'
    BY <2>0, <2>1, <2>2, <1>2 DEF TurnsInv, MarkInv, Pending, Many, Active
  <2>4. EmptyInv'
    BY <2>0, <2>1, <2>2, <1>2 DEF TurnsInv, EmptyInv, Tuned, Active
  <2>5. SecondInv'
    BY <2>1 DEF TurnsInv, SecondInv, Many, Active
  <2>6. LeftInv'
    BY <2>0, <2>1, <2>2, <1>2 DEF TurnsInv, LeftInv, InModule, Active, Tuned
  <2> QED BY <2>3, <2>4, <2>5, <2>6
<1>10. CASE StartCompiles
  <2>1. /\ UNCHANGED <<problem, cache, turn, cps, results, code, before, at>>
        /\ at = Ops + 1 /\ pc = "add" /\ pc' = "compile"
    BY <1>10 DEF StartCompiles
  <2>2. \A p \in cps : p < at
    BY <2>1, <1>2 DEF Plans
  <2>3. MarkInv'
    BY <2>1 DEF TurnsInv, MarkInv, Pending, Many, Active
  <2>4. EmptyInv'
    BY <2>1, <2>2 DEF TurnsInv, EmptyInv, Tuned, Active
  <2>5. SecondInv' /\ LeftInv'
    BY <2>1 DEF TurnsInv, SecondInv, LeftInv, Many, InModule, Active
  <2> QED BY <2>3, <2>4, <2>5
<1>11. ASSUME NEW p \in Plans, NEW k \in DOMAIN results[p], Compile(p, k)
      PROVE  MarkInv' /\ EmptyInv' /\ SecondInv' /\ LeftInv'
  <2>1. /\ UNCHANGED <<problem, cache, turn, cps, code, before, at, pc>> /\ pc = "compile"
        /\ \A r \in Plans : Len(results'[r]) = Len(results[r]) /\ (results'[r] = <<>> <=> results[r] = <<>>)
    BY <1>2, <1>11, CompileSolutions DEF Compile, SameSolutions
  <2>2. MarkInv'
    BY <2>1, <1>2 DEF TurnsInv, MarkInv, Pending, Many, Active
  <2>3. EmptyInv'
    BY <2>1, <1>2 DEF TurnsInv, EmptyInv, Tuned, Active
  <2>4. SecondInv' /\ LeftInv'
    BY <2>1, <1>2 DEF TurnsInv, SecondInv, LeftInv, Many, InModule, Active
  <2> QED BY <2>2, <2>3, <2>4
<1>12. CASE JoinCompiles
  <2>1. /\ UNCHANGED <<problem, cache, turn, cps, results, code, before>>
        /\ at' = 1 /\ pc = "compile" /\ pc' = "replace"
    BY <1>12 DEF JoinCompiles
  <2>2. \A p \in cps : p >= 1
    BY <1>2 DEF Plans
  <2>3. MarkInv'
    BY <2>1, <2>2 DEF TurnsInv, MarkInv, Pending, Many, Active
  <2>4. EmptyInv'
    BY <2>1 DEF TurnsInv, EmptyInv, Tuned, Active
  <2>5. SecondInv'
    BY <2>1 DEF TurnsInv, SecondInv, Many, Active
  <2>6. LeftInv'
    <3>1. \A p \in cps : ~ (p < at')
      BY <2>1, <2>2, <1>2
    <3> QED BY <2>1, <3>1 DEF TurnsInv, LeftInv, InModule, Active
  <2> QED BY <2>3, <2>4, <2>5, <2>6
<1>13. CASE ReplaceSingle \/ Benchmark
  <2>1. /\ UNCHANGED <<problem, turn, cps, results, before>> /\ Active
        /\ pc = "replace" /\ at \in cps /\ results[at] # <<>>
    BY <1>13 DEF ReplaceSingle, Benchmark, Replacing, Active
  <2> PICK a \in cps : a = at
    BY <2>1
  <2>2. CASE pc' = "thrown"
    BY <2>2, LeavingTurns
  <2>3. CASE pc' # "thrown"
    <3>1. PICK k \in DOMAIN results[a] :
            /\ pc' = "replace" /\ at' = at + 1
            /\ code' = [code EXCEPT ![a] = results[a][k].sol]
            /\ \/ cache' = cache /\ ~ Many(a)
               \/ Many(a) /\ cache' = [cache EXCEPT ![problem[a]] = results[a][k].sol]
      <4>1. results[a] \in Seq([sol : Nat, out : Outcomes])
        BY <1>2 DEF TypeOK
      <4>2. CASE ReplaceSingle
        <5>1. 1 \in DOMAIN results[a] /\ ~ Many(a)
          BY <4>1, <4>2 DEF ReplaceSingle, Many
        <5> QED BY <5>1, <4>2, <2>1, <2>3 DEF ReplaceSingle, Use, Throw
      <4>3. CASE Benchmark
        BY <4>3, <2>1, <2>3 DEF Benchmark, Use, Throw, Binaries, Many
      <4> QED BY <4>2, <4>3, <1>13
    <3>2. results[a][k].sol \in Nat
      <4>1. results[a] \in Seq([sol : Nat, out : Outcomes])
        BY <1>2 DEF TypeOK
      <4>2. results[a][k] \in [sol : Nat, out : Outcomes]
        BY <4>1, Element
      <4> QED BY <4>2
    <3>3. Many(a) => problem[a] \in Problems
      BY <1>2 DEF TurnsInv, SharedInv, ManyInv, TypeOK, Tuned
    <3>4. \A q \in Problems : cache'[q] = cache[q] \/ (q = problem[a] /\ Many(a))
      BY <3>1, <1>2 DEF TypeOK, Caches
    <3>5. Many(a) => cache'[problem[a]] \in Nat
      BY <3>1, <3>2, <3>3, <1>2 DEF TypeOK, Caches
    <3>6. code'[a] # Precompile /\ \A p \in Plans : p # a => code'[p] = code[p]
      BY <3>1, <3>2, <1>2 DEF TypeOK
    <3>7. MarkInv'
      <4> SUFFICES ASSUME NEW q \in Problems, cache'[q] = Null PROVE before[q] = Null \/ Pending(q)'
        BY <2>1, <3>1 DEF MarkInv
      <4>1. cache[q] = Null /\ ~ (q = problem[a] /\ Many(a))
        BY <3>4, <3>5
      <4>2. before[q] = Null \/ Pending(q)
        BY <4>1, <2>1 DEF TurnsInv, MarkInv
      <4>3. ASSUME NEW r \in cps, Many(r), problem[r] = q, r >= at PROVE Pending(q)'
        <5>1. r # a /\ r >= at + 1
          <6>1. r # a
            BY <4>1, <4>3
          <6>2. r \in Nat /\ a \in Nat /\ r >= a
            BY <4>3, <1>2
          <6> QED BY <6>1, <6>2
        <5> QED BY <5>1, <4>3, <2>1, <3>1 DEF Pending, Many
      <4> QED BY <4>2, <4>3, <2>1 DEF Pending
    <3>8. turn = 2 => ~ Many(a)
      BY <2>1 DEF TurnsInv, SecondInv
    <3>9. EmptyInv'
      <4> SUFFICES ASSUME NEW p \in cps, results[p] = <<>>
                   PROVE  /\ Tuned(p) /\ cache'[problem[p]] # Absent
                          /\ turn = 2 => cache'[problem[p]] = Null
        BY <2>1, <3>1 DEF EmptyInv, Tuned
      <4>1. /\ Tuned(p) /\ cache[problem[p]] # Absent
            /\ turn = 2 => cache[problem[p]] = Null
        BY <2>1 DEF TurnsInv, EmptyInv
      <4>2. problem[p] \in Problems
        BY <4>1, <1>2 DEF TypeOK, Tuned
      <4> QED BY <4>1, <4>2, <3>4, <3>5, <3>8
    <3>10. SecondInv'
      BY <2>1, <3>1 DEF TurnsInv, SecondInv, Many
    <3>11. LeftInv'
      <4>1. \A p \in cps : p < at + 1 => p < at \/ p = a
        <5>1. \A p \in Nat : p < at + 1 => p < at \/ p = at
          BY <1>2
        <5> QED BY <5>1, <1>2
      <4>2. \A p \in Plans \ cps : code'[p] # Precompile
        BY <2>1, <3>6 DEF TurnsInv, LeftInv, InModule
      <4>3. \A p \in cps : p < at + 1 /\ results[p] # <<>> => code'[p] # Precompile
        BY <4>1, <2>1, <3>6, <1>2 DEF TurnsInv, LeftInv
      <4> QED BY <4>2, <4>3, <2>1, <3>1 DEF LeftInv
    <3> QED BY <3>7, <3>9, <3>10, <3>11
  <2> QED BY <2>2, <2>3
<1>14. CASE EndTurn
  <2>1. /\ UNCHANGED <<problem, cache, results, code, before>>
        /\ pc = "replace" /\ at = Ops + 1 /\ cps' = {p \in cps : results[p] = <<>>}
        /\ IF turn = 1 THEN turn' = 2 /\ pc' = "add" /\ at' = 1 ELSE turn' = turn /\ pc' = "done"
    BY <1>14 DEF EndTurn
  <2>2. Active /\ InModule /\ \A p \in cps : p < at /\ ~ (p >= at)
    BY <2>1, <1>2 DEF Active, InModule, Plans
  <2>3. \A q \in Problems : cache[q] = Null => before[q] = Null
    BY <2>1, <2>2 DEF TurnsInv, MarkInv, Pending
  <2>4. \A p \in cps' : /\ p \in cps /\ results[p] = <<>> /\ Tuned(p) /\ ~ Many(p)
                        /\ cache[problem[p]] # Absent
                        /\ turn = 2 => cache[problem[p]] = Null
    BY <2>1, <2>2 DEF TurnsInv, EmptyInv, Many
  <2>5. MarkInv'
    BY <2>1, <2>3 DEF MarkInv
  <2>6. EmptyInv'
    <3> SUFFICES ASSUME pc' = "add", NEW p \in cps'
                 PROVE  /\ Tuned(p) /\ cache[problem[p]] # Absent /\ ~ (p < at')
      BY <2>1 DEF EmptyInv, Active, Tuned
    <3> QED BY <2>1, <2>4, <1>2 DEF Plans
  <2>7. SecondInv'
    BY <2>1, <2>4 DEF SecondInv, Many
  <2>8. \A p \in Plans \ cps' : code[p] # Precompile
    BY <2>1, <2>2 DEF TurnsInv, LeftInv
  <2>9. LeftInv'
    BY <2>1, <2>4, <2>8, <1>2 DEF LeftInv, Tuned, TypeOK
  <2> QED BY <2>5, <2>6, <2>7, <2>9
<1>15. CASE UNCHANGED compileVars
  BY <1>15 DEF compileVars, TurnsInv, MarkInv, EmptyInv, SecondInv, LeftInv, Pending, Many, Tuned,
               Active, InModule
<1> QED
  BY <1>3, <1>4, <1>5, <1>6, <1>7, <1>8, <1>9, <1>10, <1>11, <1>12, <1>13, <1>14, <1>15
     DEF Next, Pass

(***************************************************************************)
(* Where no config has a single solution, what is left after the two turns *)
(* was marked before the module was begun.                                 *)
(***************************************************************************)
THEOREM OnlyMarksLeave ==
  ASSUME \A q \in Problems : Solutions[q] # 1
  PROVE  Spec => []OnlyMarkedLeft
<1>1. TurnsInv => OnlyMarkedLeft
  <2> SUFFICES ASSUME TurnsInv, pc = "done", NEW p \in Plans, code[p] = Precompile
               PROVE  problem[p] # Untuned /\ before[problem[p]] = Null
    BY DEF OnlyMarkedLeft
  <2>1. p \in cps /\ Tuned(p) /\ cache[problem[p]] = Null
    BY DEF TurnsInv, LeftInv, InModule
  <2>2. problem[p] \in Problems
    BY <2>1 DEF TurnsInv, SharedInv, TypeOK, Tuned
  <2> QED BY <2>1, <2>2 DEF TurnsInv, MarkInv, Tuned
<1>2. TurnsInv /\ [Next]_compileVars => TurnsInv'
  BY NextTurns
<1> QED BY <1>1, <1>2, InitTurns, PTL DEF Spec
=============================================================================

---------------------------- MODULE ProgramOrder ----------------------------
(***************************************************************************)
(* Values computed for the instructions 1..n of a module one after the     *)
(* other, each from those before it, as a loop over the module does.       *)
(***************************************************************************)
EXTENDS Integers, Sequences, SequencesExt

(* What f gives 1, 2, ..., n in turn, f(acc, i) from acc[1], ..., acc[i-1]. *)
InOrder(f(_, _), n) ==
  LET first[i \in 0..n] ==
        IF i = 0 THEN <<>> ELSE LET acc == first[i - 1] IN Append(acc, f(acc, i))
  IN first[n]

(* The sum of w[i] over the i of 1..n that are in S. *)
SumIn(w, S, n) ==
  LET sum[i \in 0..n] == IF i = 0 THEN 0 ELSE sum[i - 1] + (IF i \in S THEN w[i] ELSE 0)
  IN sum[n]
=============================================================================

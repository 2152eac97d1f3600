---------------------------- MODULE ReshapeLazy ----------------------------
(***************************************************************************)
(* The operator reshape_lazy: another shape for the same memory, found by  *)
(* walking over the dimensions of the input and of the result together     *)
(* (static_compute_shape, reshape_lazy_dims).  The gpu and cpu targets     *)
(* lower reshape to it behind a contiguous, which eliminate_contiguous     *)
(* drops whenever a shape comes out.                                       *)
(***************************************************************************)
EXTENDS Shape

CONSTANTS
  Reshapes,  \* what is asked for: [input, dims]
  NoShape    \* nullopt, or an exception

VARIABLES
  input,     \* the shape of the input
  rdims,     \* the dimensions of the result
  i, r,      \* counted from 0
  rstrides,
  result     \* << >> while at work, then <<shape>> or <<NoShape>>

vars == <<input, rdims, i, r, rstrides, result>>

idims    == input.lens
istrides == input.strides

(* 0 keeps a dimension, -1 stands for what is missing. *)
ResultDims(s, dims) ==
  LET known == [k \in DOMAIN dims |-> IF dims[k] = 0 THEN s.lens[k]
                                      ELSE IF dims[k] = -1 THEN 1 ELSE dims[k]]
  IN [k \in DOMAIN dims |-> IF dims[k] = -1 THEN Elements(s) \div Product(known) ELSE known[k]]

Init ==
  \E q \in Reshapes :
    /\ input = q.input /\ rdims = ResultDims(q.input, q.dims)
    /\ i = 0 /\ r = 0 /\ rstrides = << >> /\ result = << >>

(* compute_end_dim: how many dimensions from the one at `from' make dim,   *)
(* 0 when none or the first alone does.  (The callers take the one they    *)
(* start at for none.)                                                     *)
EndDim(dims, from, dim) ==
  LET ends == {n \in 1..(Len(dims) - from) : Product(SubSeq(dims, from + 1, from + n)) >= dim}
      n    == CHOOSE e \in ends : \A o \in ends : e <= o
  IN IF ends = {} \/ Product(SubSeq(dims, from + 1, from + n)) # dim THEN 0 ELSE n - 1

(* try_merge_pairs: an outer dimension and what is merged within it *)
Mergeable(outer, inner) ==
  /\ inner.stride <= outer.stride
  /\ IF inner.stride = 0 THEN outer.stride = 0
     ELSE /\ outer.stride % inner.stride = 0
          /\ (outer.stride * outer.dim + inner.stride * inner.dim - outer.stride)
                \div inner.stride = outer.dim * inner.dim

(* can_strides_merge of the n + 1 dimensions of the input from i *)
CanMerge(n) ==
  \A k \in (i + 1)..(i + n) :
    Mergeable([dim |-> idims[k], stride |-> istrides[k]],
              [dim |-> Product(SubSeq(idims, k + 1, i + n + 1)), stride |-> istrides[i + n + 1]])

AtWork == result = << >>
More   == i < Len(idims) /\ r < Len(rdims)

Return(s) == result' = <<s>> /\ UNCHANGED <<input, rdims, i, r, rstrides>>

(* A shape of another number of elements is refused. *)
Checked(s) == IF Elements(s) = Elements(input) THEN s ELSE NoShape

IsStandard == AtWork /\ Standard(input) /\ Return(Checked(StandardShape(rdims)))

Walking == AtWork /\ ~ Standard(input) /\ More

Same ==
  /\ Walking /\ rdims[r + 1] = idims[i + 1]
  /\ rstrides' = Append(rstrides, istrides[i + 1])
  /\ i' = i + 1 /\ r' = r + 1
  /\ UNCHANGED <<input, rdims, result>>

Squeeze ==
  /\ Walking /\ rdims[r + 1] > idims[i + 1]
  /\ LET n == EndDim(idims, i, rdims[r + 1]) IN
       \/ (n = 0 \/ ~ CanMerge(n)) /\ Return(NoShape)
       \/ /\ n > 0 /\ CanMerge(n)
          /\ rstrides' = Append(rstrides, istrides[i + n + 1])
          /\ i' = i + n + 1 /\ r' = r + 1
          /\ UNCHANGED <<input, rdims, result>>

(* The dimensions are looked for from rdims.begin() + i. *)
Unsqueeze ==
  /\ Walking /\ rdims[r + 1] < idims[i + 1]
  /\ LET n == EndDim(rdims, i, idims[i + 1])
         total == istrides[i + 1] * idims[i + 1]
     IN \/ n = 0 /\ Return(NoShape)
        \/ /\ n > 0
           /\ rstrides' = rstrides \o
                [k \in 1..(n + 1) |-> total \div Product(SubSeq(rdims, i + 1, i + k))]
           /\ i' = i + 1 /\ r' = r + n + 1
           /\ UNCHANGED <<input, rdims, result>>

(* Trailing ones take the last stride; anything else is no shape. *)
Trailing ==
  IF rstrides = << >> THEN rstrides
  ELSE rstrides \o [k \in 1..(Len(rdims) - Len(rstrides)) |-> Last(rstrides)]

Finish ==
  /\ AtWork /\ ~ Standard(input) /\ ~ More
  /\ IF /\ Len(rstrides) <= Len(rdims) /\ Len(Trailing) = Len(rdims)
        /\ \A k \in (Len(rstrides) + 1)..Len(rdims) : rdims[k] = 1
     THEN Return(Checked([lens |-> rdims, strides |-> Trailing]))
     ELSE Return(NoShape)

Next == IsStandard \/ Same \/ Squeeze \/ Unsqueeze \/ Finish

Spec == Init /\ [][Next]_vars

(***************************************************************************)
(* A shape that comes out is a view of the same elements: element e of the *)
(* result is element e of the input, wherever it lies ("alias the          *)
(* dimensions of the input shape to the lens of `rdims`. If this can't be  *)
(* done without changing memory layout then it will return nullopt").      *)
(***************************************************************************)
SameElements ==
  ~ AtWork /\ result # <<NoShape>> =>
    \A e \in 0..(Elements(input) - 1) : Index(result[1], e) = Index(input, e)
=============================================================================

--------------------------- MODULE MCReshapeLazy ---------------------------
EXTENDS ReshapeLazy, FiniteSets

CONSTANTS
  Sizes,        \* of dimensions
  MaxElements,
  MaxRank       \* of inputs

LensUpTo(n) == UNION {[1..k -> Sizes] : k \in 1..n}

(* Packed with the dimensions in some order in memory, maybe transposed;   *)
(* one of them may be broadcast.                                           *)
Layouts(lens) ==
  LET orders == {p \in [DOMAIN lens -> DOMAIN lens] : IsInjective(p)}
      packed(p) == [k \in DOMAIN lens |->
                      Product([n \in DOMAIN lens |-> IF p[n] > p[k] THEN lens[n] ELSE 1])]
  IN {packed(p) : p \in orders}
       \cup {[packed(p) EXCEPT ![k] = 0] : p \in orders, k \in DOMAIN lens}

Inputs ==
  UNION {{[lens |-> l, strides |-> s] : s \in Layouts(l)} :
           l \in {x \in LensUpTo(MaxRank) : Product(x) <= MaxElements}}

(* Dimensions of the same number of elements, maybe with one left out *)
MCReshapes ==
  UNION {{[input |-> s, dims |-> d] :
            d \in {x \in LensUpTo(4) : Product(x) = Elements(s)}
                    \cup {<<-1>>, <<0, -1>>} } : s \in Inputs}
=============================================================================

------------------------------- MODULE Shape -------------------------------
(***************************************************************************)
(* Static shapes (shape_impl): dimensions, the stride of each, and whether *)
(* the layout is the standard one.  Element types are left out.            *)
(***************************************************************************)
EXTENDS Integers, SequencesExt

Product(s) == FoldSeq(LAMBDA x, y : x * y, 1, s)

(* calculate_strides *)
RowMajor(lens) == [k \in DOMAIN lens |-> Product(SubSeq(lens, k + 1, Len(lens)))]

Elements(s) == IF s.lens = <<>> THEN 0 ELSE Product(s.lens)

ElementSpace(s) ==
  IF s.lens = <<>> THEN 0
  ELSE 1 + FoldSeq(+, 0, [k \in DOMAIN s.lens |-> (s.lens[k] - 1) * s.strides[k]])

Skips(s) == Elements(s) # 1 /\ 1 \notin ToSet(s.strides)

(* m_standard; the strides of dimensions of one do not count *)
Standard(s) ==
  /\ Elements(s) = ElementSpace(s) /\ ~ Skips(s)
  /\ \A k, l \in DOMAIN s.lens :
       k < l /\ s.lens[k] # 1 /\ s.lens[l] # 1 => s.strides[k] >= s.strides[l]

StandardShape(lens) == [lens |-> lens, strides |-> RowMajor(lens)]

(* The place in memory of element e, counted in row-major order. *)
Index(s, e) ==
  IF Standard(s) THEN e
  ELSE FoldSeq(+, 0, [k \in DOMAIN s.lens |->
         s.strides[k] * ((e \div RowMajor(s.lens)[k]) % s.lens[k])])
=============================================================================

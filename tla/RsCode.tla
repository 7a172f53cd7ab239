------------------------------- MODULE RsCode -------------------------------
(***************************************************************************)
(* The systematic Reed-Solomon code of rs/rscode.c with T check symbols:   *)
(* symbol-wise encoding, accumulation of syndromes, and the closed formula *)
(* for an erased symbol.  checks and syndromes are functions on 0..T-1.    *)
(***************************************************************************)
EXTENDS Galois

CONSTANT T  \* rscode_checks_num

ASSUME ChecksAssumption == T \in 1..(order - 2)

\* rscode_init: the generator polynomial has the roots 1 .. T.
rscode_gen_poly ==
  FoldLeft(LAMBDA p, i : galois_poly_shift_add_scale(p, i - 1, galois_element(i)),
           [i \in {0} |-> galois_element(0)], [i \in 1..T |-> i])

\* rscode_prepare.
rscode_zero == [i \in 0..(T - 1) |-> 0]

\* rscode_encode: divide once more by the generator; checks[0] has degree T-1.
rscode_encode(input, checks) ==
  LET factor == galois_add(input, checks[0])
  IN  [i \in 0..(T - 1) |->
         galois_add(IF i < T - 1 THEN checks[i + 1] ELSE 0,
                    galois_mul(rscode_gen_poly[T - 1 - i], factor))]

rscode_decode_syndromes(input, degree, syndromes) ==
  [i \in 0..(T - 1) |->
     galois_add(syndromes[i], galois_mul(input, galois_element(degree * (i + 1))))]

\* rscode_decode_erasure: the symbol at erasures[index], where erasures is
\* the sequence of all erased degrees.
rscode_decode_erasure(syndromes, erasures, index) ==
  LET z(i) == galois_element(erasures[i])
      others == SelectSeq([i \in 1..Len(erasures) |-> i], LAMBDA j : j # index)
      sigma == FoldLeft(LAMBDA p, d : galois_poly_shift_add_scale(p, d - 1, z(others[d])),
                        [i \in {0} |-> galois_element(0)], [d \in 1..Len(others) |-> d])
      prod == FoldLeft(LAMBDA a, j : galois_mul(a, galois_add(z(index), z(j))), z(index), others)
      sum == FoldLeft(LAMBDA a, j : galois_add(a, galois_mul(syndromes[j - 1], sigma[j - 1])),
                      0, [j \in 1..Len(erasures) |-> j])
  IN  galois_div(sum, prod)
=============================================================================

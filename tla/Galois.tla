------------------------------- MODULE Galois -------------------------------
(***************************************************************************)
(* Arithmetic of a binary Galois field by tables of powers and logarithms  *)
(* (rs/galois.c and rs/galois.h).  A table is a function on 0..order-1,    *)
(* and a polynomial one on 0..degree, as the arrays of the code are.       *)
(***************************************************************************)
EXTENDS Integers, Sequences, SequencesExt, Bitwise

CONSTANTS Degree,  \* bits of a field element
          GenPoly  \* the generator polynomial, as a number of Degree + 1 bits

ASSUME FieldAssumption == Degree \in Nat \ {0} /\ GenPoly \in (2^Degree)..(2^(Degree + 1) - 1)

order == 2^Degree
Field == 0..(order - 1)

\* One step of galois_init's loop: the next power, reduced by the polynomial.
galois_shift(x) == IF x >= order \div 2 THEN (2 * x) ^^ GenPoly ELSE 2 * x

\* exps[0] .. exps[order-1] of galois_init, as a sequence from 1.
expSeq == FoldLeft(LAMBDA s, i : Append(s, galois_shift(Last(s))), <<1>>, [i \in 1..(order - 2) |-> i])
exps == LET powers == expSeq
        IN  [i \in Field |-> IF i = order - 1 THEN 1 ELSE powers[i + 1]]

\* logs[0], "should be -infinite", is 0.
logs == LET powers == exps
        IN  [x \in Field |-> IF x = 0 THEN 0
                             ELSE CHOOSE i \in 0..(order - 2) : powers[i] = x]

galois_element(i) == exps[i % (order - 1)]
galois_add(a, b) == a ^^ b
galois_mul(a, b) == IF a = 0 \/ b = 0 THEN 0 ELSE galois_element(logs[a] + logs[b])

\* b is never zero where the code divides.
galois_div(a, b) == IF a = 0 THEN 0 ELSE galois_element(order - 1 + logs[a] - logs[b])

\* galois_poly_shift_add_scale: dst * (X + scale), one degree higher.
galois_poly_shift_add_scale(dst, degree, scale) ==
  [i \in 0..(degree + 1) |->
     galois_add(IF i > 0 THEN dst[i - 1] ELSE 0,
                IF i <= degree THEN galois_mul(dst[i], scale) ELSE 0)]
=============================================================================

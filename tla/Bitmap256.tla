----------------------------- MODULE Bitmap256 -----------------------------
(***************************************************************************)
(* The mask of degrees that a decode context keeps (bitmap256_t of         *)
(* rs/rs.c): 256 bits in four words of 64.  The bit is computed as 1 << m  *)
(* in an int of 32 bits and then widened to the word.  Shifting by 31      *)
(* makes the int negative, so widening it sets all higher bits; shifting   *)
(* by 32 or more is undefined, and the shift instruction of the target the *)
(* code is built for takes the count modulo 32.                            *)
(*                                                                         *)
(* A word is the set of its bits.                                          *)
(***************************************************************************)
EXTENDS Naturals

CONSTANT Degrees  \* the degrees that are set and tested

ASSUME DegreesAssumption == Degrees \subseteq 0..255

VARIABLES buffer,  \* the four words
          added    \* the keys set since the last reset

bitmapVars == <<buffer, added>>

\* Mutant: the key is taken modulo the size of the int.
wordNarrow(key) == (key \div 32) % 4

word(key) == key \div 64

\* (uint64_t) (1 << m), where m = key % 64.
bit(key) == IF key % 32 = 31 THEN 31..63 ELSE {key % 32}

bitmap256_isset(b, key) == b[word(key)] \cap bit(key) # {}

\* bitmap256_reset, in rs_reset_dc.
bitmap256_reset == buffer' = [n \in 0..3 |-> {}] /\ added' = {}

BitmapInit == buffer = [n \in 0..3 |-> {}] /\ added = {}

\* bitmap256_set, in rs_decode: only for a key that bitmap256_isset denies.
bitmap256_set(key) ==
  /\ ~bitmap256_isset(buffer, key)
  /\ buffer' = [buffer EXCEPT ![word(key)] = @ \cup bit(key)]
  /\ added' = added \cup {key}

BitmapNext == bitmap256_reset \/ \E key \in Degrees : bitmap256_set(key)

BitmapSpec == BitmapInit /\ [][BitmapNext]_bitmapVars
-----------------------------------------------------------------------------
(* Properties. *)

\* "A simple bitmap" (rs.h, line 28): a key is reported set if and only if it
\* was set, so rs_decode takes a packet for a duplicate only when it is one.
MaskIsExact == \A key \in Degrees : bitmap256_isset(buffer, key) <=> key \in added
=============================================================================

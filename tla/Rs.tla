--------------------------------- MODULE Rs ---------------------------------
(***************************************************************************)
(* The block code of rs/rs.c: K messages of up to MaxDataSize symbols are  *)
(* encoded column by column, check packets lose their trailing zeros, and  *)
(* from any K of the N packets of a block, in any order, the missing       *)
(* messages are restored with their sizes.                                 *)
(*                                                                         *)
(* A message is a sequence of field symbols.  Column 0 holds the size (the *)
(* code splits it over four columns of bytes) and column c the c-th symbol *)
(* of every message, zero where the message is shorter.                    *)
(***************************************************************************)
EXTENDS RsCode, FiniteSets

CONSTANTS K,            \* messages per block; the block has K + T packets
          MaxDataSize,  \* max_data_size
          Symbols       \* bound: the symbols messages are made of

ASSUME RsAssumption == /\ K \in Nat \ {0} /\ K + T <= order - 1
                       /\ MaxDataSize \in Nat /\ MaxDataSize < order
                       /\ Symbols \subseteq Field

N == K + T
Column == 0..MaxDataSize
Message == UNION {[1..n -> Symbols] : n \in 0..MaxDataSize}

VARIABLES msgs,       \* the messages encoded so far
          checks,     \* ec->checks, per column
          mask,       \* degrees of the packets decoded so far
          syndromes   \* dc->syndromes, per column

rsVars == <<msgs, checks, mask, syndromes>>

RsInit ==
  /\ msgs = <<>>
  /\ checks = [c \in Column |-> rscode_zero]
  /\ mask = {}
  /\ syndromes = [c \in Column |-> rscode_zero]

\* The symbol of packet data in column c; a packet ends where its size ends.
SymbolAt(data, c) == IF c \in DOMAIN data THEN data[c] ELSE 0

\* Mutant: the size of a message is not encoded.
EncodedNoSize(m, c) == SymbolAt(m, c)

\* The symbol of message m: its size comes first.
Encoded(m, c) == IF c = 0 THEN Len(m) ELSE SymbolAt(m, c)

\* rs_encode.
rs_encode(m) ==
  /\ Len(msgs) < K
  /\ msgs' = Append(msgs, m)
  /\ checks' = [c \in Column |-> rscode_encode(Encoded(m, c), checks[c])]
  /\ UNCHANGED <<mask, syndromes>>

\* build_redundant: check packet j without its trailing zeros.
build_redundant(j) ==
  LET column == [c \in 1..(MaxDataSize + 1) |-> checks[c - 1][j]]
  IN  SubSeq(column, 1, Max({0} \cup {c \in DOMAIN column : column[c] # 0}))

\* What packet degree adds to column c: a message, whose size goes into
\* column 0, or check packet T-1-degree, which already starts with column 0.
Received(degree, c) ==
  IF degree >= T THEN Encoded(msgs[N - degree], c)
  ELSE SymbolAt(build_redundant(T - 1 - degree), c + 1)

\* rs_decode of a packet that is no duplicate, while the block is incomplete.
rs_decode(degree) ==
  /\ Len(msgs) = K
  /\ Cardinality(mask) < K
  /\ degree \notin mask
  /\ mask' = mask \cup {degree}
  /\ syndromes' = [c \in Column |->
                     rscode_decode_syndromes(Received(degree, c), degree, syndromes[c])]
  /\ UNCHANGED <<msgs, checks>>

\* erasure_degrees: the missing degrees, the highest first, so that the
\* missing messages come before the missing check packets.
erasure_degrees == SetToSortSeq((0..(N - 1)) \ mask, >)

\* rs_decode_result: the message at erasure_degrees[index].
rs_decode_result(index) ==
  LET symbol(c) == rscode_decode_erasure(syndromes[c], erasure_degrees, index)
  IN  [c \in 1..symbol(0) |-> symbol(c)]

\* The next block starts: rs_reset_ec and rs_reset_dc.
RsReset ==
  /\ Cardinality(mask) = K
  /\ msgs' = <<>>
  /\ checks' = [c \in Column |-> rscode_zero]
  /\ mask' = {}
  /\ syndromes' = [c \in Column |-> rscode_zero]

RsNext == (\E m \in Message : rs_encode(m)) \/ (\E d \in 0..(N - 1) : rs_decode(d)) \/ RsReset

RsSpec == RsInit /\ [][RsNext]_rsVars
-----------------------------------------------------------------------------
(* Properties. *)

Complete == Cardinality(mask) = K

\* Any K of the N packets, in any order, restore every message that is
\* missing, with its size: the reason rs_decode stops at the K-th packet.
AnyKPacketsRestoreTheBlock ==
  Complete =>
    \A i \in DOMAIN erasure_degrees :
      erasure_degrees[i] >= T => rs_decode_result(i) = msgs[N - erasure_degrees[i]]
=============================================================================

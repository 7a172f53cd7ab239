------------------------------- MODULE RsFec -------------------------------
(***************************************************************************)
(* The Reed-Solomon FEC of the tunnel (tunnel/nt_rs_fec.c over rs/rs.c):   *)
(* the encoders of a sending node, a network that loses, duplicates and    *)
(* reorders packets, and the decode buffer cache of a receiving node.      *)
(*                                                                         *)
(* The K-th message of a block makes the encoder emit N - K check packets; *)
(* any K of the N packets determine the block.  The arithmetic behind that *)
(* is a matter of rs/rscode.c; here it is the rule that a missing message  *)
(* is restored from K packets of ONE block; from others it is garbage, or  *)
(* the restoring fails.                                                    *)
(*                                                                         *)
(* A packet is [inc, enc, id, index]: block_index index of block id, as    *)
(* sent by encoder enc of incarnation inc of the sender (a restarted sender *)
(* counts its block ids from zero again).  The header on the wire has id   *)
(* and index only; inc and enc tell what the payload belongs to.  The      *)
(* message a raw packet carries is identified with the packet.             *)
(*                                                                         *)
(* The code compares current - timestamp with decode_timeout and timestamp *)
(* with zero, and does nothing else with time.  So a buffer has an age, in *)
(* ticks, that stops growing once it exceeds Timeout, and a flag "used"    *)
(* that stands for timestamp > 0.                                          *)
(***************************************************************************)
EXTENDS Integers, FiniteSets, Lru

CONSTANTS N, K,                 \* packets and messages per block
          EncoderNum,           \* encoders that share one idgen
          BufferNum,            \* decode_buffer_num of the receiver
          Timeout,              \* decode_timeout, in ticks
          Sizes, MaxDataSize,   \* sizes of API messages, max_fec_data_size
          MaxId,                \* bound: the largest block id
          MaxFaults             \* bound: restarts of either side and packets that
                                \* rs_decode rejects, taken together

\* Up to 32 degrees the mask of received packets is exact (module Bitmap256).
ASSUME CodeAssumption == K \in Nat /\ N \in Nat /\ 1 <= K /\ K < N /\ N <= 32
ASSUME EncoderAssumption == EncoderNum \in Nat \ {0}
\* A hash table of capacity 1 has no bucket: decode_buffer_num must exceed 1.
ASSUME CacheAssumption == BufferNum \in Nat \ {0, 1} /\ Timeout \in Nat
ASSUME BoundAssumption == MaxId \in Nat /\ MaxId >= EncoderNum /\ MaxId >= BufferNum - 1
                         /\ MaxFaults \in Nat

VARIABLES idgen,      \* the next block id of the sender
          ec,         \* ec[e] = [id, count], the block encoder e is filling
          inc,        \* incarnation of the sender
          aborted,    \* the sender's process has aborted on an ensure()
          net,        \* packets sent so far; any of them may arrive, or not, or again
          lru,        \* the ids the receiver's cache holds, newest first
          buf,        \* buf[b], the decode buffer of block b
          restarts,   \* restarts of the receiver so far
          invalid,    \* packets received so far that rs_decode rejects
          balance,    \* DECODER_BLOCK_COUNT - _COMPLETE - _RESTORE - _EXPIRE
          corrupt     \* something that is no message was passed to on_decode (raw packets
                      \* are passed as they are, so only restored messages can be wrong)

sendVars == <<idgen, ec, inc, aborted, net>>
recvVars == <<lru, buf, restarts, invalid, balance, corrupt>>
vars == <<sendVars, recvVars>>

T == N - K
BlockId == 0..MaxId
Encoder == 0..(EncoderNum - 1)
Index == 0..(N - 1)
RawIndex == 0..(K - 1)
Packet == [inc : 0..MaxFaults, enc : Encoder, id : BlockId, index : Index]

Faults == inc + restarts + invalid

\* max_degree - block_index, and back.
Degree(index) == N - 1 - index
IndexOf(degree) == N - 1 - degree

IS_RAW(degree) == degree >= T

(***************************************************************************)
(* A decode buffer: rs_dc_t's count and mask; got, the packets accumulated *)
(* in its syndromes; out, how often each message of the block was passed   *)
(* to on_decode since the buffer was reset.                                *)
(***************************************************************************)
EmptyBuffer ==
  [count |-> 0, mask |-> {}, got |-> {}, used |-> FALSE, age |-> 0,
   out |-> [i \in RawIndex |-> 0]]

\* Mutant: the encoders do not share one idgen.
FreshEncodersSameId == [e \in Encoder |-> [id |-> 0, count |-> 0]]

\* nt_rs_fec_init gives every encoder the next id ...
FreshEncoders == [e \in Encoder |-> [id |-> e, count |-> 0]]

\* ... and puts the decode buffers into the cache under the ids 0, 1, ...
FreshCache == [i \in 1..BufferNum |-> BufferNum - i]

Init ==
  /\ idgen = EncoderNum
  /\ ec = FreshEncoders
  /\ inc = 0
  /\ aborted = FALSE
  /\ net = {}
  /\ lru = FreshCache
  /\ buf = [b \in BlockId |-> EmptyBuffer]
  /\ restarts = 0
  /\ invalid = 0
  /\ balance = 0
  /\ corrupt = FALSE

-----------------------------------------------------------------------------
(* The sender. *)

PacketsOf(e, indices) ==
  {[inc |-> inc, enc |-> e, id |-> ec[e].id, index |-> i] : i \in indices}

\* nt_rs_fec_encode: the message goes out as it is, and the last message of
\* a block is followed by the check packets and by a new block.
Encode(e) ==
  /\ ~aborted
  /\ \E size \in Sizes : size <= MaxDataSize
  /\ LET c == ec[e]
         full == c.count + 1 = K
     IN  /\ full => idgen <= MaxId
         /\ net' = net \cup PacketsOf(e, IF full THEN c.count..(N - 1) ELSE {c.count})
         /\ ec' = [ec EXCEPT ![e] = IF full THEN [id |-> idgen, count |-> 0]
                                    ELSE [c EXCEPT !.count = @ + 1]]
         /\ idgen' = IF full THEN idgen + 1 ELSE idgen
  /\ UNCHANGED <<inc, aborted, recvVars>>

\* rs_encode returns E_RS_INVALID_SIZE and ensure(n >= 0) aborts the process.
EncodeOversize ==
  /\ ~aborted
  /\ \E size \in Sizes : size > MaxDataSize
  /\ aborted' = TRUE
  /\ UNCHANGED <<idgen, ec, inc, net, recvVars>>

\* The sending process starts again: idgen_init(&idgen, 0), fresh encoders.
SenderRestart ==
  /\ Faults < MaxFaults
  /\ inc' = inc + 1
  /\ idgen' = EncoderNum
  /\ ec' = FreshEncoders
  /\ aborted' = FALSE
  /\ UNCHANGED <<net, recvVars>>

-----------------------------------------------------------------------------
(* The receiver: nt_rs_fec_decode. *)

Resident(b) == b \in LruKeys(lru)
Expired(b) == buf[b].age > Timeout
Complete(b) == buf[b].count = K
Live(b) == buf[b].used /\ ~Complete(b)
Eldest == LruPeek(lru)

\* Mutant: the eldest buffer is always taken.
ReusableAlways == TRUE

\* The block has a buffer that is neither expired nor complete, or it gets
\* one: its own expired buffer, or the eldest one of the cache, reset.
Reusable == ~Live(Eldest) \/ Expired(Eldest)
Accepts(b) == IF Resident(b) THEN Expired(b) \/ ~Complete(b) ELSE Reusable

\* The buffer rs_decode works on, and the cache after the lookup.
Lookup(b) == IF Resident(b) /\ ~Expired(b) THEN buf[b] ELSE EmptyBuffer
\* Mutant: the eldest key stays in the map.
LookupLruKeepsEldest(b) == IF Resident(b) THEN LruGet(lru, b) ELSE LruPut(lru, b)

LookupLru(b) == IF Resident(b) THEN LruGet(lru, b) ELSE LruPut(LruRemove(lru, Eldest), b)
LookupBuf(b, d) ==
  IF Resident(b) THEN [buf EXCEPT ![b] = d]
  ELSE [buf EXCEPT ![Eldest] = EmptyBuffer, ![b] = d]

\* Mutant: the eldest block counts as expired even when it is complete.
ExpireCountAlways(b) ==
  LET victim == IF Resident(b) THEN b ELSE Eldest
  IN  IF buf[victim].used /\ Expired(victim) THEN 1 ELSE 0

\* COUNTER_DECODER_BLOCK_EXPIRE and COUNTER_DECODER_BLOCK_COUNT.
ExpireCount(b) ==
  LET victim == IF Resident(b) THEN b ELSE Eldest
  IN  IF Live(victim) /\ Expired(victim) THEN 1 ELSE 0
BlockCount(b) == IF Lookup(b).used THEN 0 ELSE 1

\* "All messages in this block are already processed."
DecodeProcessed(pkt) ==
  /\ Resident(pkt.id) /\ ~Expired(pkt.id) /\ Complete(pkt.id)
  /\ lru' = LruGet(lru, pkt.id)
  /\ UNCHANGED <<sendVars, buf, restarts, invalid, balance, corrupt>>

\* E_FEC_DECODER_BUFFER_FULL: the eldest block is incomplete and unexpired.
DecodeBufferFull(pkt) ==
  /\ ~Resident(pkt.id) /\ ~Reusable
  /\ UNCHANGED vars

\* rs_decode refuses a packet by its size or degree; the lookup has happened.
DecodeInvalid(b) ==
  /\ Faults < MaxFaults
  /\ invalid' = invalid + 1
  /\ Accepts(b)
  /\ lru' = LookupLru(b)
  /\ buf' = LookupBuf(b, Lookup(b))
  /\ balance' = balance + BlockCount(b) - ExpireCount(b)
  /\ UNCHANGED <<sendVars, restarts, corrupt>>

\* Mutant: duplicates are not recognised.
IsDuplicateNever(d, degree) == FALSE

\* bitmap256_isset of the buffer's mask.
IsDuplicate(d, degree) == degree \in d.mask

\* E_RS_DUPLICATE: the buffer already has a packet of this degree.
DecodeDuplicate(pkt) ==
  /\ Resident(pkt.id) /\ ~Expired(pkt.id) /\ ~Complete(pkt.id)
  /\ IsDuplicate(buf[pkt.id], Degree(pkt.index))
  /\ lru' = LruGet(lru, pkt.id)
  /\ UNCHANGED <<sendVars, buf, restarts, invalid, balance, corrupt>>

\* Mutant: the lowest raw degree is forgotten.
RawErasuresShort(mask) == {IndexOf(d) : d \in {x \in (T + 1)..(N - 1) : x \notin mask}}

\* The raw messages a complete buffer misses, by index.
RawErasures(mask) == {IndexOf(d) : d \in {x \in T..(N - 1) : x \notin mask}}

\* What the syndromes of K packets of one block restore are messages of that
\* block; what others restore is garbage.
SameBlock(x, y) == x.inc = y.inc /\ x.enc = y.enc /\ x.id = y.id
Sound(got) == Cardinality(got) = K /\ \A x, y \in got : SameBlock(x, y)

\* The messages that the loop over rs_decode_result passes to on_decode, in the
\* order of their indices.  The size that is restored for a garbage message may
\* exceed max_data_size: E_RS_INVALID_HEADER, and the loop ends with
\* E_FEC_INTERNAL_ERROR before that message.
Restorable(mask, got) ==
  IF Sound(got) THEN {RawErasures(mask)}
  ELSE {{i \in RawErasures(mask) : i < failed} : failed \in 0..K}

\* rs_decode accumulates the packet; the K-th one makes it restore the
\* messages that are missing.  A raw packet is delivered at once, and the
\* counters and the buffer are updated before anything is restored.  (A packet
\* with another tag, N or K is refused before the cache is looked at and
\* changes nothing; on_decode always returns 0.)
Decode(pkt) ==
  LET b == pkt.id
      d == Lookup(b)
      degree == Degree(pkt.index)
      mask == d.mask \cup {degree}
      got == d.got \cup {pkt}
      complete == d.count + 1 = K
      raw == IF IS_RAW(degree) THEN {pkt.index} ELSE {}
  IN
  /\ Accepts(b)
  /\ ~IsDuplicate(d, degree)
  /\ lru' = LookupLru(b)
  /\ balance' = balance + BlockCount(b) - ExpireCount(b) - (IF complete THEN 1 ELSE 0)
  /\ \E restored \in IF complete THEN Restorable(mask, got) ELSE {{}} :
       /\ buf' = LookupBuf(b, [count |-> d.count + 1, mask |-> mask, got |-> got,
                               used |-> TRUE, age |-> 0,
                               out |-> [i \in RawIndex |->
                                          d.out[i] + (IF i \in raw THEN 1 ELSE 0)
                                                   + (IF i \in restored THEN 1 ELSE 0)]])
       /\ corrupt' = (corrupt \/ (restored # {} /\ ~Sound(got)))
  /\ UNCHANGED <<sendVars, restarts, invalid>>

\* A millisecond passes at the receiver.
Tick ==
  /\ \E b \in BlockId : buf[b].used /\ buf[b].age <= Timeout
  /\ buf' = [b \in BlockId |->
               IF buf[b].used /\ buf[b].age <= Timeout THEN [buf[b] EXCEPT !.age = @ + 1]
               ELSE buf[b]]
  /\ UNCHANGED <<sendVars, lru, restarts, invalid, balance, corrupt>>

\* The receiving process starts again with an empty cache.
ReceiverRestart ==
  /\ Faults < MaxFaults
  /\ restarts' = restarts + 1
  /\ lru' = FreshCache
  /\ buf' = [b \in BlockId |-> EmptyBuffer]
  /\ balance' = 0
  /\ UNCHANGED <<sendVars, invalid, corrupt>>

Receive(pkt) ==
  DecodeProcessed(pkt) \/ DecodeBufferFull(pkt) \/ DecodeDuplicate(pkt) \/ Decode(pkt)

Next ==
  \/ \E e \in Encoder : Encode(e)
  \/ EncodeOversize
  \/ SenderRestart
  \/ \E pkt \in net : Receive(pkt)
  \/ \E b \in BlockId : DecodeInvalid(b)
  \/ Tick
  \/ ReceiverRestart

Spec == Init /\ [][Next]_vars

-----------------------------------------------------------------------------
(* Properties. *)

\* The cache always holds decode_buffer_num different blocks, and only they
\* have state: the ensure()s on lrumap_peek, lrumap_remove and lrumap_put in
\* nt_rs_fec_decode hold, and no decode buffer is lost or used for two blocks.
CacheHoldsAllBuffers ==
  /\ Len(lru) = BufferNum
  /\ Cardinality(LruKeys(lru)) = BufferNum
  /\ \A b \in BlockId : ~Resident(b) => buf[b] = EmptyBuffer

\* When rs_decode reports a block complete, exactly N - K degrees are
\* missing: erasure_degrees, which has room for N - K, is filled exactly,
\* and the erasures are as many as the code can correct.
ErasuresFitTheCode ==
  \A b \in BlockId : Complete(b) => Cardinality((0..(N - 1)) \ buf[b].mask) = T

\* The point of the FEC: while a block keeps its buffer, no message of it is
\* delivered twice, a message whose raw packet arrived is delivered, and once
\* any K packets of it have arrived all K messages are delivered.  (After a
\* restart of the sender a buffer may be completed by packets of two blocks with
\* the same id.  Its missing messages are then garbage or not delivered at all.)
BlockDeliveredOnce ==
  \A b \in BlockId : \A i \in RawIndex :
    LET arrived == Degree(i) \in buf[b].mask
        restored == Complete(b) /\ (inc = 0 \/ Sound(buf[b].got))
    IN  /\ buf[b].out[i] <= 1
        /\ arrived \/ restored => buf[b].out[i] = 1
        /\ ~arrived /\ ~Complete(b) => buf[b].out[i] = 0

\* The messages that a complete buffer was given or has restored.
DeliveredFrom(got) ==
  {x \in net : x.index \in RawIndex /\ (x \in got \/ (Sound(got) /\ \A y \in got : SameBlock(x, y)))}

\* nt_rs_fec.c, line 70: a packet of a complete, unexpired block is dropped
\* because "all messages in this block are already processed".
DroppedOnlyWhenProcessed ==
  \A pkt \in net :
    /\ Resident(pkt.id) /\ ~Expired(pkt.id) /\ Complete(pkt.id)
    /\ pkt.index \in RawIndex
    => pkt \in DeliveredFrom(buf[pkt.id].got)

\* Whatever is lost, repeated or reordered, whatever block is evicted or
\* expires, and even if the receiver restarts, on_decode only ever sees
\* messages that some encoder was given.  (A restarted sender uses its block
\* ids again, and the decoder may then combine packets of two blocks.)
OnlySentMessagesDelivered == inc = 0 => ~corrupt

\* The DECODER_BLOCK_* counters add up: every block counted on arrival is
\* complete, restored, expired, or still waiting in a buffer.  (A block whose
\* first packet rs_decode rejects is counted again with its next one.)
BlockCountersBalance == invalid = 0 => balance = Cardinality({b \in BlockId : Live(b)})

\* A block that is waiting for packets and has not timed out keeps its buffer
\* and everything accumulated in it, however many other blocks arrive.
LiveBlockNeverDropped ==
  [][\A b \in BlockId :
       Live(b) /\ ~Expired(b) /\ restarts' = restarts
       => b \in LruKeys(lru') /\ buf[b].got \subseteq buf'[b].got]_vars

\* nt_rs_fec.c, line 29: rs_encode "should not fail".
EncodeNeverFails == ~aborted


-----------------------------------------------------------------------------
(* What the properties need in order to be inductive. *)

Buffer == [count : 0..K, mask : SUBSET (0..(N - 1)), got : SUBSET Packet,
           used : BOOLEAN, age : Nat, out : [RawIndex -> Nat]]

\* Type invariant.
TypeOK ==
  /\ idgen \in EncoderNum..(MaxId + 1)
  /\ ec \in [Encoder -> [id : BlockId, count : 0..(K - 1)]]
  /\ inc \in Nat /\ restarts \in Nat /\ invalid \in Nat /\ Faults <= MaxFaults
  /\ aborted \in BOOLEAN /\ corrupt \in BOOLEAN
  /\ net \in SUBSET Packet
  /\ lru \in Seq(BlockId)
  /\ buf \in [BlockId -> Buffer]
  /\ balance \in Int

\* No two encoders of one incarnation of the sender ever use the same id.
IdsUnique ==
  /\ \A e \in Encoder : ec[e].id < idgen
  /\ \A e, f \in Encoder : ec[e].id = ec[f].id => e = f
  /\ \A x \in net : x.inc <= inc
  /\ \A x \in net : x.inc = inc =>
       x.id < idgen /\ \A e \in Encoder : ec[e].id = x.id => x.enc = e
  /\ \A x, y \in net : x.inc = y.inc /\ x.id = y.id => x.enc = y.enc

\* The cache holds decode_buffer_num blocks, and the others have no state.
CacheFull ==
  /\ IsInjective(lru) /\ Len(lru) = BufferNum
  /\ \A b \in BlockId : b \notin ToSet(lru) => buf[b] = EmptyBuffer

\* What a decode buffer of block b consists of: one packet for every degree of
\* its mask, and the messages that these packets are or determine.  When they are
\* of several blocks, some of the missing messages may not have been delivered.
BufferSound(b, d) ==
  /\ IsFiniteSet(d.got)
  /\ d.count = Cardinality(d.mask) /\ d.count = Cardinality(d.got)
  /\ d.mask = {Degree(x.index) : x \in d.got}
  /\ \A x \in d.got : x.id = b
  /\ d.used <=> d.got # {}
  /\ \A i \in RawIndex :
       /\ d.out[i] <= 1
       /\ Degree(i) \in d.mask \/ (d.count = K /\ Sound(d.got)) => d.out[i] = 1
       /\ Degree(i) \notin d.mask /\ d.count # K => d.out[i] = 0

BuffersSound == \A b \in BlockId : BufferSound(b, buf[b]) /\ buf[b].got \subseteq net

IndInv ==
  /\ TypeOK /\ IdsUnique /\ CacheFull /\ BuffersSound
  /\ OnlySentMessagesDelivered /\ BlockCountersBalance
=============================================================================

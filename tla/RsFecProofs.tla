---------------------------- MODULE RsFecProofs -----------------------------
(***************************************************************************)
(* The Reed-Solomon FEC, for every code, number of encoders, cache size,   *)
(* timeout and bound of the model.  The proofs go through one inductive    *)
(* invariant, which says that the ids of the blocks of one incarnation of  *)
(* the sender differ, that the cache holds its buffers once, and what a    *)
(* decode buffer consists of.                                              *)
(***************************************************************************)
EXTENDS RsFec, SequenceFacts

-----------------------------------------------------------------------------
(* Decode buffers. *)

\* A buffer that was reset has nothing of any block.
LEMMA EmptyBufferSound ==
  /\ EmptyBuffer \in Buffer /\ ~EmptyBuffer.used /\ EmptyBuffer.got = {}
  /\ EmptyBuffer.count = 0 /\ EmptyBuffer.mask = {} /\ EmptyBuffer.age = 0
  /\ \A b : BufferSound(b, EmptyBuffer)
<1>1. /\ EmptyBuffer.count = 0 /\ EmptyBuffer.mask = {} /\ EmptyBuffer.got = {}
      /\ EmptyBuffer.used = FALSE /\ EmptyBuffer.age = 0
      /\ EmptyBuffer.out = [i \in RawIndex |-> 0]
  BY DEF EmptyBuffer
<1>2. EmptyBuffer \in Buffer
  BY CodeAssumption DEF EmptyBuffer, Buffer
<1>3. Cardinality({}) = 0 /\ IsFiniteSet({})
  BY FS_EmptySet
<1> HIDE DEF EmptyBuffer
<1>4. ASSUME NEW b PROVE BufferSound(b, EmptyBuffer)
  <2>1. EmptyBuffer.count # K
    BY <1>1, CodeAssumption
  <2>2. EmptyBuffer.mask = {Degree(x.index) : x \in EmptyBuffer.got}
    BY <1>1
  <2> QED
    BY <1>1, <1>3, <2>1, <2>2 DEF BufferSound
<1> QED
  BY <1>1, <1>2, <1>4

\* The degrees of a packet and of a message.
LEMMA Degrees ==
  /\ \A i \in Index : Degree(i) \in 0..(N - 1) /\ IndexOf(Degree(i)) = i
  /\ \A i, j \in Index : Degree(i) = Degree(j) => i = j
  /\ \A i \in Index : IS_RAW(Degree(i)) <=> i \in RawIndex
  /\ RawIndex \subseteq Index
  /\ T \in Nat /\ T < N
  BY CodeAssumption DEF Index, RawIndex, Degree, IndexOf, IS_RAW, T

\* The messages that are missing from a mask.
LEMMA Erasures ==
  ASSUME NEW mask, NEW i \in RawIndex
  PROVE  i \in RawErasures(mask) <=> Degree(i) \notin mask
<1>1. Degree(i) \in T..(N - 1) /\ IndexOf(Degree(i)) = i
  BY CodeAssumption DEF RawIndex, Degree, IndexOf, T
<1>2. ASSUME NEW x \in T..(N - 1), x \notin mask, i = IndexOf(x) PROVE Degree(i) = x
  BY <1>2, CodeAssumption DEF Degree, IndexOf, T
<1> QED
  BY <1>1, <1>2 DEF RawErasures

\* What is restored is missing from the mask, and from packets of one block
\* everything that is missing is restored.
LEMMA Restoring ==
  ASSUME NEW mask, NEW got, NEW restored \in Restorable(mask, got), NEW i \in RawIndex
  PROVE  /\ i \in restored => Degree(i) \notin mask
         /\ Sound(got) /\ Degree(i) \notin mask => i \in restored
<1>1. restored \subseteq RawErasures(mask)
  BY DEF Restorable
<1>2. Sound(got) => restored = RawErasures(mask)
  BY DEF Restorable
<1> QED
  BY <1>1, <1>2, Erasures

\* What may be restored when packet pkt has been accumulated in buffer d.
RestoredBy(d, pkt) ==
  IF d.count + 1 = K THEN Restorable(d.mask \cup {Degree(pkt.index)}, d.got \cup {pkt}) ELSE {{}}

\* The buffer after rs_decode has accumulated packet pkt in buffer d and the
\* messages restored have been delivered.
Accumulated(d, pkt, restored) ==
  LET mask == d.mask \cup {Degree(pkt.index)}
      raw == IF IS_RAW(Degree(pkt.index)) THEN {pkt.index} ELSE {}
  IN  [count |-> d.count + 1, mask |-> mask, got |-> d.got \cup {pkt},
       used |-> TRUE, age |-> 0,
       out |-> [i \in RawIndex |-> d.out[i] + (IF i \in raw THEN 1 ELSE 0)
                                            + (IF i \in restored THEN 1 ELSE 0)]]

\* A packet whose degree is new adds one to the buffer, and what is delivered
\* is what has not been delivered before.
LEMMA AccumulatedSound ==
  ASSUME NEW b, NEW d \in Buffer, BufferSound(b, d), d.count # K,
         NEW pkt \in Packet, pkt.id = b, Degree(pkt.index) \notin d.mask,
         NEW restored \in RestoredBy(d, pkt)
  PROVE  /\ Accumulated(d, pkt, restored) \in Buffer
         /\ BufferSound(b, Accumulated(d, pkt, restored))
         /\ d.got \subseteq Accumulated(d, pkt, restored).got
<1> DEFINE g == Degree(pkt.index)
           mask == d.mask \cup {g}
           got == d.got \cup {pkt}
           raw == IF IS_RAW(g) THEN {pkt.index} ELSE {}
           out == [i \in RawIndex |-> d.out[i] + (IF i \in raw THEN 1 ELSE 0)
                                               + (IF i \in restored THEN 1 ELSE 0)]
           a == Accumulated(d, pkt, restored)
<1>1. /\ d.count \in 0..K /\ d.mask \in SUBSET (0..(N - 1)) /\ d.got \in SUBSET Packet
      /\ d.out \in [RawIndex -> Nat]
  BY DEF Buffer
<1>2. /\ a.count = d.count + 1 /\ a.mask = mask /\ a.got = got /\ a.used = TRUE /\ a.age = 0
      /\ a.out = out
  BY DEF Accumulated
<1>3. a = [count |-> d.count + 1, mask |-> mask, got |-> got, used |-> TRUE, age |-> 0, out |-> out]
  BY DEF Accumulated
<1>4. pkt.index \in Index /\ g \in 0..(N - 1)
  BY Degrees DEF Packet
<1>5. out \in [RawIndex -> Nat]
  BY <1>1
<1>6. \A i \in RawIndex :
        /\ out[i] <= 1
        /\ Degree(i) \in mask \/ (d.count + 1 = K /\ Sound(got)) => out[i] = 1
        /\ Degree(i) \notin mask /\ d.count + 1 # K => out[i] = 0
  <2> SUFFICES ASSUME NEW i \in RawIndex
               PROVE  /\ out[i] <= 1
                      /\ Degree(i) \in mask \/ (d.count + 1 = K /\ Sound(got)) => out[i] = 1
                      /\ Degree(i) \notin mask /\ d.count + 1 # K => out[i] = 0
    OBVIOUS
  <2>1. d.out[i] = IF Degree(i) \in d.mask THEN 1 ELSE 0
    BY DEF BufferSound
  <2>2. i \in raw <=> Degree(i) = g
    BY <1>4, Degrees
  <2>3. /\ i \in restored => d.count + 1 = K /\ Degree(i) \notin mask
        /\ d.count + 1 = K /\ Sound(got) /\ Degree(i) \notin mask => i \in restored
    <3>1. CASE d.count + 1 = K
      <4>1. restored \in Restorable(mask, got)
        BY <3>1 DEF RestoredBy
      <4> HIDE DEF mask, got
      <4> QED
        BY <3>1, <4>1, Restoring
    <3>2. CASE d.count + 1 # K
      BY <3>2 DEF RestoredBy
    <3> QED
      BY <3>1, <3>2
  <2>4. out[i] = d.out[i] + (IF i \in raw THEN 1 ELSE 0) + (IF i \in restored THEN 1 ELSE 0)
    OBVIOUS
  <2>5. (Degree(i) \in mask <=> Degree(i) \in d.mask \/ Degree(i) = g) /\ g \notin d.mask
    OBVIOUS
  <2> HIDE DEF out, raw, g, mask, got
  <2>6. CASE Degree(i) \in d.mask
    BY <2>1, <2>2, <2>3, <2>4, <2>5, <2>6
  <2>7. CASE Degree(i) \notin d.mask /\ Degree(i) = g
    BY <2>1, <2>2, <2>3, <2>4, <2>5, <2>7
  <2>8. CASE Degree(i) \notin d.mask /\ Degree(i) # g
    BY <2>1, <2>2, <2>3, <2>4, <2>5, <2>8
  <2> QED
    BY <2>6, <2>7, <2>8
<1>7. IsFiniteSet(d.mask) /\ IsFiniteSet(d.got)
  <2>1. IsFiniteSet(0..(N - 1))
    BY FS_Interval, CodeAssumption
  <2>2. IsFiniteSet(d.mask)
    BY <1>1, <2>1, FS_Subset
  <2> QED
    BY <2>2 DEF BufferSound
<1>8. pkt \notin d.got
  BY DEF BufferSound
<1>9. Cardinality(mask) = d.count + 1 /\ Cardinality(got) = d.count + 1 /\ IsFiniteSet(got)
  <2>1. Cardinality(d.mask) = d.count /\ Cardinality(d.got) = d.count
    BY DEF BufferSound
  <2> HIDE DEF g
  <2> QED
    BY <1>7, <1>8, <2>1, FS_AddElement DEF g
<1>10. mask = {Degree(x.index) : x \in got}
  BY DEF BufferSound
<1>11. \A x \in got : x.id = b
  BY DEF BufferSound
<1>12. a \in Buffer
  <2>1. d.count + 1 \in 0..K
    BY <1>1, CodeAssumption
  <2>2. mask \in SUBSET (0..(N - 1)) /\ got \in SUBSET Packet
    BY <1>1, <1>4
  <2> HIDE DEF mask, got, out, a
  <2> QED
    BY <1>3, <1>5, <2>1, <2>2 DEF Buffer
<1>13. got # {}
  OBVIOUS
<1>14. BufferSound(b, a)
  <2> HIDE DEF mask, got, out, a
  <2> QED
    BY <1>2, <1>6, <1>9, <1>10, <1>11, <1>13 DEF BufferSound
<1>15. d.got \subseteq a.got
  BY <1>2
<1> QED
  BY <1>12, <1>14, <1>15


-----------------------------------------------------------------------------
(* The cache. *)

\* The sequence that nt_rs_fec_init leaves in the cache.
LEMMA FreshCacheFull ==
  /\ FreshCache \in Seq(BlockId) /\ IsInjective(FreshCache) /\ Len(FreshCache) = BufferNum
<1> DEFINE q == FreshCache
<1>1. BufferNum \in Nat /\ \A i \in 1..BufferNum : BufferNum - i \in BlockId
  BY CacheAssumption, BoundAssumption DEF BlockId
<1>2. q \in [1..BufferNum -> BlockId]
  BY <1>1 DEF FreshCache
<1>3. q \in Seq(BlockId)
  BY <1>1, <1>2, SeqDef
<1>4. Len(q) = BufferNum
  BY <1>1, <1>2, <1>3, LenProperties
<1>5. \A i \in 1..BufferNum : q[i] = BufferNum - i
  BY DEF FreshCache
<1>6. DOMAIN q = 1..BufferNum
  BY DEF FreshCache
<1>7. \A i, j \in DOMAIN q : q[i] = q[j] => i = j
  <2> HIDE DEF q
  <2> QED
    BY <1>1, <1>5, <1>6
<1> QED
  BY <1>3, <1>4, <1>7 DEF IsInjective

\* Looking b up keeps the number of buffers.  Only the eldest block can lose
\* its entry, and only to a block that has none.
LEMMA CacheLookup ==
  ASSUME TypeOK, CacheFull, NEW b \in BlockId, NEW d \in Buffer,
         NEW q, q = LookupLru(b), NEW m, m = LookupBuf(b, d)
  PROVE  /\ q \in Seq(BlockId) /\ IsInjective(q) /\ Len(q) = BufferNum /\ b \in ToSet(q)
         /\ m \in [BlockId -> Buffer] /\ m[b] = d
         /\ \A c \in BlockId : c \notin ToSet(q) => m[c] = EmptyBuffer
         /\ b \in ToSet(lru) => ToSet(q) = ToSet(lru) /\ \A c \in BlockId : c # b => m[c] = buf[c]
         /\ b \notin ToSet(lru) =>
              /\ Eldest \in ToSet(lru) /\ Eldest \in BlockId /\ Eldest # b
              /\ ToSet(q) = (ToSet(lru) \ {Eldest}) \cup {b}
              /\ m[Eldest] = EmptyBuffer
              /\ \A c \in BlockId : c # b /\ c # Eldest => m[c] = buf[c]
<1>1. /\ lru \in Seq(BlockId) /\ IsInjective(lru) /\ Len(lru) = BufferNum /\ BufferNum \in Nat \ {0}
      /\ buf \in [BlockId -> Buffer] /\ ToSet(lru) \subseteq BlockId
      /\ \A c \in BlockId : c \notin ToSet(lru) => buf[c] = EmptyBuffer
  <2>1. lru \in Seq(BlockId) => ToSet(lru) \subseteq BlockId
    BY LenProperties DEF ToSet
  <2> QED
    BY <2>1, CacheAssumption DEF TypeOK, CacheFull
<1>2. CASE b \in ToSet(lru)
  <2>1. q = <<b>> \o RemoveFirst(lru, b) /\ m = [buf EXCEPT ![b] = d]
    BY <1>2 DEF LookupLru, LookupBuf, Resident, LruKeys, LruGet, LruRemove
  <2> DEFINE r == RemoveFirst(lru, b)
  <2>2. r \in Seq(BlockId) /\ IsInjective(r) /\ ToSet(r) = ToSet(lru) \ {b} /\ Len(r) = Len(lru) - 1
    BY <1>1, <1>2, RemoveSet
  <2>3. q = <<b>> \o r
    BY <2>1
  <2> HIDE DEF r
  <2>4. b \notin ToSet(r) /\ ToSet(r) \cup {b} = ToSet(lru)
    BY <1>2, <2>2
  <2>5. q \in Seq(BlockId) /\ IsInjective(q) /\ Len(q) = Len(r) + 1 /\ ToSet(q) = ToSet(r) \cup {b}
    BY <2>2, <2>3, <2>4, PrependSet
  <2>6. Len(q) = BufferNum /\ ToSet(q) = ToSet(lru)
    BY <1>1, <2>2, <2>4, <2>5
  <2>7. m \in [BlockId -> Buffer] /\ m[b] = d /\ \A c \in BlockId : c # b => m[c] = buf[c]
    BY <1>1, <2>1
  <2> QED
    BY <1>1, <1>2, <2>5, <2>6, <2>7
<1>3. CASE b \notin ToSet(lru)
  <2>1. q = <<b>> \o RemoveFirst(lru, Eldest) /\ m = [buf EXCEPT ![Eldest] = EmptyBuffer, ![b] = d]
    BY <1>3 DEF LookupLru, LookupBuf, Resident, LruKeys, LruPut, LruRemove
  <2>2. lru # <<>>
    BY <1>1
  <2>3. Eldest \in ToSet(lru) /\ Eldest \in BlockId /\ Eldest # b
    <3>1. Last(lru) \in ToSet(lru)
      BY <1>1, <2>2, FrontSet
    <3> QED
      BY <1>1, <1>3, <3>1 DEF Eldest, LruPeek
  <2> DEFINE r == RemoveFirst(lru, Eldest)
  <2>4. r \in Seq(BlockId) /\ IsInjective(r) /\ ToSet(r) = ToSet(lru) \ {Eldest} /\ Len(r) = Len(lru) - 1
    BY <1>1, <2>3, RemoveSet
  <2>5. q = <<b>> \o r
    BY <2>1
  <2> HIDE DEF r
  <2>6. b \notin ToSet(r)
    BY <1>3, <2>4
  <2>7. q \in Seq(BlockId) /\ IsInjective(q) /\ Len(q) = Len(r) + 1 /\ ToSet(q) = ToSet(r) \cup {b}
    BY <2>4, <2>5, <2>6, PrependSet
  <2>8. Len(q) = BufferNum /\ ToSet(q) = (ToSet(lru) \ {Eldest}) \cup {b}
    BY <1>1, <2>4, <2>7
  <2>9. /\ m \in [BlockId -> Buffer] /\ m[b] = d /\ m[Eldest] = EmptyBuffer
        /\ \A c \in BlockId : c # b /\ c # Eldest => m[c] = buf[c]
    <3> HIDE DEF Eldest, EmptyBuffer
    <3> QED
      BY <1>1, <2>1, <2>3, EmptyBufferSound
  <2> QED
    BY <1>1, <1>3, <2>3, <2>7, <2>8, <2>9
<1> QED
  BY <1>2, <1>3


-----------------------------------------------------------------------------
(* The sender. *)

\* A step that leaves the receiver alone and loses no packet keeps what the
\* invariant says of the receiver.
LEMMA SenderStep ==
  ASSUME IndInv, TypeOK', IdsUnique', UNCHANGED recvVars, net \subseteq net', inc <= inc'
  PROVE  IndInv'
<1>1. UNCHANGED <<lru, buf, restarts, invalid, balance, corrupt>>
  BY DEF recvVars
<1>2. CacheFull'
  BY <1>1 DEF IndInv, CacheFull
<1>3. BuffersSound'
  BY <1>1 DEF IndInv, BuffersSound, BufferSound
<1>4. OnlySentMessagesDelivered'
  <2>1. inc' = 0 => inc = 0
    BY DEF IndInv, TypeOK
  <2> QED
    BY <1>1, <2>1 DEF IndInv, OnlySentMessagesDelivered
<1>5. BlockCountersBalance'
  BY <1>1 DEF IndInv, BlockCountersBalance, Live, Complete
<1> QED
  BY <1>2, <1>3, <1>4, <1>5 DEF IndInv

\* An encoder's packets carry its block id, and a new block gets an id that was
\* never used by this incarnation of the sender.
LEMMA EncodeInv ==
  ASSUME IndInv, NEW e \in Encoder, Encode(e)
  PROVE  IndInv'
<1>0. TypeOK /\ IdsUnique
  BY DEF IndInv
<1> DEFINE c == ec[e]
           full == c.count + 1 = K
           P == PacketsOf(e, IF full THEN c.count..(N - 1) ELSE {c.count})
<1>1. /\ full => idgen <= MaxId
      /\ net' = net \cup P
      /\ ec' = [ec EXCEPT ![e] = IF full THEN [id |-> idgen, count |-> 0]
                                 ELSE [c EXCEPT !.count = @ + 1]]
      /\ idgen' = IF full THEN idgen + 1 ELSE idgen
      /\ inc' = inc /\ aborted' = aborted /\ UNCHANGED recvVars
  BY DEF Encode
<1>2. /\ c \in [id : BlockId, count : 0..(K - 1)] /\ c.id \in BlockId /\ c.count \in 0..(K - 1)
      /\ ec \in [Encoder -> [id : BlockId, count : 0..(K - 1)]]
      /\ idgen \in EncoderNum..(MaxId + 1) /\ inc \in 0..MaxFaults /\ net \in SUBSET Packet
      /\ EncoderNum \in Nat /\ MaxId \in Nat
  BY <1>0, EncoderAssumption, BoundAssumption DEF TypeOK, Faults
<1>3. \A x \in P : x \in Packet /\ x.inc = inc /\ x.enc = e /\ x.id = c.id
  <2>1. (IF full THEN c.count..(N - 1) ELSE {c.count}) \subseteq Index
    BY <1>2, CodeAssumption DEF Index
  <2> QED
    BY <1>2, <2>1 DEF PacketsOf, Packet
<1>4. /\ ec' \in [Encoder -> [id : BlockId, count : 0..(K - 1)]]
      /\ \A f \in Encoder : f # e => ec'[f] = ec[f]
      /\ ec'[e].id = IF full THEN idgen ELSE c.id
  <2>1. CASE full
    <3>1. idgen \in BlockId /\ 0 \in 0..(K - 1)
      BY <1>1, <1>2, <2>1, CodeAssumption DEF BlockId
    <3>2. [id |-> idgen, count |-> 0] \in [id : BlockId, count : 0..(K - 1)]
      BY <3>1
    <3>3. ec' = [ec EXCEPT ![e] = [id |-> idgen, count |-> 0]]
      BY <1>1, <2>1
    <3> QED
      BY <1>2, <2>1, <3>2, <3>3
  <2>2. CASE ~full
    <3>1. c.count + 1 \in 0..(K - 1)
      BY <1>2, <2>2, CodeAssumption
    <3>2. ec' = [ec EXCEPT ![e] = [c EXCEPT !.count = @ + 1]]
      BY <1>1, <2>2
    <3>3. [c EXCEPT !.count = @ + 1] = [id |-> c.id, count |-> c.count + 1]
      BY <1>2
    <3> HIDE DEF c, full
    <3>4. [id |-> c.id, count |-> c.count + 1] \in [id : BlockId, count : 0..(K - 1)]
      BY <1>2, <3>1
    <3> QED
      BY <1>2, <2>2, <3>2, <3>3, <3>4
  <2> QED
    BY <2>1, <2>2
<1>5. /\ \A f \in Encoder : ec[f].id < idgen /\ ec[f].id \in BlockId
      /\ \A f, g \in Encoder : ec[f].id = ec[g].id => f = g
      /\ \A x \in net : x.inc <= inc /\ x.id \in BlockId
      /\ \A x \in net : x.inc = inc =>
           x.id < idgen /\ \A f \in Encoder : ec[f].id = x.id => x.enc = f
      /\ \A x, y \in net : x.inc = y.inc /\ x.id = y.id => x.enc = y.enc
  <2>1. \A f \in Encoder : ec[f].id \in BlockId
    BY <1>2
  <2>2. \A x \in net : x.id \in BlockId
    BY <1>2 DEF Packet
  <2> QED
    BY <1>0, <2>1, <2>2 DEF IdsUnique
<1>6. c.id = ec[e].id
  OBVIOUS
<1> HIDE DEF P, c, full
<1>7. TypeOK'
  <2>1. idgen' \in EncoderNum..(MaxId + 1)
    BY <1>1, <1>2
  <2>2. net' \in SUBSET Packet
    BY <1>1, <1>2, <1>3
  <2> QED
    BY <1>0, <1>1, <1>4, <2>1, <2>2 DEF TypeOK, recvVars, Faults
<1>8. idgen <= idgen' /\ idgen \in Int /\ idgen' \in Int /\ (full => idgen < idgen')
  BY <1>1, <1>2
<1>9. BlockId \subseteq Int /\ \A n \in Int : n < idgen => n < idgen'
  BY <1>8 DEF BlockId
<1>10. \A f \in Encoder : ec'[f].id < idgen'
  <2> SUFFICES ASSUME NEW f \in Encoder PROVE ec'[f].id < idgen'
    OBVIOUS
  <2>1. CASE f # e
    <3>1. ec'[f] = ec[f] /\ ec[f].id \in Int /\ ec[f].id < idgen
      BY <1>4, <1>5, <1>9, <2>1
    <3> QED
      BY <1>9, <3>1
  <2>2. CASE f = e
    <3>1. c.id \in Int /\ c.id < idgen
      BY <1>5, <1>6, <1>9
    <3>2. ec'[f].id = IF full THEN idgen ELSE c.id
      BY <1>4, <2>2
    <3> QED
      BY <1>8, <1>9, <3>1, <3>2
  <2> QED
    BY <2>1, <2>2
<1>11. \A f, g \in Encoder : ec'[f].id = ec'[g].id => f = g
  <2>1. \A f \in Encoder : f # e => ec'[f].id # ec'[e].id
    BY <1>2, <1>4, <1>5, <1>6, <1>9
  <2> QED
    BY <1>4, <1>5, <2>1
<1>12. \A x \in net' : x.inc <= inc'
  BY <1>1, <1>2, <1>3, <1>5
<1>13. ASSUME NEW x \in net', x.inc = inc'
       PROVE  x.id < idgen' /\ \A f \in Encoder : ec'[f].id = x.id => x.enc = f
  <2>1. x.id \in BlockId /\ x.id < idgen /\ \A f \in Encoder : ec[f].id = x.id => x.enc = f
    <3>1. CASE x \in net
      BY <1>1, <1>5, <1>13, <3>1
    <3>2. CASE x \in P
      BY <1>3, <1>5, <1>6, <3>2
    <3> QED
      BY <1>1, <3>1, <3>2
  <2>2. x.id < idgen'
    <3>1. x.id \in Int /\ x.id < idgen
      BY <1>9, <2>1
    <3> QED
      BY <1>9, <3>1
  <2>3. ASSUME NEW f \in Encoder, ec'[f].id = x.id PROVE x.enc = f
    <3>1. ec'[f].id = ec[f].id \/ ec'[f].id = idgen
      BY <1>4, <1>6
    <3>2. ec'[f].id # idgen
      BY <1>2, <1>9, <2>1, <2>3
    <3> QED
      BY <2>1, <2>3, <3>1, <3>2
  <2> QED
    BY <2>2, <2>3
<1>14. ASSUME NEW x \in net', NEW y \in net', x.inc = y.inc, x.id = y.id PROVE x.enc = y.enc
  <2>1. \A z \in P : z.inc = inc /\ z.enc = e /\ z.id = ec[e].id
    BY <1>3, <1>6
  <2> QED
    BY <1>1, <1>5, <1>14, <2>1
<1>15. IdsUnique'
  BY <1>10, <1>11, <1>12, <1>13, <1>14 DEF IdsUnique
<1>16. net \subseteq net' /\ inc <= inc'
  BY <1>1, <1>2
<1> QED
  BY <1>1, <1>7, <1>15, <1>16, SenderStep

\* A restarted sender begins again with fresh ids, and its packets are told
\* from those of its earlier incarnations.
LEMMA SenderRestartInv == ASSUME IndInv, SenderRestart PROVE IndInv'
<1>0. TypeOK /\ IdsUnique
  BY DEF IndInv
<1>1. /\ Faults < MaxFaults /\ inc' = inc + 1 /\ idgen' = EncoderNum /\ ec' = FreshEncoders
      /\ aborted' = FALSE /\ net' = net /\ UNCHANGED recvVars
  BY DEF SenderRestart
<1>2. EncoderNum \in Nat \ {0} /\ MaxId \in Nat /\ MaxId >= EncoderNum
  BY EncoderAssumption, BoundAssumption
<1>3. /\ FreshEncoders \in [Encoder -> [id : BlockId, count : 0..(K - 1)]]
      /\ \A e \in Encoder : FreshEncoders[e].id = e
  <2>1. \A e \in Encoder : e \in BlockId
    BY <1>2 DEF Encoder, BlockId
  <2>2. 0 \in 0..(K - 1)
    BY CodeAssumption
  <2> QED
    BY <2>1, <2>2 DEF FreshEncoders
<1>4. TypeOK'
  <2>1. idgen' \in EncoderNum..(MaxId + 1)
    BY <1>1, <1>2
  <2>2. inc' \in Nat /\ restarts' \in Nat /\ invalid' \in Nat /\ Faults' <= MaxFaults
    BY <1>0, <1>1, BoundAssumption DEF TypeOK, recvVars, Faults
  <2> QED
    BY <1>0, <1>1, <1>3, <2>1, <2>2 DEF TypeOK, recvVars
<1>5. \A x \in net : x.inc <= inc /\ x.inc \in Int /\ inc \in Int
  BY <1>0 DEF IdsUnique, TypeOK, Packet
<1>6. IdsUnique'
  <2>1. \A e \in Encoder : ec'[e].id < idgen' /\ ec'[e].id = e
    BY <1>1, <1>2, <1>3 DEF Encoder
  <2>2. \A x \in net' : x.inc <= inc' /\ x.inc # inc'
    BY <1>1, <1>5
  <2> QED
    BY <1>0, <1>1, <2>1, <2>2 DEF IdsUnique
<1>7. net \subseteq net' /\ inc <= inc'
  BY <1>0, <1>1 DEF TypeOK
<1> QED
  BY <1>1, <1>4, <1>6, <1>7, SenderStep


-----------------------------------------------------------------------------
(* The receiver. *)

\* The buffer that a packet of block b is decoded with.
LEMMA LookupSound ==
  ASSUME IndInv, NEW b \in BlockId, Accepts(b)
  PROVE  /\ Lookup(b) \in Buffer /\ BufferSound(b, Lookup(b)) /\ Lookup(b).got \subseteq net
         /\ Lookup(b).count # K
         /\ Lookup(b) = EmptyBuffer \/ Lookup(b) = buf[b]
<1>1. buf[b] \in Buffer /\ BufferSound(b, buf[b]) /\ buf[b].got \subseteq net
  BY DEF IndInv, TypeOK, BuffersSound
<1>2. CASE Resident(b) /\ ~Expired(b)
  <2>1. Lookup(b) = buf[b] /\ buf[b].count # K
    BY <1>2 DEF Lookup, Accepts, Complete
  <2> QED
    BY <1>1, <2>1
<1>3. CASE ~(Resident(b) /\ ~Expired(b))
  <2>1. Lookup(b) = EmptyBuffer
    BY <1>3 DEF Lookup
  <2>2. /\ EmptyBuffer \in Buffer /\ BufferSound(b, EmptyBuffer) /\ EmptyBuffer.got = {}
        /\ EmptyBuffer.count = 0
    BY EmptyBufferSound
  <2> HIDE DEF EmptyBuffer
  <2> QED
    BY <2>1, <2>2, CodeAssumption
<1> QED
  BY <1>2, <1>3

\* What the invariant says of the cache and the buffers is preserved when a
\* sound buffer d is put into the cache for block b.
LEMMA LookupStep ==
  ASSUME IndInv, NEW b \in BlockId, NEW d \in Buffer, BufferSound(b, d), d.got \subseteq net,
         lru' = LookupLru(b), buf' = LookupBuf(b, d), net' = net
  PROVE  lru' \in Seq(BlockId) /\ buf' \in [BlockId -> Buffer] /\ CacheFull' /\ BuffersSound'
<1>1. TypeOK /\ CacheFull /\ BuffersSound
  BY DEF IndInv
<1>2. /\ lru' \in Seq(BlockId) /\ IsInjective(lru') /\ Len(lru') = BufferNum
      /\ buf' \in [BlockId -> Buffer] /\ buf'[b] = d
      /\ \A c \in BlockId : c \notin ToSet(lru') => buf'[c] = EmptyBuffer
      /\ \A c \in BlockId : c # b => buf'[c] = buf[c] \/ buf'[c] = EmptyBuffer
  <2> HIDE DEF EmptyBuffer
  <2>1. /\ lru' \in Seq(BlockId) /\ IsInjective(lru') /\ Len(lru') = BufferNum
        /\ buf' \in [BlockId -> Buffer] /\ buf'[b] = d
        /\ \A c \in BlockId : c \notin ToSet(lru') => buf'[c] = EmptyBuffer
    BY <1>1, CacheLookup
  <2>2. CASE b \in ToSet(lru)
    <3>1. \A c \in BlockId : c # b => buf'[c] = buf[c]
      BY <1>1, <2>2, CacheLookup
    <3> QED
      BY <2>1, <3>1
  <2>3. CASE b \notin ToSet(lru)
    <3>1. buf'[Eldest] = EmptyBuffer /\ \A c \in BlockId : c # b /\ c # Eldest => buf'[c] = buf[c]
      BY <1>1, <2>3, CacheLookup
    <3> QED
      BY <2>1, <3>1
  <2> QED
    BY <2>2, <2>3
<1>3. CacheFull'
  BY <1>2 DEF CacheFull, EmptyBuffer
<1>4. ASSUME NEW c \in BlockId PROVE BufferSound(c, buf'[c]) /\ buf'[c].got \subseteq net
  <2>1. CASE c = b
    BY <1>2, <2>1
  <2>2. CASE buf'[c] = buf[c]
    BY <1>1, <2>2 DEF BuffersSound
  <2>3. CASE buf'[c] = EmptyBuffer
    <3>1. BufferSound(c, EmptyBuffer) /\ EmptyBuffer.got = {}
      BY EmptyBufferSound
    <3> HIDE DEF EmptyBuffer
    <3> QED
      BY <2>3, <3>1
  <2> QED
    BY <1>2, <2>1, <2>2, <2>3
<1>5. BuffersSound'
  BY <1>4 DEF BuffersSound, BufferSound
<1> QED
  BY <1>2, <1>3, <1>5

\* The cache's order changes, and nothing else does.
LEMMA TouchStep ==
  ASSUME IndInv, NEW b \in BlockId, Resident(b), lru' = LruGet(lru, b),
         UNCHANGED <<sendVars, buf, restarts, invalid, balance, corrupt>>
  PROVE  IndInv' /\ ToSet(lru') = ToSet(lru)
<1>0. TypeOK /\ IdsUnique /\ CacheFull /\ BuffersSound /\ OnlySentMessagesDelivered /\ BlockCountersBalance
  BY DEF IndInv
<1>1. lru' = LookupLru(b) /\ b \in ToSet(lru) /\ buf[b] \in Buffer
  BY <1>0 DEF LookupLru, Resident, LruKeys, TypeOK
<1>2. /\ lru' \in Seq(BlockId) /\ IsInjective(lru') /\ Len(lru') = BufferNum /\ ToSet(lru') = ToSet(lru)
  BY <1>0, <1>1, CacheLookup
<1>3. TypeOK'
  BY <1>0, <1>2 DEF TypeOK, sendVars, Faults
<1>4. CacheFull'
  BY <1>0, <1>2 DEF CacheFull
<1>5. IdsUnique' /\ BuffersSound' /\ OnlySentMessagesDelivered' /\ BlockCountersBalance'
  BY <1>0 DEF IdsUnique, BuffersSound, BufferSound, OnlySentMessagesDelivered, BlockCountersBalance,
              Live, Complete, sendVars
<1> QED
  BY <1>2, <1>3, <1>4, <1>5 DEF IndInv

\* rs_decode refuses the packet after the buffer was looked up.
LEMMA InvalidStep == ASSUME IndInv, NEW b \in BlockId, DecodeInvalid(b) PROVE IndInv'
<1>0. TypeOK /\ IdsUnique /\ OnlySentMessagesDelivered
  BY DEF IndInv
<1>1. /\ Faults < MaxFaults /\ invalid' = invalid + 1 /\ Accepts(b) /\ lru' = LookupLru(b)
      /\ buf' = LookupBuf(b, Lookup(b)) /\ balance' = balance + BlockCount(b) - ExpireCount(b)
      /\ UNCHANGED <<idgen, ec, inc, aborted, net, restarts, corrupt>>
  BY DEF DecodeInvalid, sendVars
<1>2. lru' \in Seq(BlockId) /\ buf' \in [BlockId -> Buffer] /\ CacheFull' /\ BuffersSound'
  <2>1. Lookup(b) \in Buffer /\ BufferSound(b, Lookup(b)) /\ Lookup(b).got \subseteq net
    BY <1>1, LookupSound
  <2> QED
    BY <1>1, <2>1, LookupStep
<1>3. TypeOK'
  <2>1. BlockCount(b) \in Int /\ ExpireCount(b) \in Int
    BY DEF BlockCount, ExpireCount
  <2>2. balance' \in Int
    BY <1>0, <1>1, <2>1 DEF TypeOK
  <2>3. invalid' \in Nat /\ Faults' <= MaxFaults
    BY <1>0, <1>1, BoundAssumption DEF TypeOK, Faults
  <2> QED
    BY <1>0, <1>1, <1>2, <2>2, <2>3 DEF TypeOK
<1>4. IdsUnique' /\ OnlySentMessagesDelivered'
  BY <1>0, <1>1 DEF IdsUnique, OnlySentMessagesDelivered
<1>5. BlockCountersBalance'
  <2>1. invalid' # 0
    BY <1>0, <1>1 DEF TypeOK
  <2> QED
    BY <2>1 DEF BlockCountersBalance
<1> QED
  BY <1>2, <1>3, <1>4, <1>5 DEF IndInv

\* A millisecond passes.
LEMMA TickStep == ASSUME IndInv, Tick PROVE IndInv' /\ \A b \in BlockId : buf'[b].got = buf[b].got
<1>0. TypeOK /\ IdsUnique /\ CacheFull /\ BuffersSound /\ OnlySentMessagesDelivered /\ BlockCountersBalance
  BY DEF IndInv
<1>1. /\ buf' = [b \in BlockId |->
                  IF buf[b].used /\ buf[b].age <= Timeout THEN [buf[b] EXCEPT !.age = @ + 1]
                  ELSE buf[b]]
      /\ UNCHANGED <<idgen, ec, inc, aborted, net, lru, restarts, invalid, balance, corrupt>>
  BY DEF Tick, sendVars
<1>2. ASSUME NEW b \in BlockId
      PROVE  /\ buf'[b] \in Buffer /\ buf'[b].count = buf[b].count /\ buf'[b].mask = buf[b].mask
             /\ buf'[b].got = buf[b].got /\ buf'[b].used = buf[b].used /\ buf'[b].out = buf[b].out
             /\ buf[b].used \/ buf'[b] = buf[b]
  <2>1. buf[b] \in Buffer
    BY <1>0 DEF TypeOK
  <2>2. CASE buf[b].used /\ buf[b].age <= Timeout
    <3>1. buf'[b] = [buf[b] EXCEPT !.age = buf[b].age + 1]
      BY <1>1, <2>2
    <3>2. buf[b].age + 1 \in Nat
      BY <2>1 DEF Buffer
    <3>3. PICK d \in Buffer : d = buf[b]
      BY <2>1
    <3>4. PICK n \in Nat : n = buf[b].age + 1
      BY <3>2
    <3>5. buf'[b] = [d EXCEPT !.age = n]
      BY <3>1, <3>3, <3>4
    <3>6. /\ [d EXCEPT !.age = n] \in Buffer /\ [d EXCEPT !.age = n].count = d.count
          /\ [d EXCEPT !.age = n].mask = d.mask /\ [d EXCEPT !.age = n].got = d.got
          /\ [d EXCEPT !.age = n].used = d.used /\ [d EXCEPT !.age = n].out = d.out
      BY DEF Buffer
    <3> QED
      BY <2>2, <3>3, <3>5, <3>6
  <2>3. CASE ~(buf[b].used /\ buf[b].age <= Timeout)
    BY <1>1, <2>1, <2>3
  <2> QED
    BY <2>2, <2>3
<1>3. TypeOK'
  <2>1. buf' \in [BlockId -> Buffer]
    BY <1>1, <1>2
  <2> QED
    BY <1>0, <1>1, <2>1 DEF TypeOK, Faults
<1>4. CacheFull'
  <2>1. ASSUME NEW b \in BlockId, b \notin ToSet(lru') PROVE buf'[b] = EmptyBuffer
    <3>1. buf[b] = EmptyBuffer /\ ~EmptyBuffer.used
      BY <1>0, <1>1, <2>1, EmptyBufferSound DEF CacheFull
    <3> QED
      BY <1>2, <3>1
  <2> QED
    BY <1>0, <1>1, <2>1 DEF CacheFull, EmptyBuffer
<1>5. BuffersSound'
  BY <1>0, <1>1, <1>2 DEF BuffersSound, BufferSound
<1>6. BlockCountersBalance'
  <2>1. {b \in BlockId : Live(b)}' = {b \in BlockId : Live(b)}
    BY <1>2 DEF Live, Complete
  <2> QED
    BY <1>0, <1>1, <2>1 DEF BlockCountersBalance
<1>7. IdsUnique' /\ OnlySentMessagesDelivered'
  BY <1>0, <1>1 DEF IdsUnique, OnlySentMessagesDelivered
<1> QED
  BY <1>2, <1>3, <1>4, <1>5, <1>6, <1>7 DEF IndInv

\* The receiver starts, or starts again, with an empty cache.
LEMMA FreshReceiver ==
  ASSUME lru = FreshCache, buf = [b \in BlockId |-> EmptyBuffer], balance = 0
  PROVE  /\ lru \in Seq(BlockId) /\ buf \in [BlockId -> Buffer] /\ balance \in Int
         /\ CacheFull /\ BuffersSound /\ BlockCountersBalance
<1>1. /\ EmptyBuffer \in Buffer /\ ~EmptyBuffer.used /\ EmptyBuffer.got = {}
      /\ \A b : BufferSound(b, EmptyBuffer)
  BY EmptyBufferSound
<1>2. /\ FreshCache \in Seq(BlockId) /\ IsInjective(FreshCache) /\ Len(FreshCache) = BufferNum
  BY FreshCacheFull
<1> HIDE DEF EmptyBuffer, FreshCache
<1>3. buf \in [BlockId -> Buffer] /\ \A b \in BlockId : buf[b] = EmptyBuffer
  BY <1>1
<1>4. CacheFull
  BY <1>2, <1>3 DEF CacheFull
<1>5. BuffersSound
  BY <1>1, <1>3 DEF BuffersSound
<1>6. {b \in BlockId : Live(b)} = {}
  BY <1>1, <1>3 DEF Live
<1>7. BlockCountersBalance
  BY <1>6, FS_EmptySet DEF BlockCountersBalance
<1> QED
  BY <1>2, <1>3, <1>4, <1>5, <1>7


\* The receiving process starts again.
LEMMA ReceiverRestartInv == ASSUME IndInv, ReceiverRestart PROVE IndInv'
<1>0. TypeOK /\ IdsUnique /\ OnlySentMessagesDelivered
  BY DEF IndInv
<1>1. /\ Faults < MaxFaults /\ restarts' = restarts + 1 /\ lru' = FreshCache
      /\ buf' = [b \in BlockId |-> EmptyBuffer] /\ balance' = 0
      /\ UNCHANGED <<idgen, ec, inc, aborted, net, invalid, corrupt>>
  BY DEF ReceiverRestart, sendVars
<1>2. /\ EmptyBuffer \in Buffer /\ ~EmptyBuffer.used /\ EmptyBuffer.got = {}
      /\ \A b : BufferSound(b, EmptyBuffer)
  BY EmptyBufferSound
<1>3. /\ FreshCache \in Seq(BlockId) /\ IsInjective(FreshCache) /\ Len(FreshCache) = BufferNum
  BY FreshCacheFull
<1>4. buf' \in [BlockId -> Buffer] /\ \A b \in BlockId : buf'[b] = EmptyBuffer
  <2> HIDE DEF EmptyBuffer
  <2> QED
    BY <1>1, <1>2
<1>5. TypeOK'
  <2>1. restarts' \in Nat /\ Faults' <= MaxFaults
    BY <1>0, <1>1, BoundAssumption DEF TypeOK, Faults
  <2>2. lru' \in Seq(BlockId)
    BY <1>1, <1>3
  <2> QED
    BY <1>0, <1>1, <1>4, <2>1, <2>2 DEF TypeOK
<1>6. CacheFull'
  <2>1. IsInjective(lru') /\ Len(lru') = BufferNum
    BY <1>1, <1>3
  <2> QED
    BY <1>4, <2>1 DEF CacheFull, EmptyBuffer
<1>7. BuffersSound'
  <2>1. \A b \in BlockId : BufferSound(b, buf'[b]) /\ buf'[b].got \subseteq net'
    <3> HIDE DEF EmptyBuffer
    <3> QED
      BY <1>2, <1>4
  <2> QED
    BY <2>1 DEF BuffersSound, BufferSound
<1>8. BlockCountersBalance'
  <2>1. \A b \in BlockId : ~buf'[b].used
    <3> HIDE DEF EmptyBuffer
    <3> QED
      BY <1>2, <1>4
  <2>2. {b \in BlockId : Live(b)}' = {}
    BY <2>1 DEF Live
  <2> QED
    BY <1>1, <2>2, FS_EmptySet DEF BlockCountersBalance
<1>9. IdsUnique' /\ OnlySentMessagesDelivered'
  BY <1>0, <1>1 DEF IdsUnique, OnlySentMessagesDelivered
<1> QED
  BY <1>5, <1>6, <1>7, <1>8, <1>9 DEF IndInv

-----------------------------------------------------------------------------
(* The counters. *)

\* Taking a block out of a set of blocks.
LEMMA WithoutBlock ==
  ASSUME NEW S \in SUBSET BlockId, NEW v
  PROVE  /\ IsFiniteSet(S) /\ Cardinality(S) \in Nat
         /\ Cardinality(S) = Cardinality(S \ {v}) + (IF v \in S THEN 1 ELSE 0)
<1>1. IsFiniteSet(BlockId)
  BY BoundAssumption, FS_Interval DEF BlockId
<1>2. IsFiniteSet(S) /\ Cardinality(S) \in Nat
  BY <1>1, FS_Subset, FS_CardinalityType
<1>3. CASE v \in S
  <2>1. Cardinality(S \ {v}) = Cardinality(S) - 1
    BY <1>2, <1>3, FS_RemoveElement
  <2> QED
    BY <1>2, <1>3, <2>1
<1>4. CASE v \notin S
  <2>1. S \ {v} = S
    BY <1>4
  <2> QED
    BY <1>2, <1>4, <2>1
<1> QED
  BY <1>2, <1>3, <1>4

\* The block whose buffer is reset for b counts as expired exactly when it was
\* live; b counts as new exactly when its buffer has nothing yet.
LEMMA CountersOfLookup ==
  ASSUME IndInv, NEW b \in BlockId, Accepts(b)
  PROVE  BlockCount(b) - ExpireCount(b)
           = 1 - (IF Live(IF Resident(b) THEN b ELSE Eldest) THEN 1 ELSE 0)
<1>1. ~EmptyBuffer.used
  BY EmptyBufferSound
<1>2. CASE Resident(b) /\ ~Expired(b)
  <2>1. Lookup(b) = buf[b] /\ ~Complete(b)
    BY <1>2 DEF Lookup, Accepts
  <2> QED
    BY <1>2, <2>1 DEF BlockCount, ExpireCount, Live
<1>3. CASE Resident(b) /\ Expired(b)
  <2>1. Lookup(b) = EmptyBuffer
    BY <1>3 DEF Lookup
  <2> QED
    BY <1>1, <1>3, <2>1 DEF BlockCount, ExpireCount
<1>4. CASE ~Resident(b)
  <2>1. Lookup(b) = EmptyBuffer /\ (~Live(Eldest) \/ Expired(Eldest))
    BY <1>4 DEF Lookup, Accepts, Reusable
  <2> QED
    BY <1>1, <1>4, <2>1 DEF BlockCount, ExpireCount
<1> QED
  BY <1>2, <1>3, <1>4

\* How the number of blocks that wait in a buffer changes when b gets buffer d.
LEMMA LiveBlocks ==
  ASSUME IndInv, NEW b \in BlockId, NEW d \in Buffer, d.used,
         NEW m, m = LookupBuf(b, d)
  PROVE  Cardinality({c \in BlockId : m[c].used /\ m[c].count # K})
           = Cardinality({c \in BlockId : Live(c)})
             - (IF Live(IF Resident(b) THEN b ELSE Eldest) THEN 1 ELSE 0)
             + (IF d.count = K THEN 0 ELSE 1)
<1> DEFINE L == {c \in BlockId : Live(c)}
           M == {c \in BlockId : m[c].used /\ m[c].count # K}
           v == IF Resident(b) THEN b ELSE Eldest
<1>0. TypeOK /\ CacheFull
  BY DEF IndInv
<1>1. /\ m[b] = d /\ (\A c \in BlockId : c # b /\ c # v => m[c] = buf[c])
      /\ v \in BlockId /\ (v # b => ~m[v].used /\ ~Live(b))
  <2>1. m[b] = d
    BY <1>0, CacheLookup
  <2>2. CASE b \in ToSet(lru)
    <3>1. v = b
      BY <2>2 DEF Resident, LruKeys
    <3>2. \A c \in BlockId : c # b => m[c] = buf[c]
      BY <1>0, <2>2, CacheLookup
    <3> QED
      BY <2>1, <3>1, <3>2
  <2>3. CASE b \notin ToSet(lru)
    <3>1. v = Eldest
      BY <2>3 DEF Resident, LruKeys
    <3>2. /\ Eldest \in BlockId /\ m[Eldest] = EmptyBuffer
          /\ \A c \in BlockId : c # b /\ c # Eldest => m[c] = buf[c]
      BY <1>0, <2>3, CacheLookup
    <3>3. buf[b] = EmptyBuffer /\ ~EmptyBuffer.used
      BY <1>0, <2>3, EmptyBufferSound DEF CacheFull
    <3>4. ~m[Eldest].used /\ ~Live(b)
      <4> HIDE DEF EmptyBuffer
      <4> QED
        BY <3>2, <3>3 DEF Live
    <3> QED
      BY <2>1, <3>1, <3>2, <3>4
  <2> QED
    BY <2>2, <2>3
<1> HIDE DEF v
<1>2. b \in M <=> d.count # K
  BY <1>1
<1>3. M \ {b} = L \ {v}
  BY <1>1 DEF Live, Complete
<1>4. v \in L <=> Live(v)
  BY <1>1
<1>5. M \in SUBSET BlockId /\ L \in SUBSET BlockId
  OBVIOUS
<1> HIDE DEF M, L
<1>6. /\ Cardinality(M) = Cardinality(M \ {b}) + (IF b \in M THEN 1 ELSE 0)
      /\ Cardinality(L) = Cardinality(L \ {v}) + (IF v \in L THEN 1 ELSE 0)
  BY <1>5, WithoutBlock
<1>7. Cardinality(M \ {b}) \in Nat
  <2>1. M \ {b} \in SUBSET BlockId
    BY <1>5
  <2> QED
    BY <2>1, WithoutBlock
<1>8. Cardinality(M) = Cardinality(L) - (IF Live(v) THEN 1 ELSE 0) + (IF d.count = K THEN 0 ELSE 1)
  BY <1>2, <1>3, <1>4, <1>6, <1>7
<1> QED
  BY <1>8 DEF M, L, v


-----------------------------------------------------------------------------
(* Decoding. *)

\* What Decode(pkt) does, in terms of the operators of this module.
LEMMA DecodeUnfolded ==
  ASSUME NEW pkt, Decode(pkt)
  PROVE  LET d == Lookup(pkt.id)
             got == d.got \cup {pkt}
             complete == d.count + 1 = K
         IN  /\ Accepts(pkt.id) /\ Degree(pkt.index) \notin d.mask
             /\ lru' = LookupLru(pkt.id)
             /\ \E restored \in RestoredBy(d, pkt) :
                  buf' = LookupBuf(pkt.id, Accumulated(d, pkt, restored))
             /\ balance' = balance + BlockCount(pkt.id) - ExpireCount(pkt.id)
                                   - (IF complete THEN 1 ELSE 0)
             /\ corrupt' \in BOOLEAN
             /\ corrupt' => corrupt \/ (complete /\ ~Sound(got))
             /\ UNCHANGED <<idgen, ec, inc, aborted, net, restarts, invalid>>
<1> DEFINE d == Lookup(pkt.id)
           got == d.got \cup {pkt}
           mask == d.mask \cup {Degree(pkt.index)}
           complete == d.count + 1 = K
<1>1. PICK restored \in RestoredBy(d, pkt) :
        /\ buf' = LookupBuf(pkt.id, Accumulated(d, pkt, restored))
        /\ corrupt' = (corrupt \/ (restored # {} /\ ~Sound(got)))
  BY DEF Decode, RestoredBy, Accumulated
<1>2. restored # {} => complete
  BY DEF RestoredBy
<1>3. /\ Accepts(pkt.id) /\ Degree(pkt.index) \notin d.mask /\ lru' = LookupLru(pkt.id)
      /\ balance' = balance + BlockCount(pkt.id) - ExpireCount(pkt.id) - (IF complete THEN 1 ELSE 0)
      /\ UNCHANGED <<idgen, ec, inc, aborted, net, restarts, invalid>>
  BY DEF Decode, IsDuplicate, sendVars
<1> HIDE DEF d, got, complete
<1>4. corrupt' \in BOOLEAN /\ (corrupt' => corrupt \/ (complete /\ ~Sound(got)))
  BY <1>1, <1>2
<1> QED
  BY <1>1, <1>3, <1>4 DEF d, got, complete

\* Packets of one block id that one incarnation of the sender has sent belong to
\* one block.
LEMMA SameBlockById ==
  ASSUME IndInv, inc = 0, NEW x \in net, NEW y \in net, x.id = y.id
  PROVE  SameBlock(x, y)
<1>1. x.inc \in Nat /\ y.inc \in Nat /\ x.inc <= inc /\ y.inc <= inc
  BY DEF IndInv, TypeOK, Packet, IdsUnique
<1>2. x.inc = y.inc
  BY <1>1
<1> QED
  BY <1>2 DEF IndInv, IdsUnique, SameBlock

\* Unless the sender has restarted, K packets of a buffer are of one block.
LEMMA OneBlock ==
  ASSUME IndInv, inc = 0, NEW b, NEW d, BufferSound(b, d), d.got \subseteq net, d.count = K
  PROVE  Sound(d.got)
<1>1. Cardinality(d.got) = K
  BY DEF BufferSound
<1>2. \A x \in d.got : x \in net /\ x.id = b
  BY DEF BufferSound
<1>3. \A x, y \in d.got : SameBlock(x, y)
  BY <1>2, SameBlockById
<1> QED
  BY <1>1, <1>3 DEF Sound

\* A packet is accumulated, and the K-th one completes the block.
LEMMA DecodeInv == ASSUME IndInv, NEW pkt \in net, Decode(pkt) PROVE IndInv'
<1>0. TypeOK /\ IdsUnique /\ OnlySentMessagesDelivered /\ BlockCountersBalance
  BY DEF IndInv
<1> DEFINE b == pkt.id
           d == Lookup(b)
           got == d.got \cup {pkt}
           complete == d.count + 1 = K
<1>r. PICK restored \in RestoredBy(d, pkt) : buf' = LookupBuf(b, Accumulated(d, pkt, restored))
  BY DecodeUnfolded
<1> DEFINE a == Accumulated(d, pkt, restored)
<1>1. /\ Accepts(b) /\ Degree(pkt.index) \notin d.mask
      /\ lru' = LookupLru(b) /\ buf' = LookupBuf(b, a)
      /\ balance' = balance + BlockCount(b) - ExpireCount(b) - (IF complete THEN 1 ELSE 0)
      /\ corrupt' \in BOOLEAN
      /\ corrupt' => corrupt \/ (complete /\ ~Sound(got))
      /\ UNCHANGED <<idgen, ec, inc, aborted, net, restarts, invalid>>
  BY <1>r, DecodeUnfolded
<1>2. pkt \in Packet /\ b \in BlockId
  BY <1>0 DEF TypeOK, Packet
<1>3. d \in Buffer /\ BufferSound(b, d) /\ d.got \subseteq net /\ d.count # K
  BY <1>1, <1>2, LookupSound
<1>4. a \in Buffer /\ BufferSound(b, a)
  <2> HIDE DEF d, b, a
  <2>1. pkt.id = b
    BY DEF b
  <2> QED
    BY <1>r, <1>1, <1>2, <1>3, <2>1, AccumulatedSound DEF a
<1>5. a.count = d.count + 1 /\ a.got = got /\ a.used
  BY DEF Accumulated
<1>6. got \subseteq net
  BY <1>3
<1> HIDE DEF a, got, complete, d
<1>7. lru' \in Seq(BlockId) /\ buf' \in [BlockId -> Buffer] /\ CacheFull' /\ BuffersSound'
  BY <1>1, <1>2, <1>4, <1>5, <1>6, LookupStep
<1>8. TypeOK'
  <2>1. BlockCount(b) \in Int /\ ExpireCount(b) \in Int
    BY DEF BlockCount, ExpireCount
  <2>2. balance' \in Int
    BY <1>0, <1>1, <2>1 DEF TypeOK
  <2> QED
    BY <1>0, <1>1, <1>7, <2>2 DEF TypeOK, Faults
<1>9. IdsUnique'
  BY <1>0, <1>1 DEF IdsUnique
<1>10. OnlySentMessagesDelivered'
  <2> SUFFICES ASSUME inc' = 0 PROVE ~corrupt'
    BY DEF OnlySentMessagesDelivered
  <2>1. inc = 0 /\ ~corrupt
    BY <1>0, <1>1 DEF OnlySentMessagesDelivered
  <2>2. ASSUME complete PROVE Sound(got)
    <3>1. a.count = K /\ a.got \subseteq net
      BY <1>5, <1>6, <2>2 DEF complete
    <3> QED
      BY <1>4, <1>5, <2>1, <3>1, OneBlock
  <2> QED
    BY <1>1, <2>1, <2>2
<1>11. BlockCountersBalance'
  <2> SUFFICES ASSUME invalid' = 0 PROVE balance' = Cardinality({c \in BlockId : Live(c)}')
    BY DEF BlockCountersBalance
  <2> DEFINE n == IF Live(IF Resident(b) THEN b ELSE Eldest) THEN 1 ELSE 0
             L == {c \in BlockId : Live(c)}
             M == {c \in BlockId : buf'[c].used /\ buf'[c].count # K}
  <2>1. balance = Cardinality(L)
    BY <1>0, <1>1 DEF BlockCountersBalance
  <2>2. BlockCount(b) - ExpireCount(b) = 1 - n
    BY <1>1, <1>2, CountersOfLookup
  <2>3. Cardinality(M) = Cardinality(L) - n + (IF a.count = K THEN 0 ELSE 1)
    BY <1>1, <1>2, <1>4, <1>5, LiveBlocks
  <2>4. M = {c \in BlockId : Live(c)}'
    BY DEF Live, Complete
  <2>5. complete <=> a.count = K
    BY <1>5 DEF complete
  <2>6. BlockCount(b) \in Int /\ ExpireCount(b) \in Int /\ n \in Int /\ balance \in Int
    BY <1>0 DEF BlockCount, ExpireCount, TypeOK
  <2> HIDE DEF n, L, M, b
  <2>7. balance' = Cardinality(M)
    BY <1>1, <2>1, <2>2, <2>3, <2>5, <2>6
  <2> QED
    BY <2>4, <2>7
<1> QED
  BY <1>7, <1>8, <1>9, <1>10, <1>11 DEF IndInv

-----------------------------------------------------------------------------
(* The invariant. *)

\* The system starts in a state that satisfies the invariant.
LEMMA RsInit == Init => IndInv
<1> SUFFICES ASSUME Init PROVE IndInv
  OBVIOUS
<1>1. /\ idgen = EncoderNum /\ ec = FreshEncoders /\ inc = 0 /\ aborted = FALSE /\ net = {}
      /\ lru = FreshCache /\ buf = [b \in BlockId |-> EmptyBuffer]
      /\ restarts = 0 /\ invalid = 0 /\ balance = 0 /\ corrupt = FALSE
  BY DEF Init
<1>2. /\ lru \in Seq(BlockId) /\ buf \in [BlockId -> Buffer] /\ balance \in Int
      /\ CacheFull /\ BuffersSound /\ BlockCountersBalance
  BY <1>1, FreshReceiver
<1>3. EncoderNum \in Nat \ {0} /\ MaxId \in Nat /\ MaxId >= EncoderNum
  BY EncoderAssumption, BoundAssumption
<1>4. /\ FreshEncoders \in [Encoder -> [id : BlockId, count : 0..(K - 1)]]
      /\ \A e \in Encoder : FreshEncoders[e].id = e /\ e < EncoderNum
  <2>1. \A e \in Encoder : e \in BlockId /\ e < EncoderNum
    BY <1>3 DEF Encoder, BlockId
  <2>2. 0 \in 0..(K - 1)
    BY CodeAssumption
  <2> QED
    BY <2>1, <2>2 DEF FreshEncoders
<1>5. TypeOK
  <2>1. idgen \in EncoderNum..(MaxId + 1) /\ Faults <= MaxFaults
    BY <1>1, <1>3, BoundAssumption DEF Faults
  <2> QED
    BY <1>1, <1>2, <1>4, <2>1 DEF TypeOK
<1>6. IdsUnique
  <2> HIDE DEF FreshEncoders
  <2> QED
    BY <1>1, <1>4 DEF IdsUnique
<1>7. OnlySentMessagesDelivered
  BY <1>1 DEF OnlySentMessagesDelivered
<1> QED
  BY <1>2, <1>5, <1>6, <1>7 DEF IndInv

\* Every step preserves the invariant.
LEMMA RsNext == IndInv /\ [Next]_vars => IndInv'
<1> SUFFICES ASSUME IndInv, [Next]_vars PROVE IndInv'
  OBVIOUS
<1>0. TypeOK /\ IdsUnique /\ CacheFull /\ BuffersSound /\ OnlySentMessagesDelivered /\ BlockCountersBalance
  BY DEF IndInv
<1>1. ASSUME NEW e \in Encoder, Encode(e) PROVE IndInv'
  BY <1>1, EncodeInv
<1>2. CASE EncodeOversize
  <2>1. aborted' = TRUE /\ UNCHANGED <<idgen, ec, inc, net>> /\ UNCHANGED recvVars
    BY <1>2 DEF EncodeOversize
  <2>2. TypeOK'
    BY <1>0, <2>1 DEF TypeOK, recvVars, Faults
  <2>3. IdsUnique'
    BY <1>0, <2>1 DEF IdsUnique
  <2>4. net \subseteq net' /\ inc <= inc'
    BY <1>0, <2>1 DEF TypeOK
  <2> QED
    BY <2>1, <2>2, <2>3, <2>4, SenderStep
<1>3. CASE SenderRestart
  BY <1>3, SenderRestartInv
<1>4. ASSUME NEW pkt \in net, Receive(pkt) PROVE IndInv'
  <2>0. pkt.id \in BlockId
    BY <1>0 DEF TypeOK, Packet
  <2>1. CASE DecodeProcessed(pkt)
    BY <2>0, <2>1, TouchStep DEF DecodeProcessed
  <2>2. CASE DecodeBufferFull(pkt)
    <3>1. UNCHANGED <<idgen, ec, inc, aborted, net, lru, buf, restarts, invalid, balance, corrupt>>
      BY <2>2 DEF DecodeBufferFull, vars, sendVars, recvVars
    <3> QED
      BY <1>0, <3>1 DEF IndInv, TypeOK, IdsUnique, CacheFull, BuffersSound, BufferSound, Faults,
         OnlySentMessagesDelivered, BlockCountersBalance, Live, Complete
  <2>3. CASE DecodeDuplicate(pkt)
    BY <2>0, <2>3, TouchStep DEF DecodeDuplicate
  <2>4. CASE Decode(pkt)
    BY <2>4, DecodeInv
  <2> QED
    BY <1>4, <2>1, <2>2, <2>3, <2>4 DEF Receive
<1>5. ASSUME NEW b \in BlockId, DecodeInvalid(b) PROVE IndInv'
  BY <1>5, InvalidStep
<1>6. CASE Tick
  BY <1>6, TickStep
<1>7. CASE ReceiverRestart
  BY <1>7, ReceiverRestartInv
<1>8. CASE UNCHANGED vars
  <2>1. UNCHANGED <<idgen, ec, inc, aborted, net, lru, buf, restarts, invalid, balance, corrupt>>
    BY <1>8 DEF vars, sendVars, recvVars
  <2> QED
    BY <1>0, <2>1 DEF IndInv, TypeOK, IdsUnique, CacheFull, BuffersSound, BufferSound, Faults,
       OnlySentMessagesDelivered, BlockCountersBalance, Live, Complete
<1> QED
  BY <1>1, <1>2, <1>3, <1>4, <1>5, <1>6, <1>7, <1>8 DEF Next


\* The inductive invariant holds for every code, number of encoders, cache
\* size and timeout.
THEOREM RsFecInvariant == Spec => []IndInv
  BY RsInit, RsNext, PTL DEF Spec

\* The types of all variables, in particular of the packets and the buffers.
THEOREM RsFecTypeCorrect == Spec => []TypeOK
<1>1. IndInv => TypeOK
  BY DEF IndInv
<1> QED
  BY <1>1, RsFecInvariant, PTL

-----------------------------------------------------------------------------
(* What follows from it. *)

\* The decode buffers are neither lost nor shared: lrumap_peek, lrumap_remove
\* and lrumap_put in nt_rs_fec_decode meet the cache their ensure()s expect.
THEOREM CacheKeepsItsBuffers == Spec => []CacheHoldsAllBuffers
<1>1. IndInv => CacheHoldsAllBuffers
  <2> SUFFICES ASSUME IndInv PROVE CacheHoldsAllBuffers
    OBVIOUS
  <2>1. lru \in Seq(BlockId) /\ CacheFull
    BY DEF IndInv, TypeOK
  <2>2. Cardinality(ToSet(lru)) = Len(lru)
    BY <2>1, DistinctLength DEF CacheFull
  <2> QED
    BY <2>1, <2>2 DEF CacheHoldsAllBuffers, CacheFull, LruKeys, Resident
<1> QED
  BY <1>1, RsFecInvariant, PTL

\* A complete buffer misses exactly the N - K degrees that erasure_degrees has
\* room for and that the code corrects.
THEOREM ErasuresAlwaysFit == Spec => []ErasuresFitTheCode
<1>1. IndInv => ErasuresFitTheCode
  <2> SUFFICES ASSUME IndInv, NEW b \in BlockId, Complete(b)
               PROVE  Cardinality((0..(N - 1)) \ buf[b].mask) = T
    BY DEF ErasuresFitTheCode
  <2> DEFINE A == 0..(N - 1)
             M == buf[b].mask
  <2>1. M \in SUBSET A /\ Cardinality(M) = K
    BY DEF IndInv, TypeOK, Buffer, BuffersSound, BufferSound, Complete
  <2>2. IsFiniteSet(A) /\ Cardinality(A) = N
    BY FS_Interval, CodeAssumption
  <2> HIDE DEF A, M
  <2>3. IsFiniteSet(M)
    BY <2>1, <2>2, FS_Subset
  <2>4. Cardinality(A \ M) = Cardinality(A) - Cardinality(A \cap M)
    BY <2>2, FS_Difference
  <2>5. A \cap M = M
    BY <2>1
  <2>6. Cardinality(A \ M) = N - K
    BY <2>1, <2>2, <2>4, <2>5
  <2> QED
    BY <2>6 DEF A, M, T
<1> QED
  BY <1>1, RsFecInvariant, PTL

\* No message of a block is delivered twice while the block has its buffer, and
\* any K of its N packets deliver all of them: for every code (N, K) and
\* whatever the order of the packets.  After a restart of the sender the second
\* half holds of the buffers whose packets are of one block.
THEOREM BlocksAreDeliveredOnce == Spec => []BlockDeliveredOnce
<1>1. IndInv => BlockDeliveredOnce
  <2> SUFFICES ASSUME IndInv, NEW b \in BlockId, NEW i \in RawIndex
               PROVE  LET arrived == Degree(i) \in buf[b].mask
                          restored == Complete(b) /\ (inc = 0 \/ Sound(buf[b].got))
                      IN  /\ buf[b].out[i] <= 1
                          /\ arrived \/ restored => buf[b].out[i] = 1
                          /\ ~arrived /\ ~Complete(b) => buf[b].out[i] = 0
    BY DEF BlockDeliveredOnce
  <2>1. BufferSound(b, buf[b]) /\ buf[b].got \subseteq net
    BY DEF IndInv, BuffersSound
  <2>2. Complete(b) /\ inc = 0 => Sound(buf[b].got)
    BY <2>1, OneBlock DEF Complete
  <2> QED
    BY <2>1, <2>2 DEF BufferSound, Complete
<1> QED
  BY <1>1, RsFecInvariant, PTL

\* Unless the sender restarts, nothing is ever restored from packets of two
\* blocks: for every number of encoders that share an idgen, any loss,
\* repetition and reordering of packets and restarts of the receiver.
THEOREM RestoredMessagesWereSent == Spec => []OnlySentMessagesDelivered
<1>1. IndInv => OnlySentMessagesDelivered
  BY DEF IndInv
<1> QED
  BY <1>1, RsFecInvariant, PTL

\* The decoder's block counters account for every block.
THEOREM BlockCountersAgree == Spec => []BlockCountersBalance
<1>1. IndInv => BlockCountersBalance
  BY DEF IndInv
<1> QED
  BY <1>1, RsFecInvariant, PTL

\* A live block is resident.
LEMMA LiveIsResident ==
  ASSUME IndInv, NEW b \in BlockId, Live(b)
  PROVE  b \in ToSet(lru)
<1>1. ~EmptyBuffer.used
  BY EmptyBufferSound
<1> QED
  BY <1>1 DEF IndInv, CacheFull, Live

\* Putting a buffer into the cache for b drops no live, unexpired block, when b
\* was accepted and its own buffer only grows.
LEMMA LookupKeepsLive ==
  ASSUME IndInv, NEW b \in BlockId, Accepts(b), NEW d \in Buffer, Lookup(b).got \subseteq d.got,
         lru' = LookupLru(b), buf' = LookupBuf(b, d),
         NEW c \in BlockId, Live(c), ~Expired(c)
  PROVE  c \in ToSet(lru') /\ buf[c].got \subseteq buf'[c].got
<1>0. TypeOK /\ CacheFull
  BY DEF IndInv
<1>1. c \in ToSet(lru)
  BY LiveIsResident
<1>2. b \in ToSet(lru') /\ buf'[b] = d
  BY <1>0, CacheLookup
<1>3. CASE c = b
  <2>1. Lookup(b) = buf[b]
    BY <1>1, <1>3 DEF Lookup, Resident, LruKeys
  <2> QED
    BY <1>2, <1>3, <2>1
<1>4. CASE c # b /\ b \in ToSet(lru)
  <2>1. ToSet(lru') = ToSet(lru) /\ buf'[c] = buf[c]
    BY <1>0, <1>4, CacheLookup
  <2> QED
    BY <1>1, <2>1
<1>5. CASE c # b /\ b \notin ToSet(lru)
  <2>1. c # Eldest
    BY <1>5 DEF Accepts, Resident, LruKeys, Reusable
  <2>2. ToSet(lru') = (ToSet(lru) \ {Eldest}) \cup {b}
    BY <1>0, <1>5, CacheLookup
  <2>3. buf'[c] = buf[c]
    BY <1>0, <1>5, <2>1, CacheLookup
  <2> QED
    BY <1>1, <1>5, <2>1, <2>2, <2>3
<1> QED
  BY <1>3, <1>4, <1>5

\* A block that is waiting for packets and has not timed out loses neither its
\* buffer nor what has been accumulated in it, for every size of the cache.
THEOREM LiveBlocksAreKept == Spec => LiveBlockNeverDropped
<1> DEFINE A == \A b \in BlockId :
                  Live(b) /\ ~Expired(b) /\ restarts' = restarts
                  => b \in LruKeys(lru') /\ buf[b].got \subseteq buf'[b].got
<1>1. ASSUME IndInv, [Next]_vars PROVE A
  <2> SUFFICES ASSUME NEW c \in BlockId, Live(c), ~Expired(c), restarts' = restarts
               PROVE  c \in ToSet(lru') /\ buf[c].got \subseteq buf'[c].got
    BY DEF LruKeys
  <2>0. c \in ToSet(lru) /\ TypeOK
    BY <1>1, LiveIsResident DEF IndInv
  <2>1. CASE UNCHANGED <<lru, buf>>
    BY <2>0, <2>1
  <2>2. ASSUME NEW pkt \in net, Receive(pkt) PROVE c \in ToSet(lru') /\ buf[c].got \subseteq buf'[c].got
    <3>0. pkt.id \in BlockId /\ pkt \in Packet
      BY <2>0 DEF TypeOK, Packet
    <3>1. CASE DecodeProcessed(pkt)
      BY <1>1, <2>0, <3>0, <3>1, TouchStep DEF DecodeProcessed
    <3>2. CASE DecodeBufferFull(pkt)
      BY <2>0, <3>2 DEF DecodeBufferFull, vars, recvVars
    <3>3. CASE DecodeDuplicate(pkt)
      BY <1>1, <2>0, <3>0, <3>3, TouchStep DEF DecodeDuplicate
    <3>4. CASE Decode(pkt)
      <4> DEFINE b == pkt.id
                 d == Lookup(b)
      <4>r. PICK restored \in RestoredBy(d, pkt) : buf' = LookupBuf(b, Accumulated(d, pkt, restored))
        BY <3>4, DecodeUnfolded
      <4> DEFINE a == Accumulated(d, pkt, restored)
      <4>1. Accepts(b) /\ Degree(pkt.index) \notin d.mask /\ lru' = LookupLru(b) /\ buf' = LookupBuf(b, a)
        BY <3>4, <4>r, DecodeUnfolded
      <4>2. d \in Buffer /\ BufferSound(b, d) /\ d.count # K
        BY <1>1, <3>0, <4>1, LookupSound
      <4>3. a \in Buffer /\ d.got \subseteq a.got
        <5> HIDE DEF d, b, a
        <5>1. pkt.id = b
          BY DEF b
        <5> QED
          BY <3>0, <4>r, <4>1, <4>2, <5>1, AccumulatedSound DEF a
      <4> HIDE DEF a
      <4> QED
        BY <1>1, <3>0, <4>1, <4>3, LookupKeepsLive
    <3> QED
      BY <2>2, <3>1, <3>2, <3>3, <3>4 DEF Receive
  <2>3. ASSUME NEW b \in BlockId, DecodeInvalid(b) PROVE c \in ToSet(lru') /\ buf[c].got \subseteq buf'[c].got
    <3>1. Accepts(b) /\ lru' = LookupLru(b) /\ buf' = LookupBuf(b, Lookup(b))
      BY <2>3 DEF DecodeInvalid
    <3>2. Lookup(b) \in Buffer
      BY <1>1, <3>1, LookupSound
    <3> QED
      BY <1>1, <3>1, <3>2, LookupKeepsLive
  <2>4. CASE Tick
    <3>1. lru' = lru
      BY <2>4 DEF Tick
    <3> QED
      BY <1>1, <2>0, <2>4, <3>1, TickStep
  <2>5. CASE ReceiverRestart
    <3>1. restarts' = restarts + 1 /\ restarts \in Nat
      BY <2>0, <2>5 DEF ReceiverRestart, TypeOK
    <3> QED
      BY <3>1
  <2>6. ASSUME NEW e \in Encoder, Encode(e) PROVE UNCHANGED <<lru, buf>>
    BY <2>6 DEF Encode, recvVars
  <2>7. EncodeOversize \/ SenderRestart \/ UNCHANGED vars => UNCHANGED <<lru, buf>>
    BY DEF EncodeOversize, SenderRestart, vars, recvVars
  <2> QED
    BY <1>1, <2>1, <2>2, <2>3, <2>4, <2>5, <2>6, <2>7 DEF Next
<1>2. IndInv /\ [Next]_vars => [A]_vars
  BY <1>1
<1> HIDE DEF A
<1>3. Spec => [][A]_vars
  BY <1>2, RsFecInvariant, PTL DEF Spec
<1> QED
  BY <1>3 DEF A, LiveBlockNeverDropped
=============================================================================

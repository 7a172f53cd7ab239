---------------------------- MODULE DupFecProofs ----------------------------
(***************************************************************************)
(* The duplicating FEC deduplicates exactly, for every cache size, timeout *)
(* and number of blocks.  The cache's order tells which blocks have been   *)
(* decoded since another one: when the eldest entry is evicted, all other  *)
(* entries and the new block have been.                                    *)
(***************************************************************************)
EXTENDS DupFec, SequenceFacts

\* The receiver starts with an empty cache.
LEMMA DupInit == Init => IndInv
<1> SUFFICES ASSUME Init PROVE IndInv
  OBVIOUS
<1>1. lru = <<>> /\ ToSet(lru) = {} /\ IsInjective(lru) /\ Len(lru) = 0
  BY DEF Init, ToSet, IsInjective
<1>2. TypeOK
  BY <1>1, DupBoundAssumption DEF Init, TypeOK, BlockId, Nothing
<1>3. CachedOnce /\ Forgotten
  BY <1>1, DupCacheAssumption DEF Init, CachedOnce, Forgotten
<1>4. DeduplicatesExactly
  BY DEF Init, DeduplicatesExactly, Nothing
<1> QED
  BY <1>2, <1>3, <1>4 DEF IndInv

\* A set of block ids is finite.
LEMMA BlocksFinite == ASSUME NEW B \in SUBSET BlockId PROVE IsFiniteSet(B) /\ Cardinality(B) \in Nat
<1>1. IsFiniteSet(BlockId)
  BY DupBoundAssumption, FS_Interval DEF BlockId
<1> QED
  BY <1>1, FS_Subset, FS_CardinalityType

\* What is remembered of a decoded block: it is new to all others.
LEMMA NotedDecode ==
  ASSUME TypeOK, NEW b \in BlockId, NEW out \in BOOLEAN, Note(b, out)
  PROVE  /\ since' \in [BlockId -> SUBSET BlockId]
         /\ \A c \in BlockId : c # b => since'[c] = since[c] \cup {b}
         /\ last' \in [out : BOOLEAN, age : Nat, since : SUBSET BlockId, seen : BOOLEAN]
         /\ last'.out = out /\ last'.age = age[b] /\ last'.since = since[b]
         /\ last'.seen <=> b \in seen
         /\ \A c \in BlockId : c # b /\ Cardinality(since[c]) >= Capacity
              => Cardinality(since'[c]) >= Capacity
<1>1. /\ since' = [c \in BlockId |-> IF c = b THEN {} ELSE since[c] \cup {b}]
      /\ last' = [out |-> out, age |-> age[b], since |-> since[b], seen |-> b \in seen]
  BY DEF Note
<1>2. /\ since' \in [BlockId -> SUBSET BlockId]
      /\ \A c \in BlockId : c # b => since'[c] = since[c] \cup {b}
  BY <1>1 DEF TypeOK
<1>3. age[b] \in Nat /\ since[b] \in SUBSET BlockId /\ (b \in seen) \in BOOLEAN
  BY DEF TypeOK
<1>4. /\ last' \in [out : BOOLEAN, age : Nat, since : SUBSET BlockId, seen : BOOLEAN]
      /\ last'.out = out /\ last'.age = age[b] /\ last'.since = since[b]
      /\ last'.seen = (b \in seen)
  BY <1>1, <1>3
<1>5. ASSUME NEW c \in BlockId, c # b, Cardinality(since[c]) >= Capacity
      PROVE  Cardinality(since'[c]) >= Capacity
  <2>1. since[c] \in SUBSET since'[c] /\ since'[c] \in SUBSET BlockId /\ since[c] \in SUBSET BlockId
    BY <1>2, <1>5 DEF TypeOK
  <2>2. IsFiniteSet(since'[c]) /\ Cardinality(since[c]) \in Nat /\ Cardinality(since'[c]) \in Nat
    BY <2>1, BlocksFinite
  <2>3. Cardinality(since[c]) <= Cardinality(since'[c])
    BY <2>1, <2>2, FS_Subset
  <2> QED
    BY <1>5, <2>2, <2>3, DupCacheAssumption
<1> QED
  BY <1>2, <1>4, <1>5

\* When b is put before a part of the cache that does not hold it, the order of
\* the new cache tells what has been decoded since.
LEMMA NewestFirst ==
  ASSUME TypeOK, Forgotten, NEW b \in BlockId, NEW out \in BOOLEAN, Note(b, out),
         NEW q \in Seq(BlockId), ToSet(q) \subseteq ToSet(lru), b \notin ToSet(q),
         \A x, y : Before(q, x, y) => Before(lru, x, y)
  PROVE  \A x, y : Before(<<b>> \o q, x, y) => x \in since'[y]
<1> SUFFICES ASSUME NEW x, NEW y, Before(<<b>> \o q, x, y) PROVE x \in since'[y]
  OBVIOUS
<1>1. (x = b /\ y \in ToSet(q)) \/ Before(q, x, y)
  BY BeforePrepend
<1>2. y \in ToSet(q) /\ (x = b \/ x \in ToSet(q))
  BY <1>1, BeforeMembers
<1>3. y \in ToSet(lru) /\ y # b /\ y \in BlockId
  <2>1. y \in ToSet(lru) /\ y # b
    BY <1>2
  <2>2. q \in Seq(BlockId) => ToSet(q) \subseteq BlockId
    BY LenProperties DEF ToSet
  <2> QED
    BY <1>2, <2>1, <2>2
<1>4. since'[y] = since[y] \cup {b}
  BY <1>3, NotedDecode
<1>5. CASE x = b
  BY <1>4, <1>5
<1>6. CASE x # b
  <2>1. Before(lru, x, y) /\ x \in ToSet(lru)
    BY <1>1, <1>2, <1>6
  <2> QED
    BY <1>3, <1>4, <2>1 DEF Forgotten
<1> QED
  BY <1>5, <1>6

\* A duplicate becomes the newest entry, and its age stays.
LEMMA DuplicateInv ==
  ASSUME IndInv, NEW b \in BlockId, Duplicate(b)
  PROVE  IndInv'
<1>0. TypeOK /\ CachedOnce /\ Forgotten
  BY DEF IndInv
<1>1. /\ b \in ToSet(lru) /\ age[b] <= Timeout /\ lru' = <<b>> \o RemoveFirst(lru, b)
      /\ Note(b, FALSE) /\ UNCHANGED <<idgen, age, seen>>
  <2>1. Timeout \in Nat /\ age[b] \in Nat
    BY <1>0, DupCacheAssumption DEF TypeOK
  <2>2. b \in ToSet(lru) /\ ~(age[b] > Timeout)
    BY DEF Duplicate, Known, Expired, LruKeys
  <2>3. lru' = <<b>> \o RemoveFirst(lru, b)
    BY DEF Duplicate, LruGet, LruRemove
  <2>4. Note(b, FALSE) /\ UNCHANGED <<idgen, age, seen>>
    BY DEF Duplicate
  <2>5. age[b] <= Timeout
    BY <2>1, <2>2
  <2> QED
    BY <2>2, <2>3, <2>4, <2>5, Zenon
<1> DEFINE r == RemoveFirst(lru, b)
<1>2. lru \in Seq(BlockId) /\ IsInjective(lru) /\ Len(lru) <= Capacity /\ ToSet(lru) \subseteq seen
  BY <1>0 DEF TypeOK, CachedOnce
<1>3. r \in Seq(BlockId) /\ IsInjective(r) /\ ToSet(r) = ToSet(lru) \ {b} /\ Len(r) = Len(lru) - 1
  BY <1>1, <1>2, RemoveSet
<1>4. \A x, y : Before(r, x, y) => Before(lru, x, y)
  BY <1>2, BeforeRemove
<1>5. lru' = <<b>> \o r
  BY <1>1
<1> HIDE DEF r
<1>6. b \notin ToSet(r) /\ ToSet(r) \subseteq ToSet(lru) /\ ToSet(r) \cup {b} = ToSet(lru)
  BY <1>1, <1>3
<1>7. /\ lru' \in Seq(BlockId) /\ IsInjective(lru') /\ Len(lru') = Len(r) + 1
      /\ ToSet(lru') = ToSet(r) \cup {b}
  BY <1>3, <1>5, <1>6, PrependSet
<1>8. ToSet(lru') = ToSet(lru) /\ Len(lru') = Len(lru)
  BY <1>2, <1>3, <1>6, <1>7, LenProperties
<1>9. /\ since' \in [BlockId -> SUBSET BlockId]
      /\ last' \in [out : BOOLEAN, age : Nat, since : SUBSET BlockId, seen : BOOLEAN]
      /\ last'.out = FALSE /\ last'.age = age[b] /\ (last'.seen <=> b \in seen)
      /\ \A c \in BlockId : c # b /\ Cardinality(since[c]) >= Capacity
           => Cardinality(since'[c]) >= Capacity
  BY <1>0, <1>1, NotedDecode
<1>10. TypeOK'
  BY <1>0, <1>1, <1>7, <1>9 DEF TypeOK
<1>11. CachedOnce'
  BY <1>1, <1>2, <1>7, <1>8 DEF CachedOnce
<1>12. \A x, y : Before(lru', x, y) => x \in since'[y]
  BY <1>0, <1>1, <1>3, <1>4, <1>5, <1>6, NewestFirst
<1>13. ASSUME NEW c \in seen' PROVE c \in ToSet(lru') \/ Cardinality(since'[c]) >= Capacity
  <2>1. c \in seen /\ c \in BlockId
    BY <1>0, <1>1 DEF TypeOK
  <2>2. c \in ToSet(lru) \/ Cardinality(since[c]) >= Capacity
    BY <1>0, <2>1 DEF Forgotten
  <2> QED
    BY <1>1, <1>8, <1>9, <2>1, <2>2
<1>14. Forgotten'
  BY <1>12, <1>13 DEF Forgotten
<1>15. DeduplicatesExactly'
  BY <1>1, <1>2, <1>9 DEF DeduplicatesExactly
<1> QED
  BY <1>10, <1>11, <1>14, <1>15 DEF IndInv


\* What the decoder has made room for, when it inserts a new entry for b: an
\* entry of b that is expired, or the eldest entry of a full cache, is gone.
LEMMA RoomForBlock ==
  ASSUME TypeOK, CachedOnce, NEW b \in BlockId, Capacity > 0,
         NEW q, q = IF Known(b) THEN LruRemove(lru, b) ELSE MakeRoom(lru)
  PROVE  /\ q \in Seq(BlockId) /\ IsInjective(q) /\ Len(q) < Capacity
         /\ ToSet(q) \subseteq ToSet(lru) /\ b \notin ToSet(q)
         /\ \A x, y : Before(q, x, y) => Before(lru, x, y)
         /\ \A v \in ToSet(lru) \ ToSet(q) : v = b \/
              /\ lru # <<>> /\ v = Last(lru) /\ Len(lru) = Capacity /\ b \notin ToSet(lru)
<1>1. lru \in Seq(BlockId) /\ IsInjective(lru) /\ Len(lru) <= Capacity /\ Len(lru) \in Nat /\ Capacity \in Nat
  BY DupCacheAssumption, LenProperties DEF TypeOK, CachedOnce
<1>2. CASE b \in ToSet(lru)
  <2>1. q = RemoveFirst(lru, b)
    BY <1>2 DEF Known, LruKeys, LruRemove
  <2>2. /\ q \in Seq(BlockId) /\ IsInjective(q) /\ Len(q) = Len(lru) - 1 /\ ToSet(q) = ToSet(lru) \ {b}
    BY <1>1, <1>2, <2>1, RemoveSet
  <2>3. \A x, y : Before(q, x, y) => Before(lru, x, y)
    BY <1>1, <2>1, BeforeRemove
  <2>4. Len(q) < Capacity
    BY <1>1, <2>2
  <2> QED
    BY <2>2, <2>3, <2>4
<1>3. CASE b \notin ToSet(lru) /\ Len(lru) = Capacity
  <2>1. q = RemoveFirst(lru, Last(lru))
    BY <1>3 DEF Known, LruKeys, LruRemove, MakeRoom, LruPeek
  <2>2. lru # <<>>
    BY <1>1, <1>3
  <2>3. Last(lru) \in ToSet(lru)
    BY <1>1, <2>2, FrontSet
  <2>4. /\ q \in Seq(BlockId) /\ IsInjective(q) /\ Len(q) = Len(lru) - 1
        /\ ToSet(q) = ToSet(lru) \ {Last(lru)}
    BY <1>1, <2>1, <2>3, RemoveSet
  <2>5. \A x, y : Before(q, x, y) => Before(lru, x, y)
    BY <1>1, <2>1, BeforeRemove
  <2>6. Len(q) < Capacity
    BY <1>1, <2>4
  <2> QED
    BY <1>3, <2>2, <2>4, <2>5, <2>6
<1>4. CASE b \notin ToSet(lru) /\ Len(lru) # Capacity
  <2>1. q = lru
    BY <1>4 DEF Known, LruKeys, MakeRoom
  <2>2. Len(lru) < Capacity
    BY <1>1, <1>4
  <2> QED
    BY <1>1, <1>4, <2>1, <2>2
<1> QED
  BY <1>2, <1>3, <1>4

\* A block whose message is delivered has the newest entry, and the one whose
\* entry was evicted for it has seen as many others as the cache has room for.
LEMMA DeliverInv ==
  ASSUME IndInv, NEW b \in BlockId, Deliver(b)
  PROVE  IndInv'
<1>0. TypeOK /\ CachedOnce /\ Forgotten
  BY DEF IndInv
<1>1. /\ b \in ToSet(lru) => age[b] > Timeout
      /\ age' = [age EXCEPT ![b] = 0] /\ seen' = seen \cup {b} /\ Note(b, TRUE) /\ UNCHANGED idgen
  BY DEF Deliver, Known, LruKeys, Expired
<1>2. /\ since' \in [BlockId -> SUBSET BlockId]
      /\ \A c \in BlockId : c # b => since'[c] = since[c] \cup {b}
      /\ last' \in [out : BOOLEAN, age : Nat, since : SUBSET BlockId, seen : BOOLEAN]
      /\ last'.out = TRUE /\ last'.age = age[b] /\ last'.since = since[b] /\ (last'.seen <=> b \in seen)
      /\ \A c \in BlockId : c # b /\ Cardinality(since[c]) >= Capacity
           => Cardinality(since'[c]) >= Capacity
  BY <1>0, <1>1, NotedDecode
<1>3. age' \in [BlockId -> Nat] /\ seen' \in SUBSET BlockId
  BY <1>0, <1>1 DEF TypeOK
<1>4. DeduplicatesExactly'
  <2>1. b \in seen => b \in ToSet(lru) \/ Cardinality(since[b]) >= Capacity
    BY <1>0 DEF Forgotten
  <2> QED
    BY <1>1, <1>2, <2>1 DEF DeduplicatesExactly
<1>5. lru \in Seq(BlockId) /\ IsInjective(lru) /\ Len(lru) <= Capacity /\ ToSet(lru) \subseteq seen
  BY <1>0 DEF TypeOK, CachedOnce
<1>6. CASE Capacity = 0
  <2>1. lru' = lru /\ lru = <<>> /\ ToSet(lru) = {}
    <3>1. lru' = lru
      BY <1>6 DEF Deliver
    <3>2. lru = <<>>
      BY <1>5, <1>6, LenProperties, EmptySeq
    <3> QED
      BY <3>1, <3>2 DEF ToSet
  <2>2. TypeOK' /\ CachedOnce'
    BY <1>0, <1>1, <1>2, <1>3, <2>1 DEF TypeOK, CachedOnce
  <2>3. ASSUME NEW c \in seen' PROVE Cardinality(since'[c]) >= Capacity
    <3>1. since'[c] \in SUBSET BlockId
      BY <1>2, <1>3
    <3> QED
      BY <1>6, <3>1, BlocksFinite
  <2>4. Forgotten'
    BY <2>1, <2>3 DEF Forgotten
  <2> QED
    BY <1>4, <2>2, <2>4 DEF IndInv
<1>7. CASE Capacity # 0
  <2> DEFINE q == IF Known(b) THEN LruRemove(lru, b) ELSE MakeRoom(lru)
  <2>1. lru' = <<b>> \o q
    BY <1>7 DEF Deliver, LruPut
  <2>2. /\ q \in Seq(BlockId) /\ IsInjective(q) /\ Len(q) < Capacity
        /\ ToSet(q) \subseteq ToSet(lru) /\ b \notin ToSet(q)
        /\ \A x, y : Before(q, x, y) => Before(lru, x, y)
        /\ \A v \in ToSet(lru) \ ToSet(q) : v = b \/
             /\ lru # <<>> /\ v = Last(lru) /\ Len(lru) = Capacity /\ b \notin ToSet(lru)
    <3>1. Capacity > 0
      BY <1>7, DupCacheAssumption
    <3> QED
      BY <1>0, <3>1, RoomForBlock
  <2> HIDE DEF q
  <2>3. /\ lru' \in Seq(BlockId) /\ IsInjective(lru') /\ Len(lru') = Len(q) + 1
        /\ ToSet(lru') = ToSet(q) \cup {b}
    BY <2>1, <2>2, PrependSet
  <2>4. TypeOK'
    BY <1>0, <1>1, <1>2, <1>3, <2>3 DEF TypeOK
  <2>5. CachedOnce'
    <3>1. Len(lru') <= Capacity
      BY <2>2, <2>3, DupCacheAssumption, LenProperties
    <3>2. ToSet(lru') \subseteq seen'
      BY <1>1, <1>5, <2>2, <2>3
    <3> QED
      BY <2>3, <3>1, <3>2 DEF CachedOnce
  <2>6. \A x, y : Before(lru', x, y) => x \in since'[y]
    BY <1>0, <1>1, <2>1, <2>2, NewestFirst
  <2>7. ASSUME NEW v \in ToSet(lru) \ ToSet(q), v # b PROVE Cardinality(since'[v]) >= Capacity
    <3>1. lru # <<>> /\ v = Last(lru) /\ Len(lru) = Capacity /\ b \notin ToSet(lru) /\ v \in BlockId
      BY <1>0, <1>5, <2>2, <2>7 DEF TypeOK
    <3>2. since'[v] = since[v] \cup {b} /\ since'[v] \in SUBSET BlockId
      BY <1>2, <2>7, <3>1
    <3>3. \A x \in ToSet(lru) \ {v} : x \in since[v]
      BY <1>0, <1>5, <2>7, <3>1, BeforeLast DEF Forgotten
    <3> DEFINE f == [x \in ToSet(lru) |-> x]
    <3>4. DOMAIN f = ToSet(lru) /\ IsInjective(f) /\ b \notin {f[x] : x \in ToSet(lru)}
      BY <3>1 DEF IsInjective
    <3>5. \A x \in ToSet(lru) \ {v} : f[x] \in since'[v]
      BY <3>2, <3>3
    <3>6. IsFiniteSet(since'[v]) /\ b \in since'[v]
      BY <3>2, BlocksFinite
    <3> HIDE DEF f
    <3>7. Cardinality(since'[v]) >= Len(lru)
      BY <1>5, <2>7, <3>4, <3>5, <3>6, ReplacedByOthers
    <3> QED
      BY <3>1, <3>7
  <2>8. ASSUME NEW c \in seen' PROVE c \in ToSet(lru') \/ Cardinality(since'[c]) >= Capacity
    <3>1. CASE c = b
      BY <2>3, <3>1
    <3>2. CASE c # b
      <4>1. c \in seen /\ c \in BlockId
        BY <1>1, <1>3, <3>2
      <4>2. c \in ToSet(lru) \/ Cardinality(since[c]) >= Capacity
        BY <1>0, <4>1 DEF Forgotten
      <4> QED
        BY <1>2, <2>3, <2>7, <3>2, <4>1, <4>2
    <3> QED
      BY <3>1, <3>2
  <2>9. Forgotten'
    BY <2>6, <2>8 DEF Forgotten
  <2> QED
    BY <1>4, <2>4, <2>5, <2>9 DEF IndInv
<1> QED
  BY <1>6, <1>7

\* Every step of the receiver, and of the sender and the clock, preserves the
\* invariant.
LEMMA DupNext == IndInv /\ [Next]_vars => IndInv'
<1> SUFFICES ASSUME IndInv, [Next]_vars PROVE IndInv'
  OBVIOUS
<1>0. TypeOK /\ CachedOnce /\ Forgotten /\ DeduplicatesExactly
  BY DEF IndInv
<1>1. CASE Encode
  <2>1. idgen' \in 0..(MaxId + 1) /\ UNCHANGED <<lru, age, seen, since, last>>
    BY <1>0, <1>1, DupBoundAssumption DEF Encode, TypeOK
  <2> QED
    BY <1>0, <2>1 DEF IndInv, TypeOK, CachedOnce, Forgotten, DeduplicatesExactly
<1>2. ASSUME NEW b \in 0..(idgen - 1), Decode(b) PROVE IndInv'
  <2>1. b \in BlockId
    BY <1>0, DupBoundAssumption DEF TypeOK, BlockId
  <2> QED
    BY <1>2, <2>1, DuplicateInv, DeliverInv DEF Decode
<1>3. CASE Tick
  <2>1. /\ age' = [b \in BlockId |-> IF b \in seen /\ age[b] <= Timeout THEN age[b] + 1 ELSE age[b]]
        /\ UNCHANGED <<idgen, lru, seen, since, last>>
    BY <1>3 DEF Tick
  <2>2. age' \in [BlockId -> Nat]
    BY <1>0, <2>1 DEF TypeOK
  <2> QED
    BY <1>0, <2>1, <2>2 DEF IndInv, TypeOK, CachedOnce, Forgotten, DeduplicatesExactly
<1>4. CASE UNCHANGED vars
  BY <1>0, <1>4 DEF vars, IndInv, TypeOK, CachedOnce, Forgotten, DeduplicatesExactly
<1> QED
  BY <1>1, <1>2, <1>3, <1>4 DEF Next

\* nt_dup_fec_decode delivers a message again only after dedup_timeout or when
\* as many other blocks as the cache has room for have come between, and drops
\* a packet only within dedup_timeout of a delivery: for every cache size,
\* every timeout and any loss, repetition and reordering of packets.
THEOREM DupFecDeduplicates == Spec => []DeduplicatesExactly
<1>1. IndInv => DeduplicatesExactly
  BY DEF IndInv
<1> QED
  BY <1>1, DupInit, DupNext, PTL DEF Spec
=============================================================================

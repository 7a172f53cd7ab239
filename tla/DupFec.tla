------------------------------- MODULE DupFec -------------------------------
(***************************************************************************)
(* The duplicating FEC that the tunnel uses when K = 1                     *)
(* (tunnel/nt_dup_fec.c): every message is sent N times as a block of its  *)
(* own, and the receiver recognises repeated blocks with a cache of the    *)
(* ids it has seen, which forgets an id when it is expired or evicted.     *)
(*                                                                         *)
(* The N copies of a block differ in nothing the receiver looks at, and    *)
(* the network may lose, repeat and delay any of them, so a block that has *)
(* been sent may arrive any number of times, at any time.                  *)
(*                                                                         *)
(* Time is as in module RsFec: an entry has an age in ticks that stops     *)
(* growing once it exceeds Timeout.                                        *)
(***************************************************************************)
EXTENDS Integers, FiniteSets, Lru

CONSTANTS Capacity,     \* dedup_cache_size, 0 to disable deduplication
          Timeout,      \* dedup_timeout, in ticks
          MaxId         \* bound: the largest block id

\* A hash table of capacity 1 has no bucket: the cache size is never 1.
ASSUME DupCacheAssumption == Capacity \in Nat \ {1} /\ Timeout \in Nat
ASSUME DupBoundAssumption == MaxId \in Nat

VARIABLES idgen,     \* the next block id of the sender
          lru,       \* the ids in dedup_cache, newest first
          age,       \* age[b], time since block b was last passed to on_decode
          seen,      \* blocks that have been passed to on_decode
          since,     \* since[b], other blocks decoded since b was last decoded
          last       \* the last packet: whether on_decode got it, and the
                     \* age, since and seen of its block before

vars == <<idgen, lru, age, seen, since, last>>

BlockId == 0..MaxId
Nothing == [out |-> TRUE, age |-> 0, since |-> {}, seen |-> FALSE]

Init ==
  /\ idgen = 0
  /\ lru = <<>>
  /\ age = [b \in BlockId |-> 0]
  /\ seen = {}
  /\ since = [b \in BlockId |-> {}]
  /\ last = Nothing

\* nt_dup_fec_encode: N copies of the message under the next block id.
Encode ==
  /\ idgen <= MaxId
  /\ idgen' = idgen + 1
  /\ UNCHANGED <<lru, age, seen, since, last>>

-----------------------------------------------------------------------------
(* nt_dup_fec_decode. *)

Known(b) == b \in LruKeys(lru)
Expired(b) == age[b] > Timeout

\* Mutant: the newest entry is evicted.
MakeRoomNewest(q) == IF Len(q) = Capacity THEN LruRemove(q, Head(q)) ELSE q

\* The eldest entry makes room for a new one when the cache is full.
MakeRoom(q) == IF Len(q) = Capacity THEN LruRemove(q, LruPeek(q)) ELSE q

\* What is remembered of an arrival: out tells whether on_decode is called.
Note(b, out) ==
  /\ last' = [out |-> out, age |-> age[b], since |-> since[b], seen |-> b \in seen]
  /\ since' = [c \in BlockId |-> IF c = b THEN {} ELSE since[c] \cup {b}]

\* The cache has an entry that is not expired.  lrumap_get makes it the
\* newest; its timestamp stays.
Duplicate(b) ==
  /\ Capacity > 0 /\ Known(b) /\ ~Expired(b)
  /\ lru' = LruGet(lru, b)
  /\ Note(b, FALSE)
  /\ UNCHANGED <<idgen, age, seen>>

\* The block is new to the cache, or its entry is expired: it gets a new
\* entry and its message is delivered.  Without a cache everything is.
Deliver(b) ==
  /\ Known(b) => Expired(b)
  /\ lru' = IF Capacity = 0 THEN lru
            ELSE LruPut(IF Known(b) THEN LruRemove(lru, b) ELSE MakeRoom(lru), b)
  /\ age' = [age EXCEPT ![b] = 0]
  /\ seen' = seen \cup {b}
  /\ Note(b, TRUE)
  /\ UNCHANGED idgen

\* (A packet with another tag or K is refused before the cache is looked at and
\* changes nothing.)
Decode(b) == Duplicate(b) \/ Deliver(b)

\* A millisecond passes at the receiver.
Tick ==
  /\ \E b \in seen : age[b] <= Timeout
  /\ age' = [b \in BlockId |-> IF b \in seen /\ age[b] <= Timeout THEN age[b] + 1 ELSE age[b]]
  /\ UNCHANGED <<idgen, lru, seen, since, last>>

Next == Encode \/ (\E b \in 0..(idgen - 1) : Decode(b)) \/ Tick

Spec == Init /\ [][Next]_vars
-----------------------------------------------------------------------------
(* Properties. *)

\* Deduplication does what dedup_cache_size and dedup_timeout promise, and no
\* more.  A message is delivered again only when the block was last delivered
\* longer than dedup_timeout ago, or when as many other blocks as the cache
\* has room for have been decoded since it was last decoded; and a packet is
\* dropped only when its block was delivered within the last dedup_timeout,
\* so that the first copy to arrive is always delivered and a steady stream
\* of duplicates does not keep a block out for ever.
DeduplicatesExactly ==
  /\ last.seen /\ last.out => last.age > Timeout \/ Cardinality(last.since) >= Capacity
  /\ ~last.out => last.seen /\ last.age <= Timeout


-----------------------------------------------------------------------------
(* What the property needs in order to be inductive. *)

\* Type invariant.
TypeOK ==
  /\ idgen \in 0..(MaxId + 1)
  /\ lru \in Seq(BlockId)
  /\ age \in [BlockId -> Nat]
  /\ seen \in SUBSET BlockId
  /\ since \in [BlockId -> SUBSET BlockId]
  /\ last \in [out : BOOLEAN, age : Nat, since : SUBSET BlockId, seen : BOOLEAN]

\* The cache holds a block once, within its capacity, and only blocks that
\* have been delivered.
CachedOnce == IsInjective(lru) /\ Len(lru) <= Capacity /\ ToSet(lru) \subseteq seen

\* The blocks that come before another one in the cache have been decoded
\* since; a block that has lost its entry has lost it to as many others as
\* there is room for.
Forgotten ==
  /\ \A x, y \in ToSet(lru) : Before(lru, x, y) => x \in since[y]
  /\ \A b \in seen : b \in ToSet(lru) \/ Cardinality(since[b]) >= Capacity

IndInv == TypeOK /\ CachedOnce /\ Forgotten /\ DeduplicatesExactly
=============================================================================

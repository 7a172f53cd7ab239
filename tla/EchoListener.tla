---------------------------- MODULE EchoListener ----------------------------
(***************************************************************************)
(* The echo listener of the tunnel (tunnel/nt_echo_listener.c): it returns *)
(* every packet to its sender, except that an API message is not returned  *)
(* again while the listener remembers it.                                  *)
(*                                                                         *)
(* A message is identified by tag, id, source address and port, its key.   *)
(* The keys of dedup_cache are copies of headers that live in buffers of   *)
(* cache_pool, so the cache is a sequence of buffers, newest first, and a  *)
(* lookup compares what the buffers contain.  Time is as in module RsFec.  *)
(***************************************************************************)
EXTENDS Naturals, FiniteSets, Lru

CONSTANTS EchoKeys,      \* what identifies an API message
          NoKey,     \* the content of a buffer that was never used
          KeyBuffers,   \* the buffers of cache_pool
          DedupTimeout    \* dedup_timeout, in ticks

ASSUME EchoKeysAssumption == NoKey \notin EchoKeys /\ IsFiniteSet(EchoKeys)
\* A hash table of capacity 1 has no bucket: dedup_cache_size is never 1.
ASSUME EchoCacheAssumption == IsFiniteSet(KeyBuffers) /\ Cardinality(KeyBuffers) # 1 /\ DedupTimeout \in Nat

VARIABLES cache_pool,     \* the free buffers of cache_pool
          content,  \* content[x], the header copied into buffer x
          stamp,    \* stamp[x], time since the entry with key x was inserted
          lru,      \* the buffers that are keys of dedup_cache, newest first
          idle,     \* idle[k], time since message k was last returned
          seen,     \* messages that have been returned
          since,    \* since[k], other messages received since k was last received
          last      \* the last message: whether it was returned, and the idle,
                    \* since and seen of it before

echoVars == <<cache_pool, content, stamp, lru, idle, seen, since, last>>

\* dedup_cache_size
dedup_cache_size == Cardinality(KeyBuffers)

EchoInit ==
  /\ cache_pool = KeyBuffers
  /\ content = [x \in KeyBuffers |-> NoKey]
  /\ stamp = [x \in KeyBuffers |-> 0]
  /\ lru = <<>>
  /\ idle = [k \in EchoKeys |-> 0]
  /\ seen = {}
  /\ since = [k \in EchoKeys |-> {}]
  /\ last = [out |-> TRUE, idle |-> 0, since |-> {}, seen |-> FALSE]

-----------------------------------------------------------------------------
(* handle_read, for a valid API message with key k. *)

\* The entries that header_equal_func finds equal to k.
Entries(k) == {x \in LruKeys(lru) : content[x] = k}

\* The entry that is removed and whose key buffer is freed: the message's own
\* expired one, or the eldest one when the cache is full.
Victims(k) ==
  IF Entries(k) # {} THEN {x \in Entries(k) : stamp[x] > DedupTimeout}
  ELSE IF Len(lru) = dedup_cache_size THEN {LruPeek(lru)} ELSE {}

\* The entries that stay.
Kept(k) == IF Victims(k) = {} THEN lru ELSE LruRemove(lru, CHOOSE x \in Victims(k) : TRUE)

Note(k, out) ==
  /\ last' = [out |-> out, idle |-> idle[k], since |-> since[k], seen |-> k \in seen]
  /\ since' = [c \in EchoKeys |-> IF c = k THEN {} ELSE since[c] \cup {k}]

\* Mutant: every duplicate starts the timeout of its entry anew.
DuplicateRefreshes(k) ==
  \E x \in Entries(k) :
    /\ stamp[x] <= DedupTimeout
    /\ lru' = LruGet(lru, x)
    /\ stamp' = [stamp EXCEPT ![x] = 0]
    /\ Note(k, FALSE)
    /\ UNCHANGED <<cache_pool, content, idle, seen>>

\* Duplicate: the message is not returned.
Duplicate(k) ==
  \E x \in Entries(k) :
    /\ stamp[x] <= DedupTimeout
    /\ lru' = LruGet(lru, x)
    /\ Note(k, FALSE)
    /\ UNCHANGED <<cache_pool, content, stamp, idle, seen>>

\* Mutant: the victim's key buffer is not freed.
EchoLeaksKey(k) ==
  /\ \A x \in Entries(k) : stamp[x] > DedupTimeout
  /\ \E key \in cache_pool :
       /\ cache_pool' = cache_pool \ {key}
       /\ content' = [content EXCEPT ![key] = k]
       /\ stamp' = [stamp EXCEPT ![key] = 0]
       /\ lru' = LruPut(Kept(k), key)
  /\ idle' = [idle EXCEPT ![k] = 0]
  /\ seen' = seen \cup {k}
  /\ Note(k, TRUE)

\* The victim's entry is removed before its key buffer is freed, a new entry
\* is inserted, and the message is returned.
Echo(k) ==
  /\ \A x \in Entries(k) : stamp[x] > DedupTimeout
  /\ \E key \in cache_pool \cup Victims(k) :
       /\ cache_pool' = (cache_pool \cup Victims(k)) \ {key}
       /\ content' = [content EXCEPT ![key] = k]
       /\ stamp' = [stamp EXCEPT ![key] = 0]
       /\ lru' = LruPut(Kept(k), key)
  /\ idle' = [idle EXCEPT ![k] = 0]
  /\ seen' = seen \cup {k}
  /\ Note(k, TRUE)

\* A packet that is no valid API message, or any packet when deduplication is
\* disabled: it is returned, and nothing is remembered.
EchoOther == UNCHANGED echoVars

\* A millisecond passes.
EchoTick ==
  LET older(n) == IF n <= DedupTimeout THEN n + 1 ELSE n
  IN  /\ \E k \in seen : idle[k] <= DedupTimeout
      /\ stamp' = [x \in KeyBuffers |-> IF x \in LruKeys(lru) THEN older(stamp[x]) ELSE stamp[x]]
      /\ idle' = [k \in EchoKeys |-> IF k \in seen THEN older(idle[k]) ELSE idle[k]]
      /\ UNCHANGED <<cache_pool, content, lru, seen, since, last>>

HandleRead == EchoOther \/ (dedup_cache_size > 0 /\ \E k \in EchoKeys : Duplicate(k) \/ Echo(k))

EchoNext == HandleRead \/ EchoTick

EchoSpec == EchoInit /\ [][EchoNext]_echoVars
-----------------------------------------------------------------------------
(* Properties. *)

\* The cache and the pool of its key buffers fit together.  Every key buffer
\* is either free or the key of exactly one entry, so no live key is
\* overwritten and none is lost; no two entries are equal under
\* header_equal_func, so lrumap_put's ensure() on hashmap_put_if_absent holds;
\* and whenever handle_read calls pool_new, whose result it does not check,
\* there is a free buffer.
KeyBufferInOnePlace ==
  /\ Len(lru) = Cardinality(LruKeys(lru))
  /\ cache_pool \cap LruKeys(lru) = {}
  /\ cache_pool \cup LruKeys(lru) = KeyBuffers
  /\ \A x, y \in LruKeys(lru) : content[x] = content[y] => x = y
  /\ \A k \in EchoKeys :
       (\A x \in Entries(k) : stamp[x] > DedupTimeout) /\ dedup_cache_size > 0
         => cache_pool \cup Victims(k) # {}

\* A message is returned again only when it was last returned longer than
\* dedup_timeout ago, or when as many others as the cache has room for have
\* been received since; it is dropped only when it was returned within the
\* last dedup_timeout.
EchoedOncePerTimeout ==
  /\ last.seen /\ last.out => last.idle > DedupTimeout \/ Cardinality(last.since) >= dedup_cache_size
  /\ ~last.out => last.seen /\ last.idle <= DedupTimeout


-----------------------------------------------------------------------------
(* What the two properties need in order to be inductive. *)

\* Type invariant.
EchoTypeOK ==
  /\ cache_pool \in SUBSET KeyBuffers
  /\ content \in [KeyBuffers -> EchoKeys \cup {NoKey}]
  /\ stamp \in [KeyBuffers -> Nat]
  /\ lru \in Seq(KeyBuffers)
  /\ idle \in [EchoKeys -> Nat]
  /\ seen \in SUBSET EchoKeys
  /\ since \in [EchoKeys -> SUBSET EchoKeys]
  /\ last \in [out : BOOLEAN, idle : Nat, since : SUBSET EchoKeys, seen : BOOLEAN]

\* Every buffer is free or the key of one entry, and the entries differ.
KeysOnce ==
  /\ IsInjective(lru)
  /\ cache_pool \cap ToSet(lru) = {}
  /\ cache_pool \cup ToSet(lru) = KeyBuffers
  /\ \A x, y \in ToSet(lru) : content[x] = content[y] => x = y

\* An entry is as old as the last return of its message.
EntriesDated == \A x \in ToSet(lru) : content[x] \in seen /\ stamp[x] = idle[content[x]]

\* The messages whose entries come before that of another one have been
\* received since; a message that has lost its entry has lost it to as many
\* others as there is room for.
Forgotten ==
  /\ \A x, y \in ToSet(lru) : Before(lru, x, y) => content[x] \in since[content[y]]
  /\ \A k \in seen : k \in {content[x] : x \in ToSet(lru)} \/ Cardinality(since[k]) >= dedup_cache_size

EchoInv == EchoTypeOK /\ KeysOnce /\ EntriesDated /\ Forgotten /\ EchoedOncePerTimeout
=============================================================================

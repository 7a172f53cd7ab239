------------------------------- MODULE LruMap -------------------------------
(***************************************************************************)
(* The implementation of utils/lrumap.c: a fixed array of entries, each of *)
(* which is linked into the pool of free entries or into the queue of used *)
(* ones, and a hash table from keys to entries.  The doubly linked lists   *)
(* (utils/list.h) are sequences from front to back; the hash table is the  *)
(* dictionary that module HashMap implements.                              *)
(***************************************************************************)
EXTENDS Integers, FiniteSets, Sequences, SequencesExt

CONSTANTS LruMapKeys, LruMapValues, LruMapCapacity

ASSUME LruAssumption == LruMapCapacity \in Nat

LruEntry == 0..(LruMapCapacity - 1)

VARIABLES pool,    \* free entries
          queue,   \* used entries, the one used last first
          kv,      \* kv[e] = <<key, value>> of entry e
          table    \* the hash table: key -> entry

lruMapVars == <<pool, queue, kv, table>>

Unset == <<>>

\* lrumap_init pushes the entries to the pool's front, one after the other.
LruMapInit ==
  /\ pool = [i \in 1..LruMapCapacity |-> LruMapCapacity - i]
  /\ queue = <<>>
  /\ kv = [e \in LruEntry |-> Unset]
  /\ table = <<>>

lrumap_size == Cardinality(DOMAIN table)
unlink(list, e) == RemoveFirst(list, e)
bind(k, e) == [x \in DOMAIN table \cup {k} |-> IF x = k THEN e ELSE table[x]]
unbind(k) == [x \in DOMAIN table \ {k} |-> table[x]]

\* lrumap_put of a key the map does not hold; a full map returns false.
\* (For a key it does hold the ensure() of line 47 aborts.)
lrumap_put(k, v) ==
  /\ lrumap_size # LruMapCapacity
  /\ k \notin DOMAIN table
  /\ LET e == Last(pool)
     IN  /\ pool' = Front(pool)
         /\ kv' = [kv EXCEPT ![e] = <<k, v>>]
         /\ table' = bind(k, e)
         /\ queue' = <<e>> \o queue

lrumap_get(k) ==
  /\ k \in DOMAIN table
  /\ queue' = <<table[k]>> \o unlink(queue, table[k])
  /\ UNCHANGED <<pool, kv, table>>

\* Mutant: the eldest entry is removed, whatever the key.
lrumap_remove_eldest(k) ==
  /\ k \in DOMAIN table
  /\ queue' = Front(queue)
  /\ pool' = <<Last(queue)>> \o pool
  /\ table' = unbind(k)
  /\ UNCHANGED kv

lrumap_remove(k) ==
  /\ k \in DOMAIN table
  /\ queue' = unlink(queue, table[k])
  /\ pool' = <<table[k]>> \o pool
  /\ table' = unbind(k)
  /\ UNCHANGED kv

lrumap_make_eldest(k) ==
  /\ k \in DOMAIN table
  /\ queue' = Append(unlink(queue, table[k]), table[k])
  /\ UNCHANGED <<pool, kv, table>>

LruMapNext ==
  \/ \E k \in LruMapKeys, v \in LruMapValues : lrumap_put(k, v)
  \/ \E k \in LruMapKeys : lrumap_get(k) \/ lrumap_remove(k) \/ lrumap_make_eldest(k)

LruMapSpec == LruMapInit /\ [][LruMapNext]_lruMapVars
-----------------------------------------------------------------------------
(* Properties. *)

\* Every entry is linked into exactly one of the two lists, once, and the
\* hash table leads from each key to the used entry that holds it: nothing
\* leaks, list_pop_back never meets an empty pool, and lrumap_size's
\* ensure() holds.
EntriesPartitioned ==
  /\ Len(pool) + Len(queue) = LruMapCapacity
  /\ ToSet(pool) \cup ToSet(queue) = LruEntry
  /\ {table[k] : k \in DOMAIN table} = ToSet(queue)
  /\ \A k \in DOMAIN table : kv[table[k]][1] = k

LruOrder == INSTANCE LruSpec WITH
         Keys <- LruMapKeys, Values <- LruMapValues, Capacity <- LruMapCapacity,
         order <- [i \in DOMAIN queue |-> kv[queue[i]][1]],
         value <- [k \in DOMAIN table |-> kv[table[k]][2]]

\* lrumap.c implements the least-recently-used order that the decode and
\* deduplication caches rely on.
ImplementsLru == LruOrder!Spec


-----------------------------------------------------------------------------
(* What the two properties need in order to be inductive. *)

\* Every entry is in one list, once; the hash table leads to the used entries,
\* and they lead back to it.
LruMapInv ==
  /\ pool \in Seq(LruEntry) /\ queue \in Seq(LruEntry)
  /\ IsInjective(pool) /\ IsInjective(queue)
  /\ ToSet(pool) \cap ToSet(queue) = {} /\ ToSet(pool) \cup ToSet(queue) = LruEntry
  /\ kv \in [LruEntry -> (LruMapKeys \X LruMapValues) \cup {Unset}]
  /\ table \in [DOMAIN table -> LruEntry] /\ DOMAIN table \subseteq LruMapKeys
  /\ \A k \in DOMAIN table : table[k] \in ToSet(queue) /\ kv[table[k]][1] = k
  /\ \A e \in ToSet(queue) : kv[e] # Unset /\ kv[e][1] \in DOMAIN table /\ table[kv[e][1]] = e
=============================================================================

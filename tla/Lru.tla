-------------------------------- MODULE Lru --------------------------------
(***************************************************************************)
(* The order an lrumap keeps (utils/lrumap.c): the sequence of its keys,   *)
(* the one used last first and the eldest last.  The values are kept by    *)
(* the modules that use the map.                                           *)
(***************************************************************************)
EXTENDS Naturals, Sequences, SequencesExt

\* lrumap_size and the hash table's membership test.
LruKeys(q) == ToSet(q)

\* lrumap_remove of a key the map holds.
LruRemove(q, k) == RemoveFirst(q, k)

\* lrumap_put of a key the map does not hold: it becomes the newest.
LruPut(q, k) == <<k>> \o q

\* lrumap_get of a key the map holds: it becomes the newest.
LruGet(q, k) == <<k>> \o LruRemove(q, k)

\* lrumap_peek: the key that was used least recently.
LruPeek(q) == Last(q)

\* x was used more recently than y.
Before(q, x, y) == \E i, j \in DOMAIN q : i < j /\ q[i] = x /\ q[j] = y
=============================================================================

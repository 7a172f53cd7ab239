----------------------------- MODULE Containers -----------------------------
(***************************************************************************)
(* The containers of utils/: heap.c, queue.c, lrumap.c and hashmap.c.      *)
(***************************************************************************)
EXTENDS Heap, RingQueue, LruMap, HashMap

\* The links inside the containers are consistent at every moment: between two
\* operations no entry of the heap has a lesser key than its parent, every
\* lrumap entry is in exactly one list, and every used hashmap entry is chained
\* once, in the bucket of its key, while the table grows too.
ContainersConsistent == HeapOrder /\ EntriesPartitioned /\ ChainsMatchEntries
=============================================================================

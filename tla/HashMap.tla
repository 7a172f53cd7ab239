------------------------------ MODULE HashMap ------------------------------
(***************************************************************************)
(* The hash table of utils/hashmap.c: an array of capacity entries, found  *)
(* by probing, that are chained into bucket_num buckets; when there are as *)
(* many entries as buckets the table doubles and every entry is put again. *)
(*                                                                         *)
(* A table is [capacity, size, entries, buckets]: entries[i] is a pair     *)
(* <<key, value>> or FreeEntry, and buckets[b] is the chain of bucket b, a *)
(* sequence of indices of entries.  HashKeys are numbers and hash to       *)
(* themselves (naive_hash_func), and the load factor is that of            *)
(* hashmap_init1, 0.75.                                                    *)
(*                                                                         *)
(* One action is one operation, except that a put for which the table has  *)
(* to grow takes one action for each entry hashmap_grow copies.  A table   *)
(* belongs to one thread: nothing else is done with it meanwhile.          *)
(***************************************************************************)
EXTENDS Integers, Sequences, FiniteSets, SequencesExt

CONSTANTS HashKeys, HashValues, InitialCapacity

\* A table of capacity 1 has no bucket, and the code would divide by zero.
ASSUME HashAssumption == HashKeys \subseteq Nat /\ InitialCapacity \in Nat \ {0, 1}

FreeEntry == <<>>

VARIABLES map,
          pending,   \* the pair whose put makes the table grow, or FreeEntry
          snapshot,  \* hashmap_grow's old entries
          copied     \* hashmap_grow's i: how many of them have been copied

hashMapVars == <<map, pending, snapshot, copied>>

bucket_num(capacity) == (capacity * 3) \div 4

\* hashmap_alloc and hashmap_reset.
hashmap_alloc(capacity) ==
  [capacity |-> capacity,
   size     |-> 0,
   entries  |-> [i \in 0..(capacity - 1) |-> FreeEntry],
   buckets  |-> [b \in 0..(bucket_num(capacity) - 1) |-> <<>>]]

UsedIn(entries) == {i \in DOMAIN entries : entries[i] # FreeEntry}
BucketOf(m, k) == k % bucket_num(m.capacity)

\* The entries with key k in the bucket of k: what the loops of hashmap_put,
\* hashmap_get and hashmap_remove look for.
Find(m, k) == {i \in ToSet(m.buckets[BucketOf(m, k)]) : m.entries[i][1] = k}

\* The first unused entry from the hash on, cyclically.
Probe(m, k) ==
  LET at(d) == ((k % m.capacity) + d) % m.capacity
  IN  at(CHOOSE d \in 0..(m.capacity - 1) :
           /\ m.entries[at(d)] = FreeEntry
           /\ \A c \in 0..(d - 1) : m.entries[at(c)] # FreeEntry)

\* Allocate an entry and add it to the front of its chain.
Insert(m, k, v) ==
  LET i == Probe(m, k)
  IN  [m EXCEPT !.size = @ + 1,
                !.entries[i] = <<k, v>>,
                !.buckets[BucketOf(m, k)] = <<i>> \o @]

\* hashmap_put_new when the table has room, and otherwise the start of the
\* hashmap_grow it waits for.
hashmap_put_new(k, v) ==
  IF map.size < bucket_num(map.capacity)
  THEN /\ map' = Insert(map, k, v)
       /\ pending' = FreeEntry /\ snapshot' = <<>> /\ copied' = 0
  ELSE /\ map' = hashmap_alloc(2 * map.capacity)
       /\ pending' = <<k, v>> /\ snapshot' = map.entries /\ copied' = 0

\* Mutant: an entry is chained where it was before.
hashmap_grow_in_place ==
  /\ pending # FreeEntry
  /\ IF copied \in DOMAIN snapshot
     THEN /\ map' = IF snapshot[copied] = FreeEntry THEN map
                    ELSE LET b == snapshot[copied][1] % bucket_num(map.capacity \div 2)
                         IN  [map EXCEPT !.size = @ + 1, !.entries[copied] = snapshot[copied],
                                         !.buckets[b] = <<copied>> \o @]
          /\ copied' = copied + 1
          /\ UNCHANGED <<pending, snapshot>>
     ELSE hashmap_put_new(pending[1], pending[2])

\* hashmap_grow puts one entry after the other into the larger table, in which
\* hashmap_put finds no such key and room (GrowthFits); after that
\* hashmap_put_new looks at the size again.
hashmap_grow ==
  /\ pending # FreeEntry
  /\ IF copied \in DOMAIN snapshot
     THEN /\ map' = IF snapshot[copied] = FreeEntry THEN map
                    ELSE Insert(map, snapshot[copied][1], snapshot[copied][2])
          /\ copied' = copied + 1
          /\ UNCHANGED <<pending, snapshot>>
     ELSE hashmap_put_new(pending[1], pending[2])
-----------------------------------------------------------------------------
HashMapInit ==
  map = hashmap_alloc(InitialCapacity) /\ pending = FreeEntry /\ snapshot = <<>> /\ copied = 0

Idle == pending = FreeEntry

hashmap_put_if_absent(k, v) ==
  /\ Idle
  /\ Find(map, k) = {}
  /\ hashmap_put_new(k, v)

hashmap_put(k, v) ==
  \/ /\ Idle
     /\ \E i \in Find(map, k) : map' = [map EXCEPT !.entries[i] = <<k, v>>]
     /\ UNCHANGED <<pending, snapshot, copied>>
  \/ hashmap_put_if_absent(k, v)

\* Mutant: the entry is freed but stays in its chain.
hashmap_remove_keeps_chain(k) ==
  /\ Idle
  /\ \E i \in Find(map, k) : map' = [map EXCEPT !.size = @ - 1, !.entries[i] = FreeEntry]
  /\ UNCHANGED <<pending, snapshot, copied>>

hashmap_remove(k) ==
  /\ Idle
  /\ \E i \in Find(map, k) :
       map' = [map EXCEPT !.size = @ - 1,
                          !.entries[i] = FreeEntry,
                          !.buckets[BucketOf(map, k)] = RemoveFirst(@, i)]
  /\ UNCHANGED <<pending, snapshot, copied>>

\* hashmap_clear keeps the capacity.
hashmap_clear ==
  /\ Idle
  /\ map.size # 0
  /\ map' = hashmap_alloc(map.capacity)
  /\ UNCHANGED <<pending, snapshot, copied>>

HashMapNext ==
  \/ \E k \in HashKeys, v \in HashValues : hashmap_put(k, v) \/ hashmap_put_if_absent(k, v)
  \/ \E k \in HashKeys : hashmap_remove(k)
  \/ hashmap_clear
  \/ hashmap_grow

HashMapSpec == HashMapInit /\ [][HashMapNext]_hashMapVars
-----------------------------------------------------------------------------
(* Properties. *)

\* What hashmap_grow takes for granted of the hashmap_put it calls.
GrowthFits ==
  ~Idle /\ copied \in UsedIn(snapshot) =>
    Find(map, snapshot[copied][1]) = {} /\ map.size < bucket_num(map.capacity)

\* The chains hold exactly the used entries, each once and in the bucket of
\* its key, size counts them, a free entry is always left for the search of
\* hashmap_put_new, and growing never meets a key twice or has to grow again.
ChainsMatchEntries ==
  /\ \A i \in DOMAIN map.entries :
       Cardinality({p \in (DOMAIN map.buckets) \X (1..map.capacity) :
                      p[2] \in DOMAIN map.buckets[p[1]] /\ map.buckets[p[1]][p[2]] = i})
         = IF map.entries[i] = FreeEntry THEN 0 ELSE 1
  /\ \A b \in DOMAIN map.buckets : \A i \in ToSet(map.buckets[b]) :
       BucketOf(map, map.entries[i][1]) = b
  /\ map.size = Cardinality(UsedIn(map.entries)) /\ map.size < map.capacity
  /\ GrowthFits

\* What hashmap_get returns for k, as a set of one pair or none.  Nothing is
\* asked of a table that grows; it holds what its snapshot holds.
Holding(k) ==
  IF Idle THEN {map.entries[i] : i \in Find(map, k)}
  ELSE {snapshot[i] : i \in {j \in UsedIn(snapshot) : snapshot[j][1] = k}}

Lookup == [k \in {x \in HashKeys : Holding(x) # {}} |-> (CHOOSE e \in Holding(k) : TRUE)[2]]

Dict == INSTANCE Dictionary WITH dict <- Lookup, Keys <- HashKeys, Values <- HashValues

\* hashmap.c implements a dictionary: what hashmap_get returns for every key
\* is what was put last and not removed since, across collisions and growth.
ImplementsDictionary == Dict!Spec
-----------------------------------------------------------------------------
(* What the two properties need in order to be inductive. *)

EntriesOf(capacity) == [0..(capacity - 1) -> (HashKeys \X HashValues) \cup {FreeEntry}]
TableOK(m) ==
  /\ m.capacity \in Nat \ {0, 1}
  /\ m \in [capacity : {m.capacity}, size : Nat, entries : EntriesOf(m.capacity),
            buckets : [0..(bucket_num(m.capacity) - 1) -> Seq(0..(m.capacity - 1))]]

KeysDiffer(entries) ==
  \A i, j \in UsedIn(entries) : entries[i][1] = entries[j][1] => i = j

\* A used entry is in the chain of its key, once, and in no other.
ChainsSound(m) ==
  /\ \A b \in DOMAIN m.buckets :
       /\ IsInjective(m.buckets[b])
       /\ \A i \in ToSet(m.buckets[b]) :
            m.entries[i] # FreeEntry /\ BucketOf(m, m.entries[i][1]) = b
  /\ \A i \in UsedIn(m.entries) : i \in ToSet(m.buckets[BucketOf(m, m.entries[i][1])])

SizeSound(m) == m.size = Cardinality(UsedIn(m.entries)) /\ m.size <= bucket_num(m.capacity)

TableSound(m) == TableOK(m) /\ KeysDiffer(m.entries) /\ ChainsSound(m) /\ SizeSound(m)

\* While the table grows it holds the entries of the snapshot that have been
\* copied, and the key that is to be put is none of the snapshot's.
GrowthSound ==
  /\ pending \in HashKeys \X HashValues
  /\ LET c == map.capacity \div 2
     IN  c > 1 /\ map.capacity = 2 * c /\ snapshot \in EntriesOf(c) /\ copied \in 0..c
  /\ KeysDiffer(snapshot)
  /\ \A i \in UsedIn(snapshot) : snapshot[i][1] # pending[1]
  /\ map.size <= copied
  /\ \A j \in UsedIn(map.entries) : \E i \in UsedIn(snapshot) :
       i < copied /\ snapshot[i] = map.entries[j]
  /\ \A i \in UsedIn(snapshot) : i < copied => \E j \in UsedIn(map.entries) : map.entries[j] = snapshot[i]

HashMapInv == TableSound(map) /\ (~Idle => GrowthSound)
=============================================================================

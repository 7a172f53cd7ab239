----------------------------- MODULE PartsProofs ----------------------------
(***************************************************************************)
(* The parts of a node that are data structures or algorithms of their     *)
(* own, for every capacity and every set of keys and values: the mask of   *)
(* received degrees, the ring buffer, the distributor, the cache of the    *)
(* echo listener, the LRU map, the heap, the hash table and the latency    *)
(* statistics.                                                             *)
(***************************************************************************)
EXTENDS Bitmap256, Containers, Distributor, EchoListener, Metric, SequenceFacts

(* The mask of received degrees. *)

\* Every degree lies in the lower half of its word.
LowHalf == \A key \in Degrees : key % 64 < 32

BufferOK == buffer \in [0..3 -> SUBSET (0..63)] /\ added \subseteq Degrees

\* Two degrees in the lower halves of their words that share a word and a bit
\* are the same degree.
LEMMA BitsDiffer ==
  ASSUME NEW k \in 0..255, NEW l \in 0..255,
         k % 64 < 32, l % 64 < 32, word(k) = word(l), bit(k) \cap bit(l) # {}
  PROVE  k = l
<1>1. k % 32 = l % 32
  <2>1. k % 32 \in 0..31 /\ l % 32 \in 0..31
    BY SMT
  <2>2. PICK b : b \in bit(k) /\ b \in bit(l)
    OBVIOUS
  <2>3. CASE k % 32 = 31
    BY <2>1, <2>2, <2>3, SMT DEF bit
  <2>4. CASE k % 32 # 31
    BY <2>1, <2>2, <2>4, SMT DEF bit
  <2> QED
    BY <2>3, <2>4
<1>2. k % 64 = k % 32 /\ l % 64 = l % 32
  BY SMT
<1>3. k \div 64 = l \div 64
  BY DEF word
<1> QED
  BY <1>1, <1>2, <1>3, SMT

\* The words are in range, and a degree always has a bit.
LEMMA WordsAndBits ==
  ASSUME NEW k \in 0..255
  PROVE  word(k) \in 0..3 /\ bit(k) \subseteq 0..63 /\ bit(k) # {}
<1>1. word(k) \in 0..3
  BY SMT DEF word
<1>2. k % 32 \in 0..31
  BY SMT
<1>3. k % 32 \in bit(k)
  BY <1>2, SMT DEF bit
<1>4. bit(k) \subseteq 0..63
  BY <1>2, SMT DEF bit
<1> QED
  BY <1>1, <1>3, <1>4

\* bitmap256_set of a new degree keeps the mask exact.
LEMMA SetStep ==
  ASSUME LowHalf, BufferOK, MaskIsExact, NEW key \in Degrees, bitmap256_set(key)
  PROVE  BufferOK' /\ MaskIsExact'
<1> USE DegreesAssumption
<1>k. key \in 0..255
  OBVIOUS
<1>w. word(key) \in 0..3 /\ bit(key) \subseteq 0..63 /\ bit(key) # {}
  BY <1>k, WordsAndBits
<1>1. /\ buffer' = [buffer EXCEPT ![word(key)] = @ \cup bit(key)]
      /\ added' = added \cup {key}
  BY DEF bitmap256_set
<1>2. BufferOK'
  BY <1>1, <1>w DEF BufferOK
<1>3. ASSUME NEW l \in Degrees
      PROVE  bitmap256_isset(buffer', l) <=> l \in added'
  <2>k. l \in 0..255 /\ word(l) \in 0..3
    BY WordsAndBits
  <2>0. bitmap256_isset(buffer, l) <=> l \in added
    BY DEF MaskIsExact
  <2>1. CASE l = key
    <3>1. buffer'[word(l)] = buffer[word(l)] \cup bit(l)
      BY <1>1, <1>w, <2>1 DEF BufferOK
    <3> QED
      BY <3>1, <1>1, <1>w, <2>1 DEF bitmap256_isset
  <2>2. CASE l # key /\ word(l) # word(key)
    <3>1. buffer'[word(l)] = buffer[word(l)]
      BY <1>1, <2>k, <2>2 DEF BufferOK
    <3> QED
      BY <3>1, <1>1, <2>0, <2>2 DEF bitmap256_isset
  <2>3. CASE l # key /\ word(l) = word(key)
    <3>1. buffer'[word(l)] = buffer[word(l)] \cup bit(key)
      BY <1>1, <1>w, <2>3 DEF BufferOK
    <3>2. bit(key) \cap bit(l) = {}
      BY <1>k, <2>k, <2>3, BitsDiffer DEF LowHalf
    <3> QED
      BY <3>1, <3>2, <1>1, <2>0, <2>3 DEF bitmap256_isset
  <2> QED
    BY <2>1, <2>2, <2>3
<1> QED
  BY <1>2, <1>3 DEF MaskIsExact

\* An empty mask is exact: bitmap256_reset.
LEMMA EmptyMask ==
  /\ buffer = [n \in 0..3 |-> {}] /\ added = {} => BufferOK /\ MaskIsExact
  /\ bitmap256_reset => BufferOK' /\ MaskIsExact'
<1>1. \A k \in Degrees : word(k) \in 0..3
  BY DegreesAssumption, WordsAndBits
<1> QED
  BY <1>1 DEF bitmap256_reset, BufferOK, MaskIsExact, bitmap256_isset

\* rs_decode's duplicate test is exact for every set of degrees whose
\* remainder modulo 64 is below 32, in particular for every N <= 32: the
\* widened int shift of bitmap256_set does no harm there.
THEOREM MaskExactInLowHalf ==
  ASSUME LowHalf
  PROVE  BitmapSpec => []MaskIsExact
<1>1. BitmapInit => BufferOK /\ MaskIsExact
  BY EmptyMask DEF BitmapInit
<1>2. BufferOK /\ MaskIsExact /\ [BitmapNext]_bitmapVars => (BufferOK /\ MaskIsExact)'
  <2> SUFFICES ASSUME BufferOK, MaskIsExact, [BitmapNext]_bitmapVars
               PROVE  BufferOK' /\ MaskIsExact'
    OBVIOUS
  <2>1. CASE bitmap256_reset
    BY <2>1, EmptyMask
  <2>2. ASSUME NEW key \in Degrees, bitmap256_set(key)
        PROVE  BufferOK' /\ MaskIsExact'
    BY <2>2, SetStep
  <2>3. CASE UNCHANGED bitmapVars
    BY <2>3 DEF bitmapVars, BufferOK, MaskIsExact
  <2> QED
    BY <2>1, <2>2, <2>3 DEF BitmapNext
<1> QED
  BY <1>1, <1>2, PTL DEF BitmapSpec


-----------------------------------------------------------------------------
(* The ring buffer. *)

RingOK ==
  /\ head \in 0..QueueCapacity /\ tail \in 0..QueueCapacity
  /\ entries \in [0..QueueCapacity -> QueueValues \cup {NULL}]

\* A position that has gone at most once around is wrapped by one subtraction.
LEMMA WrapAround ==
  ASSUME NEW n \in Nat \ {0}, NEW a \in 0..(2 * n - 1)
  PROVE  a % n = IF a < n THEN a ELSE a - n
  BY SMT

\* How many values there are between head and tail, without remainders.
LEMMA RingSize ==
  ASSUME NEW h \in 0..QueueCapacity, NEW t \in 0..QueueCapacity
  PROVE  /\ (entry_num + t - h) % entry_num = IF t >= h THEN t - h ELSE t - h + entry_num
         /\ (entry_num + t - h) % entry_num \in 0..QueueCapacity
<1>1. entry_num \in Nat \ {0} /\ entry_num = QueueCapacity + 1
  BY RingAssumption DEF entry_num
<1>2. PICK a \in Int : a = entry_num + t - h
  BY <1>1
<1>3. a \in 0..(2 * entry_num - 1)
  BY <1>1, <1>2, RingAssumption
<1>4. a % entry_num = IF a < entry_num THEN a ELSE a - entry_num
  BY <1>1, <1>3, WrapAround
<1>5. (entry_num + t - h) % entry_num = a % entry_num
  BY <1>2
<1>6. a % entry_num = IF t >= h THEN t - h ELSE t - h + entry_num
  BY <1>1, <1>2, <1>4, RingAssumption
<1> QED
  BY <1>1, <1>5, <1>6, RingAssumption

\* Where the i-th value is.
LEMMA RingSlot ==
  ASSUME NEW h \in 0..QueueCapacity, NEW i \in 1..entry_num
  PROVE  /\ (h + i - 1) % entry_num = IF h + i - 1 < entry_num THEN h + i - 1 ELSE h + i - 1 - entry_num
         /\ (h + i - 1) % entry_num \in 0..QueueCapacity
<1>1. entry_num \in Nat \ {0} /\ entry_num = QueueCapacity + 1
  BY RingAssumption DEF entry_num
<1>2. PICK a \in Int : a = h + i - 1
  BY <1>1
<1>3. a \in 0..(2 * entry_num - 1)
  BY <1>1, <1>2, RingAssumption
<1>4. a % entry_num = IF a < entry_num THEN a ELSE a - entry_num
  BY <1>1, <1>3, WrapAround
<1>5. (h + i - 1) % entry_num = a % entry_num
  BY <1>2
<1>6. a % entry_num \in 0..QueueCapacity
  BY <1>1, <1>3, <1>4, RingAssumption
<1>7. a % entry_num = IF h + i - 1 < entry_num THEN h + i - 1 ELSE h + i - 1 - entry_num
  BY <1>1, <1>2, <1>4
<1> QED
  BY <1>5, <1>6, <1>7, Zenon

\* The next entry of the array.
LEMMA RingNext ==
  ASSUME NEW p \in 0..QueueCapacity
  PROVE  NEXT(p) = (IF p = QueueCapacity THEN 0 ELSE p + 1) /\ NEXT(p) \in 0..QueueCapacity
<1>1. entry_num \in Nat \ {0} /\ entry_num = QueueCapacity + 1
  BY RingAssumption DEF entry_num
<1>2. PICK a \in Int : a = p + 1
  BY <1>1
<1>3. a \in 0..(2 * entry_num - 1)
  BY <1>1, <1>2, RingAssumption
<1>4. a % entry_num = IF a < entry_num THEN a ELSE a - entry_num
  BY <1>1, <1>3, WrapAround
<1>5. NEXT(p) = a % entry_num
  BY <1>2 DEF NEXT
<1> QED
  BY <1>1, <1>2, <1>4, <1>5, RingAssumption

\* The values that are queued are values of the array.
LEMMA RingItems ==
  ASSUME NEW S, NEW e \in [0..QueueCapacity -> S], NEW h \in 0..QueueCapacity,
         NEW n \in 0..QueueCapacity
  PROVE  \A i \in 1..n : e[(h + i - 1) % entry_num] \in S
<1>1. \A i \in 1..n : i \in 1..entry_num
  BY RingAssumption DEF entry_num
<1>2. \A i \in 1..n : (h + i - 1) % entry_num \in 0..QueueCapacity
  BY <1>1, RingSlot
<1> QED
  BY <1>2

\* queue_push appends the value, wherever in the array it goes.
LEMMA PushAppends ==
  ASSUME RingOK, NEW v \in QueueValues, queue_push(v)
  PROVE  RingOK' /\ items' = Append(items, v) /\ Len(items) < QueueCapacity
<1> DEFINE S == QueueValues \cup {NULL}
<1>1. QueueCapacity \in Nat /\ entry_num = QueueCapacity + 1
  BY RingAssumption DEF entry_num
<1>2. /\ queue_size < QueueCapacity /\ entries' = [entries EXCEPT ![tail] = v]
      /\ tail' = NEXT(tail) /\ head' = head
  BY DEF queue_push
<1>3. RingOK'
  BY <1>2, RingNext DEF RingOK
<1>4. PICK n \in 0..QueueCapacity : n = queue_size
  BY RingSize DEF RingOK, queue_size
<1>5. n = IF tail >= head THEN tail - head ELSE tail - head + entry_num
  BY <1>4, RingSize DEF RingOK, queue_size
<1>6. queue_size' = n + 1
  <2>1. queue_size' = IF tail' >= head' THEN tail' - head' ELSE tail' - head' + entry_num
    BY <1>3, RingSize DEF queue_size, RingOK, entry_num
  <2>2. tail' = IF tail = QueueCapacity THEN 0 ELSE tail + 1
    BY <1>2, RingNext DEF RingOK
  <2> QED
    BY <1>1, <1>2, <1>4, <1>5, <2>1, <2>2 DEF RingOK
<1>7. n + 1 \in 0..QueueCapacity /\ n \in Nat /\ n < QueueCapacity
  BY <1>1, <1>2, <1>4
<1>8. /\ items' = [i \in 1..(n + 1) |-> entries'[(head + i - 1) % entry_num]]
      /\ items = [i \in 1..n |-> entries[(head + i - 1) % entry_num]]
  BY <1>2, <1>4, <1>6 DEF items, entry_num
<1>9. /\ items' \in Seq(S) /\ Len(items') = n + 1
      /\ \A i \in 1..(n + 1) : items'[i] = entries'[(head + i - 1) % entry_num]
  <2>1. PICK m \in 0..QueueCapacity : m = n + 1
    BY <1>7
  <2>2. entries' \in [0..QueueCapacity -> S] /\ head' \in 0..QueueCapacity
    BY <1>3 DEF RingOK
  <2>3. \A i \in 1..m : entries'[(head' + i - 1) % entry_num] \in S
    BY <2>2, RingItems
  <2>4. items' = [i \in 1..m |-> entries'[(head' + i - 1) % entry_num]]
    BY <1>2, <1>8, <2>1
  <2>5. items' \in [1..m -> S] /\ \A i \in 1..m : items'[i] = entries'[(head' + i - 1) % entry_num]
    BY <2>3, <2>4, Zenon
  <2>6. items' \in Seq(S) /\ Len(items') = m
    BY <2>5
  <2> QED
    BY <1>2, <2>1, <2>5, <2>6
<1>10. /\ items \in Seq(S) /\ Len(items) = n
      /\ \A i \in 1..n : items[i] = entries[(head + i - 1) % entry_num]
  <2>1. entries \in [0..QueueCapacity -> S] /\ head \in 0..QueueCapacity
    BY DEF RingOK
  <2>2. \A i \in 1..n : entries[(head + i - 1) % entry_num] \in S
    BY <2>1, RingItems
  <2>3. items \in [1..n -> S] /\ \A i \in 1..n : items[i] = entries[(head + i - 1) % entry_num]
    BY <1>8, <2>2, Zenon
  <2>4. items \in Seq(S) /\ Len(items) = n
    BY <2>3
  <2> QED
    BY <2>3, <2>4
<1>11. /\ Append(items, v) \in Seq(S) /\ Len(Append(items, v)) = n + 1
       /\ \A i \in 1..n : Append(items, v)[i] = items[i]
       /\ Append(items, v)[n + 1] = v
  BY <1>10, AppendElements
<1>12. (head + (n + 1) - 1) % entry_num = tail
  <2>1. PICK m \in 1..entry_num : m = n + 1
    BY <1>1, <1>7
  <2>2. (head + m - 1) % entry_num = IF head + m - 1 < entry_num THEN head + m - 1 ELSE head + m - 1 - entry_num
    BY RingSlot DEF RingOK
  <2>3. (head + m - 1) % entry_num = tail
    BY <1>1, <1>5, <1>7, <2>1, <2>2 DEF RingOK
  <2> QED
    BY <2>1, <2>3
<1>13. \A i \in 1..n : (head + i - 1) % entry_num # tail
  <2> SUFFICES ASSUME NEW i \in 1..n PROVE (head + i - 1) % entry_num # tail
    OBVIOUS
  <2>1. i \in 1..entry_num
    BY <1>1, <1>7
  <2>2. (head + i - 1) % entry_num = IF head + i - 1 < entry_num THEN head + i - 1 ELSE head + i - 1 - entry_num
    BY <2>1, RingSlot DEF RingOK
  <2> QED
    BY <1>1, <1>5, <1>7, <2>1, <2>2 DEF RingOK
<1>14. ASSUME NEW i \in 1..(n + 1) PROVE items'[i] = Append(items, v)[i]
  <2>1. CASE i = n + 1
    BY <2>1, <1>2, <1>9, <1>11, <1>12 DEF RingOK
  <2>2. CASE i # n + 1
    <3>1. i \in 1..n
      BY <2>2, <1>7
    <3>2. (head + i - 1) % entry_num \in 0..QueueCapacity
      BY <1>1, <1>7, <3>1, RingSlot DEF RingOK
    <3>3. entries'[(head + i - 1) % entry_num] = entries[(head + i - 1) % entry_num]
      BY <3>1, <3>2, <1>2, <1>13 DEF RingOK
    <3> QED
      BY <3>1, <3>3, <1>9, <1>10, <1>11
  <2> QED
    BY <2>1, <2>2
<1>15. items' = Append(items, v)
  <2> DEFINE a == items'
             b == Append(items, v)
  <2>1. a \in Seq(S) /\ b \in Seq(S) /\ Len(a) = Len(b) /\ \A i \in 1..Len(a) : a[i] = b[i]
    BY <1>9, <1>11, <1>14
  <2> HIDE DEF a, b, S
  <2>2. a = b
    BY <2>1, SeqEqual
  <2> QED
    BY <2>2 DEF a, b
<1> QED
  BY <1>3, <1>7, <1>10, <1>15

\* queue_pop returns the value pushed first and keeps the others in order.
LEMMA PopTakesHead ==
  ASSUME RingOK, queue_pop
  PROVE  RingOK' /\ items # <<>> /\ items' = Tail(items) /\ result' = Head(items)
<1> DEFINE S == QueueValues \cup {NULL}
<1>0. QueueCapacity \in Nat /\ entry_num = QueueCapacity + 1
  BY RingAssumption DEF entry_num
<1>1. queue_size # 0 /\ result' = entries[head] /\ head' = NEXT(head) /\ UNCHANGED <<entries, tail>>
  BY DEF queue_pop
<1>2. RingOK'
  BY <1>1, RingNext DEF RingOK
<1>3. PICK n \in 0..QueueCapacity : n = queue_size
  BY RingSize DEF RingOK, queue_size
<1>4. n = IF tail >= head THEN tail - head ELSE tail - head + entry_num
  BY <1>3, RingSize DEF RingOK, queue_size
<1>a. head' = IF head = QueueCapacity THEN 0 ELSE head + 1
  BY <1>1, RingNext DEF RingOK
<1>5. queue_size' = n - 1
  <2>1. queue_size' = IF tail' >= head' THEN tail' - head' ELSE tail' - head' + entry_num
    BY <1>2, RingSize DEF queue_size, RingOK, entry_num
  <2> QED
    BY <1>0, <1>1, <1>3, <1>4, <1>a, <2>1 DEF RingOK
<1>6. n - 1 \in 0..QueueCapacity /\ n \in Nat \ {0}
  BY <1>0, <1>1, <1>3
<1>7. /\ items' = [i \in 1..(n - 1) |-> entries[(head' + i - 1) % entry_num]]
      /\ items = [i \in 1..n |-> entries[(head + i - 1) % entry_num]]
  BY <1>1, <1>3, <1>5 DEF items, entry_num
<1>8. /\ items' \in Seq(S) /\ Len(items') = n - 1
      /\ \A i \in 1..(n - 1) : items'[i] = entries[(head' + i - 1) % entry_num]
  <2>1. PICK m \in 0..QueueCapacity : m = n - 1
    BY <1>6
  <2>2. entries' \in [0..QueueCapacity -> S] /\ head' \in 0..QueueCapacity
    BY <1>2 DEF RingOK
  <2>3. \A i \in 1..m : entries'[(head' + i - 1) % entry_num] \in S
    BY <2>2, RingItems
  <2>4. items' = [i \in 1..m |-> entries'[(head' + i - 1) % entry_num]]
    BY <1>1, <1>7, <2>1
  <2>5. items' \in [1..m -> S] /\ \A i \in 1..m : items'[i] = entries'[(head' + i - 1) % entry_num]
    BY <2>3, <2>4, Zenon
  <2>6. items' \in Seq(S) /\ Len(items') = m
    BY <2>5
  <2> QED
    BY <1>1, <2>1, <2>5, <2>6
<1>9. /\ items \in Seq(S) /\ Len(items) = n
      /\ \A i \in 1..n : items[i] = entries[(head + i - 1) % entry_num]
  <2>1. entries \in [0..QueueCapacity -> S] /\ head \in 0..QueueCapacity
    BY DEF RingOK
  <2>2. \A i \in 1..n : entries[(head + i - 1) % entry_num] \in S
    BY <2>1, RingItems
  <2>3. items \in [1..n -> S] /\ \A i \in 1..n : items[i] = entries[(head + i - 1) % entry_num]
    BY <1>7, <2>2, Zenon
  <2>4. items \in Seq(S) /\ Len(items) = n
    BY <2>3
  <2> QED
    BY <2>3, <2>4
<1>10. items # <<>> /\ Head(items) = items[1] /\ 1 \in 1..n
  BY <1>6, <1>9
<1>11. /\ Tail(items) \in Seq(S) /\ Len(Tail(items)) = n - 1
       /\ \A i \in 1..(n - 1) : Tail(items)[i] = items[i + 1]
  BY <1>9, <1>10, TailElements
<1>12. result' = Head(items)
  <2>1. PICK m \in 1..entry_num : m = 1
    BY <1>0
  <2>2. (head + m - 1) % entry_num = IF head + m - 1 < entry_num THEN head + m - 1 ELSE head + m - 1 - entry_num
    BY RingSlot DEF RingOK
  <2>3. (head + m - 1) % entry_num = head
    BY <1>0, <2>1, <2>2 DEF RingOK
  <2>4. items[m] = entries[(head + m - 1) % entry_num]
    BY <1>9, <1>10, <2>1
  <2> QED
    BY <2>1, <2>3, <2>4, <1>1, <1>10
<1>13. ASSUME NEW i \in 1..(n - 1) PROVE items'[i] = Tail(items)[i]
  <2>1. i \in 1..entry_num
    BY <1>0, <1>3
  <2>2. PICK m \in 1..entry_num : m = i + 1
    BY <1>0, <1>3
  <2>3. PICK g \in 0..QueueCapacity : g = head'
    BY <1>2 DEF RingOK
  <2>4. (g + i - 1) % entry_num = IF g + i - 1 < entry_num THEN g + i - 1 ELSE g + i - 1 - entry_num
    BY <2>1, RingSlot
  <2>5. (head + m - 1) % entry_num = IF head + m - 1 < entry_num THEN head + m - 1 ELSE head + m - 1 - entry_num
    BY <2>2, RingSlot DEF RingOK
  <2>6. (g + i - 1) % entry_num = (head + m - 1) % entry_num
    BY <1>0, <1>a, <2>1, <2>2, <2>3, <2>4, <2>5 DEF RingOK
  <2>7. items[m] = entries[(head + m - 1) % entry_num] /\ Tail(items)[i] = items[m]
    <3>1. m \in 1..n
      BY <1>6, <2>2
    <3> QED
      BY <3>1, <1>9, <1>11, <2>2
  <2>8. items'[i] = entries[(g + i - 1) % entry_num]
    BY <1>8, <2>3
  <2> QED
    BY <2>6, <2>7, <2>8
<1>14. items' = Tail(items)
  <2> DEFINE a == items'
             b == Tail(items)
  <2>1. a \in Seq(S) /\ b \in Seq(S) /\ Len(a) = Len(b) /\ \A i \in 1..Len(a) : a[i] = b[i]
    BY <1>8, <1>11, <1>13
  <2> HIDE DEF a, b, S
  <2>2. a = b
    BY <2>1, SeqEqual
  <2> QED
    BY <2>2 DEF a, b
<1> QED
  BY <1>2, <1>10, <1>12, <1>14

\* queue.c implements a bounded first-in first-out queue, for every capacity
\* and across any number of wrap-arounds: a full queue is never taken for an
\* empty one, and no value is lost, repeated or overwritten.
THEOREM RingIsAQueue == QueueSpec => ImplementsQueue
<1>1. QueueInit => RingOK /\ Fifo!Init
  <2> SUFFICES ASSUME QueueInit PROVE RingOK /\ Fifo!Init
    OBVIOUS
  <2>1. RingOK
    BY RingAssumption DEF QueueInit, RingOK
  <2>2. queue_size = 0
    <3>1. head = 0 /\ tail = 0
      BY DEF QueueInit
    <3> QED
      BY <2>1, <3>1, RingSize DEF queue_size, RingOK
  <2>3. items \in Seq(QueueValues \cup {NULL}) /\ Len(items) = 0
    BY <2>1, <2>2, RingItems, RingAssumption DEF RingOK, items
  <2>4. items = <<>>
    BY <2>3
  <2> QED
    BY <2>1, <2>4 DEF Fifo!Init, QueueInit
<1>2. RingOK /\ [QueueNext]_queueVars => RingOK' /\ [Fifo!Next]_(Fifo!qvars)
  <2> SUFFICES ASSUME RingOK, [QueueNext]_queueVars
               PROVE  RingOK' /\ [Fifo!Next]_(Fifo!qvars)
    OBVIOUS
  <2>1. ASSUME NEW v \in QueueValues, queue_push(v) PROVE RingOK' /\ Fifo!Push
    <3>1. RingOK' /\ items' = Append(items, v) /\ Len(items) < QueueCapacity
      BY <2>1, PushAppends
    <3>2. result' = result
      BY <2>1 DEF queue_push
    <3> QED
      BY <3>1, <3>2 DEF Fifo!Push
  <2>2. CASE queue_pop
    <3>1. RingOK' /\ Fifo!Pop
      BY <2>2, PopTakesHead DEF Fifo!Pop
    <3> QED
      BY <3>1 DEF Fifo!Next
  <2>3. CASE UNCHANGED queueVars
    <3>1. RingOK'
      BY <2>3 DEF queueVars, RingOK
    <3>2. items' = items /\ result' = result
      BY <2>3 DEF queueVars, items, queue_size
    <3> QED
      BY <3>1, <3>2 DEF Fifo!qvars
  <2> QED
    BY <2>1, <2>2, <2>3 DEF QueueNext, Fifo!Next
<1> QED
  BY <1>1, <1>2, PTL DEF QueueSpec, ImplementsQueue, Fifo!Spec


-----------------------------------------------------------------------------
(* The distributor. *)

\* The table has a cell for every row and every entry of it.
LEMMA CellInTable ==
  ASSUME NEW r \in 0..(SeqNum - 1), NEW d \in 0..(DupNum - 1)
  PROVE  r * DupNum + d \in 0..(SeqNum * DupNum - 1)
<1> USE DistributorAssumption
<1>1. (r + 1) * DupNum <= SeqNum * DupNum
  OBVIOUS
<1>2. (r + 1) * DupNum = r * DupNum + DupNum
  OBVIOUS
<1>3. r * DupNum \in Nat /\ SeqNum * DupNum \in Nat
  OBVIOUS
<1> QED
  BY <1>1, <1>2, <1>3

\* The loop of nt_distributor_init stops at the first row without a path.
LEMMA RowsUpToTheFirstEmpty ==
  ASSUME seq2addr \in [0..(SeqNum * DupNum - 1) -> Int]
  PROVE  /\ ActualSeqNum \in 0..SeqNum
         /\ \A r \in 0..(ActualSeqNum - 1) : Cell(r, 0) >= 0
         /\ ActualSeqNum = 0 => Cell(0, 0) < 0
<1> USE DistributorAssumption
<1> DEFINE ends == {r \in Row : Cell(r, 0) < 0}
<1>1. \A r \in Row : Cell(r, 0) \in Int
  BY CellInTable DEF Row, Cell
<1>2. CASE ends = {}
  <2>1. ActualSeqNum = SeqNum
    BY <1>2 DEF ActualSeqNum
  <2>2. \A r \in Row : ~(Cell(r, 0) < 0)
    BY <1>2
  <2> QED
    BY <1>1, <2>1, <2>2 DEF Row
<1>3. CASE ends # {}
  <2>1. ends \in SUBSET Nat
    BY DEF Row
  <2>2. \E r \in ends : \A s \in ends : r <= s
    BY <1>3, <2>1, LeastNatural
  <2>3. ActualSeqNum \in ends /\ \A s \in ends : ActualSeqNum <= s
    BY <1>3, <2>2 DEF ActualSeqNum
  <2>4. ActualSeqNum \in Row /\ Cell(ActualSeqNum, 0) < 0
    BY <2>3
  <2>5. ASSUME NEW r \in 0..(ActualSeqNum - 1) PROVE Cell(r, 0) >= 0
    <3>1. r \in Row /\ ~(ActualSeqNum <= r)
      BY <2>4 DEF Row
    <3>2. ~(Cell(r, 0) < 0)
      BY <2>3, <3>1
    <3> QED
      BY <1>1, <3>1, <3>2
  <2> QED
    BY <2>4, <2>5 DEF Row
<1> QED
  BY <1>2, <1>3

\* The distributor starts with an empty table.
LEMMA DistributorInitInv == DistributorInit => DistributorInv
  BY DEF DistributorInit, DistributorInv

\* Every step of the distributor keeps the invariant.
LEMMA DistributorNextInv ==
  DistributorInv /\ [DistributorNext]_distributorVars => DistributorInv'
<1> SUFFICES ASSUME DistributorInv, [DistributorNext]_distributorVars PROVE DistributorInv'
  OBVIOUS
<1> USE DistributorAssumption
<1>1. CASE parse_seq2addr
  <2>1. DOMAIN seq2addr = 0..(SeqNum * DupNum - 1) /\ PathIndex \subseteq Int
    BY DEF DistributorInv, PathIndex
  <2>2. seq2addr' \in [0..(SeqNum * DupNum - 1) -> Int]
    BY <1>1, <2>1 DEF parse_seq2addr
  <2> QED
    BY <1>1, <2>2 DEF parse_seq2addr, DistributorInv
<1>2. CASE nt_distributor_init
  <2>1. CASE RowsValid
    <3>1. phase' = "idle" /\ seq_num' = ActualSeqNum /\ UNCHANGED <<seq2addr, index, dup, sent>>
      BY <1>2, <2>1 DEF nt_distributor_init
    <3>2. /\ ActualSeqNum \in 0..SeqNum
          /\ \A r \in 0..(ActualSeqNum - 1) : Cell(r, 0) >= 0
          /\ ActualSeqNum = 0 => Cell(0, 0) < 0
      BY RowsUpToTheFirstEmpty DEF DistributorInv
    <3>3. \A r \in 0..(ActualSeqNum - 1) : \A d \in 0..(DupNum - 1) : Cell(r, d) < PathNum
      BY <2>1 DEF RowsValid
    <3>4. RowsInUse'
      BY <3>1, <3>2, <3>3 DEF RowsInUse, Cell
    <3> QED
      BY <3>1, <3>4 DEF DistributorInv
  <2>2. CASE ~RowsValid
    BY <1>2, <2>2 DEF nt_distributor_init, DistributorInv
  <2> QED
    BY <2>1, <2>2
<1>3. ASSUME NEW i \in 0..MaxIndex, StartPacket(i) PROVE DistributorInv'
  <2>1. /\ phase = "idle" /\ seq_num > 0 /\ phase' = "sending" /\ index' = i /\ dup' = 0 /\ sent' = <<>>
        /\ UNCHANGED <<seq2addr, seq_num>>
    BY <1>3 DEF StartPacket
  <2>2. RowsInUse'
    BY <2>1 DEF DistributorInv, RowsInUse, Cell
  <2> QED
    BY <2>1, <2>2 DEF DistributorInv
<1>4. CASE SelectTraps
  BY <1>4 DEF SelectTraps, DistributorInv, RowsInUse, Cell
<1>5. CASE SendPath
  <2>1. /\ phase = "sending" /\ HasPath /\ sent' = Append(sent, Selected) /\ dup' = dup + 1
        /\ UNCHANGED <<seq2addr, phase, seq_num, index>>
    BY <1>5 DEF SendPath
  <2>2. /\ RowsInUse /\ seq_num > 0 /\ index \in Nat /\ dup \in 0..DupNum
        /\ sent \in Seq(0..(PathNum - 1)) /\ seq2addr \in [0..(SeqNum * DupNum - 1) -> Int]
    BY <2>1 DEF DistributorInv
  <2>3. PICK r \in 0..(seq_num - 1) : r = index % seq_num
    BY <2>2 DEF RowsInUse
  <2>4. dup \in 0..(DupNum - 1) /\ r \in 0..(SeqNum - 1)
    BY <2>1, <2>2 DEF HasPath, RowsInUse
  <2>5. Cell(r, dup) < PathNum /\ Selected = Cell(r, dup) /\ Selected >= 0
    BY <2>1, <2>2, <2>3, <2>4 DEF RowsInUse, Selected, HasPath
  <2>6. Cell(r, dup) \in Int
    BY <2>2, <2>4, CellInTable DEF Cell
  <2>7. Selected \in 0..(PathNum - 1)
    BY <2>5, <2>6
  <2>8. sent' \in Seq(0..(PathNum - 1)) /\ sent' # <<>>
    <3> DEFINE P == 0..(PathNum - 1)
    <3>1. sent \in Seq(P) /\ Selected \in P
      BY <2>2, <2>7
    <3> HIDE DEF P
    <3>2. Append(sent, Selected) \in Seq(P) /\ Append(sent, Selected) # <<>>
      BY <3>1
    <3> QED
      BY <2>1, <3>2 DEF P
  <2>9. RowsInUse'
    BY <2>1, <2>2 DEF RowsInUse, Cell
  <2>10. dup' \in 0..DupNum
    BY <2>1, <2>4
  <2> QED
    BY <2>1, <2>2, <2>8, <2>9, <2>10 DEF DistributorInv
<1>6. CASE PathsDone
  <2>1. phase = "sending" /\ phase' = "idle" /\ UNCHANGED <<seq2addr, seq_num, index, dup, sent>>
    BY <1>6 DEF PathsDone
  <2> QED
    BY <2>1 DEF DistributorInv, RowsInUse, Cell
<1>7. CASE UNCHANGED distributorVars
  BY <1>7 DEF distributorVars, DistributorInv, RowsInUse, Cell
<1> QED
  BY <1>1, <1>2, <1>3, <1>4, <1>5, <1>6, <1>7 DEF DistributorNext

\* The one validation of nt_distributor_init covers every entry that is used
\* later, for every table, every number of paths and every block_index.
THEOREM PacketsHaveTheirPaths == DistributorSpec => []EveryPacketHasItsPaths
<1>1. DistributorInv => EveryPacketHasItsPaths
  <2> SUFFICES ASSUME DistributorInv PROVE EveryPacketHasItsPaths
    OBVIOUS
  <2>1. \A i \in DOMAIN sent : sent[i] \in 0..(PathNum - 1)
    BY ElementOfSeq, LenProperties DEF DistributorInv
  <2>2. ASSUME phase = "sending", ~HasPath PROVE sent # <<>>
    <3>1. RowsInUse /\ seq_num > 0 /\ index \in Nat /\ dup \in 0..DupNum /\ (dup > 0 => sent # <<>>)
      BY <2>2 DEF DistributorInv
    <3>2. index % seq_num \in 0..(seq_num - 1)
      BY <3>1 DEF RowsInUse
    <3>3. Cell(index % seq_num, 0) >= 0
      BY <3>1, <3>2 DEF RowsInUse
    <3>4. dup # 0
      BY <2>2, <3>3, DistributorAssumption DEF HasPath, Selected
    <3> QED
      BY <3>1, <3>4
  <2> QED
    BY <2>1, <2>2 DEF DistributorInv, EveryPacketHasItsPaths
<1> QED
  BY <1>1, DistributorInitInv, DistributorNextInv, PTL DEF DistributorSpec


-----------------------------------------------------------------------------
(* The echo listener. *)

\* The listener starts with all buffers free.
LEMMA EchoInitInv == EchoInit => EchoInv
<1> SUFFICES ASSUME EchoInit PROVE EchoInv
  OBVIOUS
<1>1. lru = <<>> /\ ToSet(lru) = {} /\ IsInjective(lru)
  BY DEF EchoInit, ToSet, IsInjective
<1>2. EchoTypeOK
  BY <1>1 DEF EchoInit, EchoTypeOK
<1>3. KeysOnce /\ EntriesDated /\ Forgotten
  BY <1>1 DEF EchoInit, KeysOnce, EntriesDated, Forgotten
<1>4. EchoedOncePerTimeout
  BY DEF EchoInit, EchoedOncePerTimeout
<1> QED
  BY <1>2, <1>3, <1>4 DEF EchoInv

\* What is noted of a received message: it is new to all others.
LEMMA NotedSince ==
  ASSUME EchoTypeOK, NEW k \in EchoKeys, NEW out \in BOOLEAN, Note(k, out)
  PROVE  /\ since' \in [EchoKeys -> SUBSET EchoKeys]
         /\ \A c \in EchoKeys : c # k => since'[c] = since[c] \cup {k}
         /\ last' \in [out : BOOLEAN, idle : Nat, since : SUBSET EchoKeys, seen : BOOLEAN]
         /\ last'.out = out /\ last'.idle = idle[k] /\ last'.since = since[k]
         /\ last'.seen <=> k \in seen
         /\ \A c \in EchoKeys : c # k /\ Cardinality(since[c]) >= dedup_cache_size
              => Cardinality(since'[c]) >= dedup_cache_size
<1>1. /\ since' = [c \in EchoKeys |-> IF c = k THEN {} ELSE since[c] \cup {k}]
      /\ last' = [out |-> out, idle |-> idle[k], since |-> since[k], seen |-> k \in seen]
  BY DEF Note
<1>2. /\ since' \in [EchoKeys -> SUBSET EchoKeys]
      /\ \A c \in EchoKeys : c # k => since'[c] = since[c] \cup {k}
  BY <1>1 DEF EchoTypeOK
<1>3. idle[k] \in Nat /\ since[k] \in SUBSET EchoKeys /\ (k \in seen) \in BOOLEAN
  BY DEF EchoTypeOK
<1>4. /\ last' \in [out : BOOLEAN, idle : Nat, since : SUBSET EchoKeys, seen : BOOLEAN]
      /\ last'.out = out /\ last'.idle = idle[k] /\ last'.since = since[k]
      /\ last'.seen = (k \in seen)
  BY <1>1, <1>3
<1>5. ASSUME NEW c \in EchoKeys, c # k, Cardinality(since[c]) >= dedup_cache_size
      PROVE  Cardinality(since'[c]) >= dedup_cache_size
  <2>1. since[c] \in SUBSET since'[c] /\ since'[c] \in SUBSET EchoKeys /\ since[c] \in SUBSET EchoKeys
    BY <1>2, <1>5 DEF EchoTypeOK
  <2>2. IsFiniteSet(since'[c]) /\ IsFiniteSet(since[c])
    BY <2>1, EchoKeysAssumption, FS_Subset
  <2>3. Cardinality(since[c]) <= Cardinality(since'[c])
    BY <2>1, <2>2, FS_Subset
  <2>4. Cardinality(since[c]) \in Nat /\ Cardinality(since'[c]) \in Nat /\ dedup_cache_size \in Nat
    BY <2>2, EchoCacheAssumption, FS_CardinalityType DEF dedup_cache_size
  <2> QED
    BY <1>5, <2>3, <2>4
<1> QED
  BY <1>2, <1>4, <1>5

\* A duplicate becomes the newest entry, and its age stays.
LEMMA DuplicateStep ==
  ASSUME EchoInv, NEW k \in EchoKeys, Duplicate(k)
  PROVE  EchoInv'
<1>1. EchoTypeOK /\ KeysOnce /\ EntriesDated /\ Forgotten
  BY DEF EchoInv
<1>2. PICK x \in Entries(k) :
        /\ stamp[x] <= DedupTimeout /\ lru' = LruGet(lru, x) /\ Note(k, FALSE)
        /\ UNCHANGED <<cache_pool, content, stamp, idle, seen>>
  BY DEF Duplicate
<1> DEFINE r == RemoveFirst(lru, x)
<1>3. x \in ToSet(lru) /\ content[x] = k /\ x \in KeyBuffers
  BY <1>1 DEF Entries, LruKeys, KeysOnce
<1>4. lru \in Seq(KeyBuffers) /\ IsInjective(lru)
  BY <1>1 DEF EchoTypeOK, KeysOnce
<1>5. r \in Seq(KeyBuffers) /\ IsInjective(r) /\ ToSet(r) = ToSet(lru) \ {x}
  BY <1>4, RemoveSet
<1>6. lru' = <<x>> \o r
  BY <1>2 DEF LruGet, LruRemove
<1>7. \A a, b : Before(r, a, b) => Before(lru, a, b)
  BY <1>4, BeforeRemove
<1> HIDE DEF r
<1>8. lru' \in Seq(KeyBuffers) /\ IsInjective(lru') /\ ToSet(lru') = ToSet(lru)
  <2>1. <<x>> \o r \in Seq(KeyBuffers) /\ ToSet(<<x>> \o r) = ToSet(r) \cup {x}
    BY <1>3, <1>5, PrependSet
  <2>2. x \notin ToSet(r)
    BY <1>5
  <2>3. IsInjective(<<x>> \o r)
    BY <1>3, <1>5, <2>2, PrependSet
  <2>4. ToSet(r) \cup {x} = ToSet(lru)
    BY <1>3, <1>5
  <2> QED
    BY <1>6, <2>1, <2>3, <2>4, Zenon
<1>9. /\ since' \in [EchoKeys -> SUBSET EchoKeys]
      /\ \A c \in EchoKeys : c # k => since'[c] = since[c] \cup {k}
      /\ last' \in [out : BOOLEAN, idle : Nat, since : SUBSET EchoKeys, seen : BOOLEAN]
      /\ last'.out = FALSE /\ last'.idle = idle[k] /\ (last'.seen <=> k \in seen)
      /\ \A c \in EchoKeys : c # k /\ Cardinality(since[c]) >= dedup_cache_size
           => Cardinality(since'[c]) >= dedup_cache_size
  BY <1>1, <1>2, NotedSince
<1>10. EchoTypeOK'
  BY <1>1, <1>2, <1>8, <1>9 DEF EchoTypeOK
<1>11. KeysOnce'
  BY <1>1, <1>2, <1>8 DEF KeysOnce
<1>12. EntriesDated'
  BY <1>1, <1>2, <1>8 DEF EntriesDated
<1>13. ASSUME NEW a \in ToSet(lru'), NEW b \in ToSet(lru'), Before(lru', a, b)
       PROVE  content[a] \in since'[content[b]]
  <2>1. (a = x /\ b \in ToSet(r)) \/ Before(r, a, b)
    BY <1>3, <1>5, <1>6, <1>13, BeforePrepend
  <2>2. b \in ToSet(r)
    BY <2>1, BeforeMembers
  <2>3. b \in ToSet(lru) /\ b # x /\ content[b] # k /\ content[b] \in EchoKeys
    BY <1>1, <1>3, <1>5, <2>2 DEF KeysOnce, EntriesDated, EchoTypeOK
  <2>4. since'[content[b]] = since[content[b]] \cup {k}
    BY <1>9, <2>3
  <2>5. CASE a = x
    BY <1>3, <2>4, <2>5
  <2>6. CASE Before(r, a, b)
    <3>1. Before(lru, a, b) /\ a \in ToSet(lru)
      BY <1>7, <1>8, <1>13, <2>6
    <3> QED
      BY <1>1, <2>3, <2>4, <3>1 DEF Forgotten
  <2> QED
    BY <2>1, <2>5, <2>6
<1>14. ASSUME NEW c \in seen'
       PROVE  c \in {content[y] : y \in ToSet(lru')} \/ Cardinality(since'[c]) >= dedup_cache_size
  <2>1. c \in EchoKeys /\ c \in seen
    BY <1>1, <1>2 DEF EchoTypeOK
  <2>2. c \in {content[y] : y \in ToSet(lru)} \/ Cardinality(since[c]) >= dedup_cache_size
    BY <1>1, <2>1 DEF Forgotten
  <2>3. CASE c = k
    BY <1>3, <1>8, <2>3
  <2>4. CASE c # k
    BY <1>8, <1>9, <2>1, <2>2, <2>4
  <2> QED
    BY <2>3, <2>4
<1>15. Forgotten'
  BY <1>2, <1>13, <1>14 DEF Forgotten, dedup_cache_size
<1>16. k \in seen /\ idle[k] <= DedupTimeout
  BY <1>1, <1>2, <1>3 DEF EntriesDated
<1>17. EchoedOncePerTimeout'
  BY <1>9, <1>16 DEF EchoedOncePerTimeout
<1> QED
  BY <1>10, <1>11, <1>12, <1>15, <1>17 DEF EchoInv

\* What handle_read has made room for, when it inserts a new entry for k: no
\* entry for k is left, and the one that had to go was expired or the eldest.
LEMMA RoomForEntry ==
  ASSUME EchoInv, NEW k \in EchoKeys, dedup_cache_size > 0,
         \A x \in Entries(k) : stamp[x] > DedupTimeout
  PROVE  /\ Kept(k) \in Seq(KeyBuffers) /\ IsInjective(Kept(k))
         /\ Victims(k) \subseteq ToSet(lru) /\ ToSet(Kept(k)) = ToSet(lru) \ Victims(k)
         /\ \A x \in ToSet(Kept(k)) : content[x] # k
         /\ \A a, b : Before(Kept(k), a, b) => Before(lru, a, b)
         /\ \A v \in Victims(k) : content[v] # k =>
              /\ lru # <<>> /\ v = Last(lru) /\ Len(lru) = dedup_cache_size
              /\ \A x \in ToSet(lru) : content[x] # k
         /\ cache_pool \cup Victims(k) # {}
<1>1. EchoTypeOK /\ KeysOnce
  BY DEF EchoInv
<1>2. lru \in Seq(KeyBuffers) /\ IsInjective(lru)
  BY <1>1 DEF EchoTypeOK, KeysOnce
<1>3. Entries(k) = {x \in ToSet(lru) : content[x] = k}
  BY DEF Entries, LruKeys
<1>4. ASSUME NEW v \in ToSet(lru), Victims(k) = {v}
      PROVE  /\ Kept(k) = RemoveFirst(lru, v)
             /\ Kept(k) \in Seq(KeyBuffers) /\ IsInjective(Kept(k))
             /\ Victims(k) \subseteq ToSet(lru) /\ ToSet(Kept(k)) = ToSet(lru) \ Victims(k)
             /\ \A a, b : Before(Kept(k), a, b) => Before(lru, a, b)
             /\ cache_pool \cup Victims(k) # {}
  <2>1. Kept(k) = RemoveFirst(lru, v)
    BY <1>4 DEF Kept, LruRemove
  <2> QED
    BY <1>2, <1>4, <2>1, RemoveSet, BeforeRemove
<1>5. CASE Entries(k) # {}
  <2>1. PICK v \in Entries(k) : TRUE
    BY <1>5
  <2>2. v \in ToSet(lru) /\ content[v] = k /\ Entries(k) = {v}
    BY <1>1, <1>3, <2>1 DEF KeysOnce
  <2>3. Victims(k) = {v}
    BY <1>5, <2>2 DEF Victims
  <2>4. \A x \in ToSet(lru) \ {v} : content[x] # k
    BY <1>3, <2>2
  <2> QED
    BY <1>4, <2>2, <2>3, <2>4
<1>6. CASE Entries(k) = {} /\ Len(lru) = dedup_cache_size
  <2>1. lru # <<>>
    BY <1>6
  <2>2. Victims(k) = {Last(lru)} /\ Last(lru) \in ToSet(lru)
    BY <1>2, <1>6, <2>1, FrontSet DEF Victims, LruPeek
  <2>3. \A x \in ToSet(lru) : content[x] # k
    BY <1>3, <1>6
  <2> QED
    BY <1>4, <1>6, <2>1, <2>2, <2>3
<1>7. CASE Entries(k) = {} /\ Len(lru) # dedup_cache_size
  <2>1. Victims(k) = {} /\ Kept(k) = lru
    BY <1>7 DEF Victims, Kept
  <2>2. ToSet(lru) # KeyBuffers
    BY <1>2, <1>7, DistinctLength DEF dedup_cache_size
  <2>3. cache_pool # {}
    BY <1>1, <2>2 DEF KeysOnce
  <2>4. \A x \in ToSet(lru) : content[x] # k
    BY <1>3, <1>7
  <2> QED
    BY <1>2, <2>1, <2>3, <2>4
<1> QED
  BY <1>5, <1>6, <1>7

\* A message that is returned has the newest entry, and the one whose entry was
\* evicted for it has seen as many others as the cache has room for.
LEMMA ReturnStep ==
  ASSUME EchoInv, NEW k \in EchoKeys, dedup_cache_size > 0, Echo(k)
  PROVE  EchoInv'
<1>1. EchoTypeOK /\ KeysOnce /\ EntriesDated /\ Forgotten
  BY DEF EchoInv
<1>2. /\ \A x \in Entries(k) : stamp[x] > DedupTimeout
      /\ idle' = [idle EXCEPT ![k] = 0] /\ seen' = seen \cup {k} /\ Note(k, TRUE)
  BY DEF Echo
<1>3. PICK key \in cache_pool \cup Victims(k) :
        /\ cache_pool' = (cache_pool \cup Victims(k)) \ {key}
        /\ content' = [content EXCEPT ![key] = k]
        /\ stamp' = [stamp EXCEPT ![key] = 0]
        /\ lru' = LruPut(Kept(k), key)
  BY DEF Echo
<1> DEFINE V == Victims(k)
           q == Kept(k)
<1>4. /\ q \in Seq(KeyBuffers) /\ IsInjective(q)
      /\ V \subseteq ToSet(lru) /\ ToSet(q) = ToSet(lru) \ V
      /\ \A x \in ToSet(q) : content[x] # k
      /\ \A a, b : Before(q, a, b) => Before(lru, a, b)
      /\ \A v \in V : content[v] # k =>
           /\ lru # <<>> /\ v = Last(lru) /\ Len(lru) = dedup_cache_size
           /\ \A x \in ToSet(lru) : content[x] # k
  BY <1>2, RoomForEntry
<1>5. lru' = <<key>> \o q
  BY <1>3 DEF LruPut
<1> HIDE DEF V, q
<1>6. /\ cache_pool \cap ToSet(lru) = {} /\ cache_pool \cup ToSet(lru) = KeyBuffers
      /\ cache_pool' = (cache_pool \cup V) \ {key} /\ key \in cache_pool \cup V
  BY <1>1, <1>3 DEF KeysOnce, V
<1>7. key \in KeyBuffers /\ key \notin ToSet(q)
  BY <1>4, <1>6
<1>8. lru' \in Seq(KeyBuffers) /\ IsInjective(lru') /\ ToSet(lru') = ToSet(q) \cup {key}
  BY <1>4, <1>5, <1>7, PrependSet
<1>9. /\ since' \in [EchoKeys -> SUBSET EchoKeys]
      /\ \A c \in EchoKeys : c # k => since'[c] = since[c] \cup {k}
      /\ last' \in [out : BOOLEAN, idle : Nat, since : SUBSET EchoKeys, seen : BOOLEAN]
      /\ last'.out = TRUE /\ last'.idle = idle[k] /\ last'.since = since[k] /\ (last'.seen <=> k \in seen)
      /\ \A c \in EchoKeys : c # k /\ Cardinality(since[c]) >= dedup_cache_size
           => Cardinality(since'[c]) >= dedup_cache_size
  BY <1>1, <1>2, NotedSince
<1>10. /\ content' \in [KeyBuffers -> EchoKeys \cup {NoKey}] /\ content'[key] = k
      /\ stamp' \in [KeyBuffers -> Nat] /\ stamp'[key] = 0
      /\ \A x \in ToSet(q) : content'[x] = content[x] /\ stamp'[x] = stamp[x]
  <2>1. ToSet(q) \subseteq KeyBuffers
    BY <1>4, <1>6
  <2> QED
    BY <1>1, <1>3, <1>7, <2>1 DEF EchoTypeOK
<1>11. EchoTypeOK'
  <2>1. idle' \in [EchoKeys -> Nat] /\ seen' \in SUBSET EchoKeys
    BY <1>1, <1>2 DEF EchoTypeOK
  <2>2. cache_pool' \in SUBSET KeyBuffers
    BY <1>4, <1>6
  <2> QED
    BY <1>8, <1>9, <1>10, <2>1, <2>2 DEF EchoTypeOK
<1>12. KeysOnce'
  <2>1. cache_pool' \cap ToSet(lru') = {} /\ cache_pool' \cup ToSet(lru') = KeyBuffers
    BY <1>4, <1>6, <1>8
  <2>2. \A x, y \in ToSet(q) : content[x] = content[y] => x = y
    BY <1>1, <1>4 DEF KeysOnce
  <2>3. \A x, y \in ToSet(lru') : content'[x] = content'[y] => x = y
    BY <1>4, <1>8, <1>10, <2>2
  <2> QED
    BY <1>8, <2>1, <2>3 DEF KeysOnce
<1>13. EntriesDated'
  <2>1. ASSUME NEW x \in ToSet(lru') PROVE content'[x] \in seen' /\ stamp'[x] = idle'[content'[x]]
    <3>1. CASE x = key
      BY <1>1, <1>2, <1>10, <3>1 DEF EchoTypeOK
    <3>2. CASE x \in ToSet(q)
      <4>1. content[x] \in seen /\ stamp[x] = idle[content[x]] /\ content[x] # k
        BY <1>1, <1>4, <3>2 DEF EntriesDated
      <4>2. idle'[content[x]] = idle[content[x]]
        BY <1>1, <1>2, <4>1 DEF EchoTypeOK
      <4> QED
        BY <1>2, <1>10, <3>2, <4>1, <4>2
    <3> QED
      BY <1>8, <3>1, <3>2
  <2> QED
    BY <2>1 DEF EntriesDated
<1>14. ASSUME NEW a \in ToSet(lru'), NEW b \in ToSet(lru'), Before(lru', a, b)
       PROVE  content'[a] \in since'[content'[b]]
  <2>1. (a = key /\ b \in ToSet(q)) \/ Before(q, a, b)
    BY <1>4, <1>5, <1>7, <1>14, BeforePrepend
  <2>2. b \in ToSet(q)
    BY <2>1, BeforeMembers
  <2>3. content'[b] = content[b] /\ content[b] # k /\ content[b] \in EchoKeys /\ b \in ToSet(lru)
    BY <1>1, <1>4, <1>10, <2>2 DEF EntriesDated, EchoTypeOK
  <2>4. since'[content[b]] = since[content[b]] \cup {k}
    BY <1>9, <2>3
  <2>5. CASE a = key
    BY <1>10, <2>3, <2>4, <2>5
  <2>6. CASE Before(q, a, b)
    <3>1. Before(lru, a, b) /\ a \in ToSet(q)
      BY <1>4, <2>6, BeforeMembers
    <3>2. content[a] \in since[content[b]]
      BY <1>1, <1>4, <2>3, <3>1 DEF Forgotten
    <3> QED
      BY <1>10, <2>3, <2>4, <3>1, <3>2
  <2> QED
    BY <2>1, <2>5, <2>6
<1>15. ASSUME NEW v \in V, content[v] # k
       PROVE  Cardinality(since'[content[v]]) >= dedup_cache_size
  <2>1. /\ lru # <<>> /\ v = Last(lru) /\ Len(lru) = dedup_cache_size /\ v \in ToSet(lru)
        /\ \A x \in ToSet(lru) : content[x] # k
    BY <1>4, <1>15
  <2>2. content[v] \in EchoKeys
    BY <1>1, <2>1 DEF EntriesDated, EchoTypeOK
  <2>3. since'[content[v]] = since[content[v]] \cup {k} /\ since'[content[v]] \in SUBSET EchoKeys
    BY <1>9, <1>15, <2>2
  <2>4. lru \in Seq(KeyBuffers) /\ IsInjective(lru)
    BY <1>1 DEF EchoTypeOK, KeysOnce
  <2>5. \A x \in ToSet(lru) \ {v} : content[x] \in since'[content[v]]
    <3>1. \A x \in ToSet(lru) \ {v} : Before(lru, x, v)
      BY <2>1, <2>4, BeforeLast
    <3> QED
      BY <1>1, <2>1, <2>3, <3>1 DEF Forgotten
  <2> DEFINE f == [x \in ToSet(lru) |-> content[x]]
  <2>6. DOMAIN f = ToSet(lru) /\ IsInjective(f) /\ k \notin {f[x] : x \in ToSet(lru)}
    BY <1>1, <2>1 DEF KeysOnce, IsInjective
  <2>7. \A x \in ToSet(lru) \ {v} : f[x] \in since'[content[v]]
    BY <2>5
  <2>8. IsFiniteSet(since'[content[v]]) /\ k \in since'[content[v]]
    BY <2>3, EchoKeysAssumption, FS_Subset
  <2> HIDE DEF f
  <2>9. Cardinality(since'[content[v]]) >= Len(lru)
    BY <2>1, <2>4, <2>6, <2>7, <2>8, ReplacedByOthers
  <2> QED
    BY <2>1, <2>9
<1>16. ASSUME NEW c \in seen'
       PROVE  c \in {content'[y] : y \in ToSet(lru')} \/ Cardinality(since'[c]) >= dedup_cache_size
  <2>1. CASE c = k
    BY <1>8, <1>10, <2>1
  <2>2. CASE c # k
    <3>1. c \in seen /\ c \in EchoKeys
      BY <1>1, <1>2, <2>2 DEF EchoTypeOK
    <3>2. CASE Cardinality(since[c]) >= dedup_cache_size
      BY <1>9, <2>2, <3>1, <3>2
    <3>3. ASSUME NEW y \in ToSet(lru), c = content[y]
          PROVE  c \in {content'[z] : z \in ToSet(lru')} \/ Cardinality(since'[c]) >= dedup_cache_size
      <4>1. CASE y \in V
        BY <1>15, <2>2, <3>3, <4>1
      <4>2. CASE y \in ToSet(q)
        BY <1>8, <1>10, <3>3, <4>2
      <4> QED
        BY <1>4, <4>1, <4>2
    <3> QED
      BY <1>1, <3>1, <3>2, <3>3 DEF Forgotten
  <2> QED
    BY <2>1, <2>2
<1>17. Forgotten'
  BY <1>14, <1>16 DEF Forgotten, dedup_cache_size
<1>18. k \in seen => idle[k] > DedupTimeout \/ Cardinality(since[k]) >= dedup_cache_size
  <2>1. ASSUME NEW x \in ToSet(lru), content[x] = k PROVE idle[k] > DedupTimeout
    BY <1>1, <1>2, <2>1 DEF Entries, LruKeys, EntriesDated
  <2> QED
    BY <1>1, <2>1 DEF Forgotten
<1>19. EchoedOncePerTimeout'
  BY <1>9, <1>18 DEF EchoedOncePerTimeout, dedup_cache_size
<1> QED
  BY <1>11, <1>12, <1>13, <1>17, <1>19 DEF EchoInv

\* Entries and messages age together.
LEMMA EchoTickStep ==
  ASSUME EchoInv, EchoTick
  PROVE  EchoInv'
<1>1. EchoTypeOK /\ KeysOnce /\ EntriesDated /\ Forgotten /\ EchoedOncePerTimeout
  BY DEF EchoInv
<1> DEFINE older(n) == IF n <= DedupTimeout THEN n + 1 ELSE n
<1>2. /\ stamp' = [x \in KeyBuffers |-> IF x \in ToSet(lru) THEN older(stamp[x]) ELSE stamp[x]]
      /\ idle' = [k \in EchoKeys |-> IF k \in seen THEN older(idle[k]) ELSE idle[k]]
      /\ UNCHANGED <<cache_pool, content, lru, seen, since, last>>
  BY DEF EchoTick, LruKeys
<1>3. \A n \in Nat : older(n) \in Nat
  OBVIOUS
<1> HIDE DEF older
<1>4. stamp' \in [KeyBuffers -> Nat] /\ idle' \in [EchoKeys -> Nat]
  BY <1>1, <1>2, <1>3 DEF EchoTypeOK
<1>5. EchoTypeOK'
  BY <1>1, <1>2, <1>4 DEF EchoTypeOK
<1>6. \A x \in ToSet(lru) : x \in KeyBuffers /\ content[x] \in EchoKeys
  BY <1>1 DEF KeysOnce, EntriesDated, EchoTypeOK
<1>7. EntriesDated'
  BY <1>1, <1>2, <1>6 DEF EntriesDated
<1>8. KeysOnce' /\ Forgotten' /\ EchoedOncePerTimeout'
  BY <1>1, <1>2 DEF KeysOnce, Forgotten, EchoedOncePerTimeout, dedup_cache_size
<1> QED
  BY <1>5, <1>7, <1>8 DEF EchoInv

\* Every step of the listener and of the clock keeps the invariant.
LEMMA EchoNextInv == EchoInv /\ [EchoNext]_echoVars => EchoInv'
<1> SUFFICES ASSUME EchoInv, [EchoNext]_echoVars PROVE EchoInv'
  OBVIOUS
<1>1. CASE UNCHANGED echoVars
  BY <1>1 DEF echoVars, EchoInv, EchoTypeOK, KeysOnce, EntriesDated, Forgotten,
     EchoedOncePerTimeout, dedup_cache_size
<1> QED
  BY <1>1, DuplicateStep, ReturnStep, EchoTickStep DEF EchoNext, HandleRead, EchoOther

\* The invariant of the echo listener.
THEOREM EchoInvariant == EchoSpec => []EchoInv
  BY EchoInitInv, EchoNextInv, PTL DEF EchoSpec

\* Cache and pool of the echo listener fit together, for every cache size: no
\* live key is overwritten, no buffer is lost, and the pool_new whose result is
\* not checked always finds a buffer.
THEOREM KeyBuffersAreConserved == EchoSpec => []KeyBufferInOnePlace
<1>1. EchoInv => KeyBufferInOnePlace
  <2> SUFFICES ASSUME EchoInv PROVE KeyBufferInOnePlace
    OBVIOUS
  <2>1. EchoTypeOK /\ KeysOnce
    BY DEF EchoInv
  <2>2. Len(lru) = Cardinality(LruKeys(lru))
    BY <2>1, DistinctLength DEF EchoTypeOK, KeysOnce, LruKeys
  <2>3. ASSUME NEW k \in EchoKeys, dedup_cache_size > 0,
               \A x \in Entries(k) : stamp[x] > DedupTimeout
        PROVE  cache_pool \cup Victims(k) # {}
    BY <2>3, RoomForEntry
  <2> QED
    BY <2>1, <2>2, <2>3 DEF KeyBufferInOnePlace, KeysOnce, LruKeys
<1> QED
  BY <1>1, EchoInvariant, PTL

\* The echo listener returns a message again only when dedup_timeout or
\* dedup_cache_size allow it, and drops it only within the timeout.
THEOREM EchoDeduplicates == EchoSpec => []EchoedOncePerTimeout
<1>1. EchoInv => EchoedOncePerTimeout
  BY DEF EchoInv
<1> QED
  BY <1>1, EchoInvariant, PTL


-----------------------------------------------------------------------------
(* The LRU map. *)

\* The key in every entry.
KeyOf == [e \in LruEntry |-> kv[e][1]]

\* What a list of used entries looks like through their keys.
LEMMA KeysOfEntries ==
  ASSUME LruMapInv
  PROVE  /\ IsMap(KeyOf, LruEntry, {KeyOf[e] : e \in LruEntry})
         /\ OneToOne(KeyOf, ToSet(queue))
         /\ \A e \in ToSet(queue) : e \in LruEntry /\ KeyOf[e] = kv[e][1]
         /\ [i \in DOMAIN queue |-> kv[queue[i]][1]] = Mapped(KeyOf, queue)
         /\ ToSet(Mapped(KeyOf, queue)) = DOMAIN table
<1>1. queue \in Seq(LruEntry) /\ ToSet(queue) \subseteq LruEntry
  BY DEF LruMapInv
<1>2. \A e \in LruEntry : KeyOf[e] = kv[e][1]
  BY DEF KeyOf
<1>3. IsMap(KeyOf, LruEntry, {KeyOf[e] : e \in LruEntry})
  <2>1. DOMAIN KeyOf = LruEntry /\ KeyOf = [e \in LruEntry |-> KeyOf[e]]
    BY DEF KeyOf
  <2> HIDE DEF KeyOf
  <2> QED
    BY <2>1 DEF IsMap
<1>4. OneToOne(KeyOf, ToSet(queue))
  BY <1>1, <1>2 DEF OneToOne, LruMapInv
<1>5. \A i \in DOMAIN queue : queue[i] \in LruEntry
  BY <1>1, LenProperties
<1>6. [i \in DOMAIN queue |-> kv[queue[i]][1]] = Mapped(KeyOf, queue)
  BY <1>2, <1>5 DEF Mapped
<1>7. ToSet(Mapped(KeyOf, queue)) = {KeyOf[e] : e \in ToSet(queue)}
  BY MappedSet
<1>8. {KeyOf[e] : e \in ToSet(queue)} = DOMAIN table
  <2>1. \A e \in ToSet(queue) : KeyOf[e] \in DOMAIN table
    BY <1>1, <1>2 DEF LruMapInv
  <2>2. \A k \in DOMAIN table : table[k] \in ToSet(queue) /\ KeyOf[table[k]] = k
    BY <1>1, <1>2 DEF LruMapInv
  <2> HIDE DEF KeyOf
  <2> QED
    BY <2>1, <2>2
<1> QED
  BY <1>1, <1>2, <1>3, <1>4, <1>6, <1>7, <1>8

\* As many keys as used entries, and a free entry when the map is not full.
LEMMA LruMapSize ==
  ASSUME LruMapInv
  PROVE  /\ lrumap_size = Len(queue) /\ Len(pool) + Len(queue) = LruMapCapacity
         /\ Len(pool) \in Nat /\ Len(queue) \in Nat
<1> DEFINE D == DOMAIN table
           Q == ToSet(queue)
           P == ToSet(pool)
           g == [e \in Q |-> kv[e][1]]
<1>1. /\ IsFiniteSet(Q) /\ Cardinality(Q) = Len(queue) /\ IsFiniteSet(P) /\ Cardinality(P) = Len(pool)
      /\ Len(pool) \in Nat /\ Len(queue) \in Nat
  BY DistinctLength, LenProperties DEF LruMapInv
<1>2. Q \cap P = {} /\ Q \cup P = LruEntry
  BY DEF LruMapInv
<1>3. IsFiniteSet(LruEntry) /\ Cardinality(LruEntry) = LruMapCapacity
  BY LruAssumption, FS_Interval DEF LruEntry
<1>4. g \in [Q -> D] /\ \A e \in Q : g[e] = kv[e][1]
  BY DEF LruMapInv
<1>5. IsFiniteSet(D) /\ Cardinality(D) = Cardinality(Q)
  <2>1. \A k \in D : table[k] \in Q /\ g[table[k]] = k
    BY <1>4 DEF LruMapInv
  <2>2. \A x, y \in Q : g[x] = g[y] => x = y
    BY <1>4 DEF LruMapInv
  <2> HIDE DEF g, D, Q
  <2>3. g \in Injection(Q, D)
    BY <1>4, <2>2 DEF Injection, IsInjective
  <2>4. g \in Surjection(Q, D)
    BY <1>4, <2>1 DEF Surjection
  <2>5. ExistsBijection(Q, D)
    BY <2>3, <2>4 DEF Bijection, ExistsBijection
  <2> QED
    BY <1>1, <2>5, FS_Bijection
<1> HIDE DEF g, D, Q, P
<1>6. Cardinality(Q \cup P) = Cardinality(Q) + Cardinality(P) - Cardinality(Q \cap P)
  BY <1>1, FS_Union
<1>7. Cardinality(Q \cap P) = 0
  BY <1>2, FS_EmptySet
<1>8. Len(pool) + Len(queue) = LruMapCapacity
  <2>1. Cardinality(Q \cup P) = LruMapCapacity
    BY <1>2, <1>3, Zenon
  <2> QED
    BY <1>1, <1>6, <1>7, <2>1, LruAssumption
<1>9. lrumap_size = Len(queue)
  BY <1>1, <1>5 DEF lrumap_size, D
<1> QED
  BY <1>1, <1>8, <1>9


\* Initially every entry is free.
LEMMA LruMapInitial == LruMapInit => LruMapInv
<1> SUFFICES ASSUME LruMapInit PROVE LruMapInv
  OBVIOUS
<1>1. \A i \in 1..LruMapCapacity : LruMapCapacity - i \in LruEntry
  BY LruAssumption DEF LruEntry
<1>2. pool \in Seq(LruEntry) /\ DOMAIN pool = 1..LruMapCapacity
      /\ \A i \in DOMAIN pool : pool[i] = LruMapCapacity - i
  BY <1>1, LruAssumption DEF LruMapInit
<1>3. IsInjective(pool)
  BY <1>2, LruAssumption DEF IsInjective
<1>4. ToSet(pool) = LruEntry
  <2>1. ASSUME NEW e \in LruEntry PROVE e \in ToSet(pool)
    <3>1. LruMapCapacity - e \in DOMAIN pool /\ pool[LruMapCapacity - e] = e
      BY <1>2, LruAssumption DEF LruEntry
    <3> QED
      BY <3>1 DEF ToSet
  <2> QED
    BY <1>1, <1>2, <2>1 DEF ToSet
<1>5. queue \in Seq(LruEntry) /\ IsInjective(queue) /\ ToSet(queue) = {}
  BY DEF LruMapInit, IsInjective, ToSet
<1>6. table \in [DOMAIN table -> LruEntry] /\ DOMAIN table = {}
  BY DEF LruMapInit
<1>7. kv \in [LruEntry -> (LruMapKeys \X LruMapValues) \cup {Unset}]
  BY DEF LruMapInit
<1> QED
  BY <1>2, <1>3, <1>4, <1>5, <1>6, <1>7 DEF LruMapInv

\* lrumap_get and lrumap_make_eldest only move the entry of the key.
LEMMA LruMapReordered ==
  ASSUME LruMapInv, queue' \in Seq(LruEntry), IsInjective(queue'),
         ToSet(queue') = ToSet(queue), UNCHANGED <<pool, kv, table>>
  PROVE  LruMapInv'
BY DEF LruMapInv

\* lrumap_get moves the entry to the front.
LEMMA LruMapGets ==
  ASSUME LruMapInv, NEW k, lrumap_get(k)
  PROVE  LruMapInv'
<1>1. PICK e \in LruEntry : e = table[k] /\ e \in ToSet(queue)
  BY DEF LruMapInv, lrumap_get
<1>2. queue \in Seq(LruEntry) /\ IsInjective(queue)
  BY DEF LruMapInv
<1>3. PICK r \in Seq(LruEntry) : r = RemoveFirst(queue, e) /\ IsInjective(r) /\ ToSet(r) = ToSet(queue) \ {e}
  BY <1>2, RemoveSet
<1>4. queue' = <<e>> \o r /\ UNCHANGED <<pool, kv, table>>
  BY <1>1, <1>3 DEF lrumap_get, unlink
<1>5. queue' \in Seq(LruEntry) /\ IsInjective(queue') /\ ToSet(queue') = ToSet(r) \cup {e}
  <2>1. e \notin ToSet(r)
    BY <1>3
  <2> QED
    BY <1>3, <1>4, <2>1, PrependSet
<1>6. ToSet(queue') = ToSet(queue)
  BY <1>1, <1>3, <1>5
<1> QED
  BY <1>4, <1>5, <1>6, LruMapReordered

\* lrumap_make_eldest moves the entry to the back.
LEMMA LruMapAges ==
  ASSUME LruMapInv, NEW k, lrumap_make_eldest(k)
  PROVE  LruMapInv'
<1>1. PICK e \in LruEntry : e = table[k] /\ e \in ToSet(queue)
  BY DEF LruMapInv, lrumap_make_eldest
<1>2. queue \in Seq(LruEntry) /\ IsInjective(queue)
  BY DEF LruMapInv
<1>3. PICK r \in Seq(LruEntry) : r = RemoveFirst(queue, e) /\ IsInjective(r) /\ ToSet(r) = ToSet(queue) \ {e}
  BY <1>2, RemoveSet
<1>4. queue' = Append(r, e) /\ UNCHANGED <<pool, kv, table>>
  BY <1>1, <1>3 DEF lrumap_make_eldest, unlink
<1>5. queue' \in Seq(LruEntry) /\ IsInjective(queue') /\ ToSet(queue') = ToSet(r) \cup {e}
  <2>1. e \notin ToSet(r)
    BY <1>3
  <2> QED
    BY <1>3, <1>4, <2>1, AppendSet
<1>6. ToSet(queue') = ToSet(queue)
  BY <1>1, <1>3, <1>5
<1> QED
  BY <1>4, <1>5, <1>6, LruMapReordered

\* lrumap_remove gives the entry of the key back to the pool.
LEMMA LruMapRemoves ==
  ASSUME LruMapInv, NEW k, lrumap_remove(k)
  PROVE  LruMapInv'
<1> DEFINE e == table[k]
<1>1. /\ queue \in Seq(LruEntry) /\ IsInjective(queue) /\ e \in ToSet(queue) /\ e \in LruEntry
      /\ pool \in Seq(LruEntry) /\ IsInjective(pool) /\ e \notin ToSet(pool)
      /\ k \in DOMAIN table /\ kv[e][1] = k
  BY DEF LruMapInv, lrumap_remove
<1>2. queue' \in Seq(LruEntry) /\ IsInjective(queue') /\ ToSet(queue') = ToSet(queue) \ {e}
  BY <1>1, RemoveSet DEF lrumap_remove, unlink
<1>3. pool' \in Seq(LruEntry) /\ IsInjective(pool') /\ ToSet(pool') = ToSet(pool) \cup {e}
  BY <1>1, PrependSet DEF lrumap_remove
<1>4. /\ DOMAIN table' = DOMAIN table \ {k} /\ \A x \in DOMAIN table \ {k} : table'[x] = table[x]
      /\ table' \in [DOMAIN table' -> LruEntry]
  BY DEF lrumap_remove, unbind, LruMapInv
<1>5. kv' = kv
  BY DEF lrumap_remove
<1>6. ToSet(pool') \cap ToSet(queue') = {} /\ ToSet(pool') \cup ToSet(queue') = LruEntry
  BY <1>1, <1>2, <1>3 DEF LruMapInv
<1>7. ASSUME NEW x \in DOMAIN table'
      PROVE  table'[x] \in ToSet(queue') /\ kv'[table'[x]][1] = x
  BY <1>1, <1>2, <1>4, <1>5 DEF LruMapInv
<1>8. ASSUME NEW d \in ToSet(queue')
      PROVE  kv'[d] # Unset /\ kv'[d][1] \in DOMAIN table' /\ table'[kv'[d][1]] = d
  BY <1>1, <1>2, <1>4, <1>5 DEF LruMapInv
<1>9. kv' \in [LruEntry -> (LruMapKeys \X LruMapValues) \cup {Unset}] /\ DOMAIN table' \subseteq LruMapKeys
  BY <1>4, <1>5 DEF LruMapInv
<1> QED
  BY <1>2, <1>3, <1>4, <1>6, <1>7, <1>8, <1>9 DEF LruMapInv

\* lrumap_put takes the entry from the back of the pool, which is not empty.
LEMMA LruMapPuts ==
  ASSUME LruMapInv, NEW k \in LruMapKeys, NEW v \in LruMapValues, lrumap_put(k, v)
  PROVE  /\ LruMapInv'
         /\ Last(pool) \in LruEntry /\ Last(pool) \notin ToSet(queue)
<1> DEFINE e == Last(pool)
<1>1. /\ queue \in Seq(LruEntry) /\ IsInjective(queue) /\ pool \in Seq(LruEntry) /\ IsInjective(pool)
      /\ k \notin DOMAIN table
  BY DEF LruMapInv, lrumap_put
<1>2. pool # <<>>
  <2>1. Len(pool) # 0
    BY LruMapSize, LruAssumption DEF lrumap_put
  <2> QED
    BY <2>1
<1>3. /\ e \in ToSet(pool) /\ Front(pool) \in Seq(LruEntry) /\ IsInjective(Front(pool))
      /\ ToSet(pool) = ToSet(Front(pool)) \cup {e} /\ e \notin ToSet(Front(pool))
  BY <1>1, <1>2, FrontSet
<1>4. e \in LruEntry /\ e \notin ToSet(queue)
  BY <1>3 DEF LruMapInv
<1>5. /\ pool' = Front(pool) /\ kv' = [kv EXCEPT ![e] = <<k, v>>]
      /\ table' = bind(k, e) /\ queue' = <<e>> \o queue
  BY DEF lrumap_put
<1> HIDE DEF e
<1>6. queue' \in Seq(LruEntry) /\ IsInjective(queue') /\ ToSet(queue') = ToSet(queue) \cup {e}
  BY <1>1, <1>4, <1>5, PrependSet
<1>7. pool' \in Seq(LruEntry) /\ IsInjective(pool') /\ ToSet(pool') = ToSet(pool) \ {e}
  BY <1>3, <1>5
<1>8. /\ DOMAIN table' = DOMAIN table \cup {k} /\ table'[k] = e
      /\ \A x \in DOMAIN table : table'[x] = table[x]
      /\ table' \in [DOMAIN table' -> LruEntry]
  BY <1>1, <1>4, <1>5 DEF bind, LruMapInv
<1>9. /\ kv' \in [LruEntry -> (LruMapKeys \X LruMapValues) \cup {Unset}]
      /\ kv'[e] = <<k, v>> /\ \A d \in LruEntry \ {e} : kv'[d] = kv[d]
  BY <1>4, <1>5 DEF LruMapInv
<1>10. ToSet(pool') \cap ToSet(queue') = {} /\ ToSet(pool') \cup ToSet(queue') = LruEntry
  BY <1>3, <1>6, <1>7 DEF LruMapInv
<1>11. ASSUME NEW x \in DOMAIN table'
       PROVE  table'[x] \in ToSet(queue') /\ kv'[table'[x]][1] = x
  <2>1. CASE x = k
    BY <1>6, <1>8, <1>9, <2>1
  <2>2. CASE x # k
    <3>1. table'[x] = table[x] /\ table[x] \in ToSet(queue) /\ table[x] \in LruEntry /\ kv[table[x]][1] = x
      BY <1>8, <2>2 DEF LruMapInv
    <3> QED
      BY <1>4, <1>6, <1>9, <3>1
  <2> QED
    BY <2>1, <2>2
<1>12. ASSUME NEW d \in ToSet(queue')
       PROVE  kv'[d] # Unset /\ kv'[d][1] \in DOMAIN table' /\ table'[kv'[d][1]] = d
  <2>1. CASE d = e
    BY <1>8, <1>9, <2>1 DEF Unset
  <2>2. CASE d # e
    <3>1. d \in ToSet(queue) /\ d \in LruEntry
      BY <1>6, <2>2 DEF LruMapInv
    <3>2. kv'[d] = kv[d] /\ kv[d] # Unset /\ kv[d][1] \in DOMAIN table /\ table[kv[d][1]] = d
      BY <1>9, <2>2, <3>1 DEF LruMapInv
    <3> QED
      BY <1>8, <3>2
  <2> QED
    BY <2>1, <2>2
<1>13. DOMAIN table' \subseteq LruMapKeys
  BY <1>8 DEF LruMapInv
<1>14. LruMapInv'
  BY <1>6, <1>7, <1>8, <1>9, <1>10, <1>11, <1>12, <1>13 DEF LruMapInv
<1> QED
  BY <1>4, <1>14 DEF e

\* The lists and the table of lrumap.c stay consistent in every history.
THEOREM LruMapInvariant == LruMapSpec => []LruMapInv
<1>1. LruMapInv /\ [LruMapNext]_lruMapVars => LruMapInv'
  <2> SUFFICES ASSUME LruMapInv, [LruMapNext]_lruMapVars PROVE LruMapInv'
    OBVIOUS
  <2>1. CASE UNCHANGED lruMapVars
    BY <2>1 DEF lruMapVars, LruMapInv
  <2>2. ASSUME NEW k \in LruMapKeys, NEW v \in LruMapValues, lrumap_put(k, v) PROVE LruMapInv'
    BY <2>2, LruMapPuts
  <2>3. ASSUME NEW k \in LruMapKeys, lrumap_get(k) PROVE LruMapInv'
    BY <2>3, LruMapGets
  <2>4. ASSUME NEW k \in LruMapKeys, lrumap_remove(k) PROVE LruMapInv'
    BY <2>4, LruMapRemoves
  <2>5. ASSUME NEW k \in LruMapKeys, lrumap_make_eldest(k) PROVE LruMapInv'
    BY <2>5, LruMapAges
  <2> QED
    BY <2>1, <2>2, <2>3, <2>4, <2>5 DEF LruMapNext
<1> QED
  BY <1>1, LruMapInitial, PTL DEF LruMapSpec

\* Every entry of an lrumap is free or used, once, and the hash table leads
\* from each key to the used entry that holds it, for every capacity.
THEOREM LruEntriesArePartitioned == LruMapSpec => []EntriesPartitioned
<1>1. LruMapInv => EntriesPartitioned
  <2> SUFFICES ASSUME LruMapInv PROVE EntriesPartitioned
    OBVIOUS
  <2>1. Len(pool) + Len(queue) = LruMapCapacity
    BY LruMapSize
  <2>2. {table[k] : k \in DOMAIN table} = ToSet(queue)
    BY DEF LruMapInv
  <2> QED
    BY <2>1, <2>2 DEF LruMapInv, EntriesPartitioned
<1> QED
  BY <1>1, LruMapInvariant, PTL


\* The operators of module Lru, as the abstract map uses them, are those of the
\* sequence library.
LEMMA LruOperators ==
  ASSUME NEW q, NEW k
  PROVE  /\ LruOrder!LruKeys(q) = ToSet(q)
         /\ LruOrder!LruRemove(q, k) = RemoveFirst(q, k)
         /\ LruOrder!LruPut(q, k) = <<k>> \o q
         /\ LruOrder!LruGet(q, k) = <<k>> \o RemoveFirst(q, k)
<1>1. LruOrder!LruRemove(q, k) = RemoveFirst(q, k)
  BY DEF LruOrder!LruRemove, LruOrder!RemoveFirst, LruOrder!RemoveAt, LruOrder!SelectInSeq,
         LruOrder!Min, RemoveFirst, RemoveAt, SelectInSeq, Min
<1>2. LruOrder!LruKeys(q) = ToSet(q)
  BY DEF LruOrder!LruKeys, LruOrder!ToSet, ToSet
<1> QED
  BY <1>1, <1>2 DEF LruOrder!LruPut, LruOrder!LruGet

\* A list of entries seen through their keys.
LEMMA KeyedList ==
  ASSUME NEW S, NEW q \in Seq(S), NEW f, NEW g, \A e \in S : f[e] = g[e][1]
  PROVE  [i \in DOMAIN q |-> g[q[i]][1]] = Mapped(f, q)
<1>1. \A i \in DOMAIN q : q[i] \in S
  BY LenProperties
<1> QED
  BY <1>1 DEF Mapped

\* A step that moves the entry of k in the queue, seen through the keys.
LEMMA LruReorderingRefines ==
  ASSUME LruMapInv, NEW k \in DOMAIN table
  PROVE  LET m == [i \in DOMAIN queue |-> kv[queue[i]][1]]
             a == <<table[k]>> \o RemoveFirst(queue, table[k])
             b == Append(RemoveFirst(queue, table[k]), table[k])
             c == RemoveFirst(queue, table[k])
         IN  /\ ToSet(m) = DOMAIN table /\ k \in ToSet(m)
             /\ [i \in DOMAIN a |-> kv[a[i]][1]] = <<k>> \o RemoveFirst(m, k)
             /\ [i \in DOMAIN b |-> kv[b[i]][1]] = Append(RemoveFirst(m, k), k)
             /\ [i \in DOMAIN c |-> kv[c[i]][1]] = RemoveFirst(m, k)
<1>1. PICK e \in LruEntry : e = table[k] /\ e \in ToSet(queue) /\ kv[e][1] = k
  BY DEF LruMapInv
<1>2. queue \in Seq(LruEntry) /\ IsInjective(queue)
  BY DEF LruMapInv
<1>3. PICK f : f = KeyOf
  OBVIOUS
<1>4. PICK V : V = {KeyOf[x] : x \in LruEntry}
  OBVIOUS
<1>5. /\ IsMap(f, LruEntry, V) /\ OneToOne(f, ToSet(queue))
      /\ [i \in DOMAIN queue |-> kv[queue[i]][1]] = Mapped(f, queue)
      /\ ToSet(Mapped(f, queue)) = DOMAIN table
  BY <1>3, <1>4, KeysOfEntries
<1>6. (\A x \in LruEntry : f[x] = kv[x][1]) /\ f[e] = k
  BY <1>1, <1>3 DEF KeyOf
<1>7. PICK r \in Seq(LruEntry) : r = RemoveFirst(queue, e)
  BY <1>2, RemoveSet
<1>8. Mapped(f, r) = RemoveFirst(Mapped(f, queue), k)
  BY <1>1, <1>2, <1>5, <1>6, <1>7, MappedRemove
<1>9. /\ Mapped(f, <<e>> \o r) = <<k>> \o Mapped(f, r) /\ <<e>> \o r \in Seq(LruEntry)
      /\ Mapped(f, Append(r, e)) = Append(Mapped(f, r), k) /\ Append(r, e) \in Seq(LruEntry)
  <2>1. <<e>> \o r \in Seq(LruEntry)
    BY PrependSet
  <2>2. Append(r, e) \in Seq(LruEntry)
    BY AppendSet
  <2>3. Mapped(f, <<e>> \o r) = <<f[e]>> \o Mapped(f, r)
    <3>1. Mapped(f, Cons(e, r)) = Cons(f[e], Mapped(f, r))
      BY <1>5, MappedPrepend
    <3> QED
      BY <3>1, Zenon DEF Cons
  <2>4. Mapped(f, Append(r, e)) = Append(Mapped(f, r), f[e])
    BY <1>5, MappedAppend
  <2> QED
    BY <1>6, <2>1, <2>2, <2>3, <2>4, Zenon
<1>10. ASSUME NEW q \in Seq(LruEntry) PROVE [i \in DOMAIN q |-> kv[q[i]][1]] = Mapped(f, q)
  BY <1>6, KeyedList
<1> DEFINE a == <<e>> \o r
           b == Append(r, e)
<1>11. [i \in DOMAIN a |-> kv[a[i]][1]] = <<k>> \o RemoveFirst(Mapped(f, queue), k)
  <2>1. a \in Seq(LruEntry) /\ Mapped(f, a) = <<k>> \o RemoveFirst(Mapped(f, queue), k)
    BY <1>8, <1>9
  <2> HIDE DEF a
  <2> QED
    BY <1>10, <2>1
<1>12. [i \in DOMAIN b |-> kv[b[i]][1]] = Append(RemoveFirst(Mapped(f, queue), k), k)
  <2>1. b \in Seq(LruEntry) /\ Mapped(f, b) = Append(RemoveFirst(Mapped(f, queue), k), k)
    BY <1>8, <1>9
  <2> HIDE DEF b
  <2> QED
    BY <1>10, <2>1
<1>13. [i \in DOMAIN r |-> kv[r[i]][1]] = RemoveFirst(Mapped(f, queue), k)
  BY <1>8, <1>10
<1> QED
  BY <1>1, <1>5, <1>7, <1>11, <1>12, <1>13, Zenon

\* lrumap_get.
LEMMA LruGetRefines ==
  ASSUME LruMapInv, NEW k, lrumap_get(k)
  PROVE  LruOrder!Get
<1>1. k \in DOMAIN table /\ kv' = kv /\ table' = table
      /\ queue' = <<table[k]>> \o RemoveFirst(queue, table[k])
  BY DEF lrumap_get, unlink
<1> DEFINE m == [i \in DOMAIN queue |-> kv[queue[i]][1]]
<1>2. k \in ToSet(m) /\ [i \in DOMAIN queue' |-> kv'[queue'[i]][1]] = <<k>> \o RemoveFirst(m, k)
  BY <1>1, LruReorderingRefines, Zenon
<1>3. k \in LruOrder!LruKeys(m) /\ [i \in DOMAIN queue' |-> kv'[queue'[i]][1]] = LruOrder!LruGet(m, k)
  BY <1>2, LruOperators, Zenon
<1>4. [x \in DOMAIN table' |-> kv'[table'[x]][2]] = [x \in DOMAIN table |-> kv[table[x]][2]]
  BY <1>1
<1> QED
  BY <1>3, <1>4, Zenon DEF LruOrder!Get

\* lrumap_make_eldest.
LEMMA LruMakeEldestRefines ==
  ASSUME LruMapInv, NEW k, lrumap_make_eldest(k)
  PROVE  LruOrder!MakeEldest
<1>1. k \in DOMAIN table /\ kv' = kv /\ table' = table
      /\ queue' = Append(RemoveFirst(queue, table[k]), table[k])
  BY DEF lrumap_make_eldest, unlink
<1> DEFINE m == [i \in DOMAIN queue |-> kv[queue[i]][1]]
<1>2. k \in ToSet(m) /\ [i \in DOMAIN queue' |-> kv'[queue'[i]][1]] = Append(RemoveFirst(m, k), k)
  BY <1>1, LruReorderingRefines, Zenon
<1>3. /\ k \in LruOrder!LruKeys(m)
      /\ [i \in DOMAIN queue' |-> kv'[queue'[i]][1]] = Append(LruOrder!LruRemove(m, k), k)
  BY <1>2, LruOperators, Zenon
<1>4. [x \in DOMAIN table' |-> kv'[table'[x]][2]] = [x \in DOMAIN table |-> kv[table[x]][2]]
  BY <1>1
<1> QED
  BY <1>3, <1>4, Zenon DEF LruOrder!MakeEldest

\* lrumap_remove.
LEMMA LruRemoveRefines ==
  ASSUME LruMapInv, NEW k, lrumap_remove(k)
  PROVE  LruOrder!Delete
<1>1. k \in DOMAIN table /\ kv' = kv /\ table' = [x \in DOMAIN table \ {k} |-> table[x]]
      /\ queue' = RemoveFirst(queue, table[k])
  BY DEF lrumap_remove, unlink, unbind
<1> DEFINE m == [i \in DOMAIN queue |-> kv[queue[i]][1]]
           w == [x \in DOMAIN table |-> kv[table[x]][2]]
<1>2. /\ k \in ToSet(m) /\ [i \in DOMAIN queue' |-> kv'[queue'[i]][1]] = RemoveFirst(m, k)
      /\ ToSet(m) = DOMAIN table
  BY <1>1, LruReorderingRefines, Zenon
<1>3. /\ k \in LruOrder!LruKeys(m)
      /\ [i \in DOMAIN queue' |-> kv'[queue'[i]][1]] = LruOrder!LruRemove(m, k)
      /\ LruOrder!LruKeys(m) = DOMAIN table
  BY <1>2, LruOperators, Zenon
<1>4. [x \in DOMAIN table' |-> kv'[table'[x]][2]] = [x \in DOMAIN table \ {k} |-> w[x]]
  BY <1>1
<1>5. [x \in DOMAIN table' |-> kv'[table'[x]][2]] = [x \in LruOrder!LruKeys(m) \ {k} |-> w[x]]
  BY <1>3, <1>4, Zenon
<1> QED
  BY <1>3, <1>5, Zenon DEF LruOrder!Delete


\* lrumap_put: the other entries keep their keys and values.
LEMMA LruPutRefines ==
  ASSUME LruMapInv, NEW k \in LruMapKeys, NEW v \in LruMapValues, lrumap_put(k, v)
  PROVE  LruOrder!Put
<1> DEFINE m == [i \in DOMAIN queue |-> kv[queue[i]][1]]
           w == [x \in DOMAIN table |-> kv[table[x]][2]]
<1>1. PICK e \in LruEntry : e = Last(pool) /\ e \notin ToSet(queue)
  BY LruMapPuts
<1>2. /\ kv' = [kv EXCEPT ![e] = <<k, v>>] /\ table' = bind(k, e) /\ queue' = <<e>> \o queue
      /\ k \notin DOMAIN table /\ lrumap_size # LruMapCapacity
  BY <1>1 DEF lrumap_put
<1>3. queue \in Seq(LruEntry) /\ kv' \in [LruEntry -> (LruMapKeys \X LruMapValues) \cup {Unset}]
  BY LruMapPuts DEF LruMapInv
<1>4. kv'[e] = <<k, v>> /\ \A d \in LruEntry \ {e} : kv'[d] = kv[d]
  BY <1>2 DEF LruMapInv
<1>5. PICK f : f = [x \in LruEntry |-> kv'[x][1]]
  OBVIOUS
<1>6. PICK V : V = {f[x] : x \in LruEntry}
  OBVIOUS
<1>7. IsMap(f, LruEntry, V) /\ (\A x \in LruEntry : f[x] = kv'[x][1]) /\ f[e] = k
  BY <1>4, <1>5, <1>6 DEF IsMap
<1>8. m = Mapped(f, queue)
  <2>1. \A i \in DOMAIN queue : queue[i] \in ToSet(queue) /\ queue[i] \in LruEntry
    BY <1>3, LenProperties DEF ToSet
  <2>2. \A i \in DOMAIN queue : f[queue[i]] = kv[queue[i]][1]
    BY <1>1, <1>4, <1>7, <2>1
  <2> QED
    BY <2>2 DEF Mapped
<1>9. [i \in DOMAIN queue' |-> kv'[queue'[i]][1]] = <<k>> \o m
  <2>1. queue' \in Seq(LruEntry)
    BY <1>2, <1>3, PrependSet
  <2>2. [i \in DOMAIN queue' |-> kv'[queue'[i]][1]] = Mapped(f, queue')
    BY <1>7, <2>1, KeyedList
  <2>3. Mapped(f, <<e>> \o queue) = <<f[e]>> \o Mapped(f, queue)
    <3>1. Mapped(f, Cons(e, queue)) = Cons(f[e], Mapped(f, queue))
      BY <1>3, <1>7, MappedPrepend
    <3> QED
      BY <3>1, Zenon DEF Cons
  <2> QED
    BY <1>2, <1>7, <1>8, <2>2, <2>3, Zenon
<1>10. ToSet(m) = DOMAIN table
  BY KeysOfEntries, Zenon
<1>11. Len(m) < LruMapCapacity
  <2>1. Len(m) = Len(queue)
    BY <1>3, <1>7, <1>8, MappedElements
  <2> HIDE DEF m
  <2> QED
    BY <1>2, <2>1, LruMapSize, LruAssumption
<1>12. [x \in DOMAIN table' |-> kv'[table'[x]][2]]
         = [x \in DOMAIN table \cup {k} |-> IF x = k THEN v ELSE w[x]]
  <2>1. DOMAIN table' = DOMAIN table \cup {k} /\ table'[k] = e
        /\ \A x \in DOMAIN table : table'[x] = table[x]
    BY <1>2 DEF bind
  <2>2. \A x \in DOMAIN table : table[x] \in LruEntry /\ table[x] # e /\ kv'[table[x]] = kv[table[x]]
    BY <1>1, <1>4 DEF LruMapInv
  <2>3. kv'[table'[k]][2] = v
    BY <1>4, <2>1
  <2>4. \A x \in DOMAIN table : kv'[table'[x]][2] = w[x]
    BY <2>1, <2>2
  <2>5. \A x \in DOMAIN table' : kv'[table'[x]][2] = IF x = k THEN v ELSE w[x]
    BY <2>1, <2>3, <2>4
  <2> HIDE DEF w
  <2> QED
    BY <2>1, <2>5
<1>13. LruOrder!LruKeys(m) = DOMAIN table /\ LruOrder!LruPut(m, k) = <<k>> \o m
  BY <1>10, LruOperators, Zenon
<1>14. k \in LruMapKeys \ LruOrder!LruKeys(m)
  BY <1>2, <1>13, Zenon
<1>15. [i \in DOMAIN queue' |-> kv'[queue'[i]][1]] = LruOrder!LruPut(m, k)
  BY <1>9, <1>13, Zenon
<1>16. [x \in DOMAIN table' |-> kv'[table'[x]][2]]
         = [x \in LruOrder!LruKeys(m) \cup {k} |-> IF x = k THEN v ELSE w[x]]
  BY <1>12, <1>13, Zenon
<1> QED
  BY <1>11, <1>14, <1>15, <1>16, Zenon DEF LruOrder!Put

\* lrumap.c implements the order of last use that the caches of the decoder and
\* of the echo listener are modelled with, for every capacity: the entries, the
\* two lists and the hash table behave as one sequence of keys.
THEOREM LruMapIsAnLruOrder == LruMapSpec => ImplementsLru
<1>1. LruMapInit => LruOrder!Init
  BY DEF LruMapInit, LruOrder!Init
<1>2. LruMapInv /\ [LruMapNext]_lruMapVars
        => [LruOrder!Put \/ LruOrder!Get \/ LruOrder!Delete \/ LruOrder!MakeEldest]_(LruOrder!lvars)
  <2> SUFFICES ASSUME LruMapInv, [LruMapNext]_lruMapVars
               PROVE  \/ LruOrder!Put \/ LruOrder!Get \/ LruOrder!Delete \/ LruOrder!MakeEldest
                      \/ UNCHANGED LruOrder!lvars
    OBVIOUS
  <2>1. CASE UNCHANGED lruMapVars
    BY <2>1 DEF lruMapVars, LruOrder!lvars
  <2>2. ASSUME NEW k \in LruMapKeys, NEW v \in LruMapValues, lrumap_put(k, v) PROVE LruOrder!Put
    BY <2>2, LruPutRefines
  <2>3. ASSUME NEW k \in LruMapKeys, lrumap_get(k) PROVE LruOrder!Get
    BY <2>3, LruGetRefines
  <2>4. ASSUME NEW k \in LruMapKeys, lrumap_remove(k) PROVE LruOrder!Delete
    BY <2>4, LruRemoveRefines
  <2>5. ASSUME NEW k \in LruMapKeys, lrumap_make_eldest(k) PROVE LruOrder!MakeEldest
    BY <2>5, LruMakeEldestRefines
  <2> QED
    BY <2>1, <2>2, <2>3, <2>4, <2>5, Zenon DEF LruMapNext
<1> QED
  BY <1>1, <1>2, LruMapInvariant, PTL DEF LruMapSpec, ImplementsLru, LruOrder!Spec
-----------------------------------------------------------------------------
(* The heap. *)

\* Parents and children in the array.
LEMMA Halves ==
  ASSUME NEW n \in Nat \ {0}, NEW m \in Nat \ {0}
  PROVE  /\ m > 1 => m \div 2 \in Nat \ {0} /\ m \div 2 < m
         /\ m \div 2 = n <=> m = 2 * n \/ m = 2 * n + 1
  OBVIOUS

\* The keys k of a heap of L entries are in order between m and its parent.
Ordered(k, m) == k[m \div 2] <= k[m]

\* k is in order but for the entry at n, which may have a lesser key than its
\* parent.
UpFrom(k, L, n) ==
  /\ \A m \in 2..L : m # n => Ordered(k, m)
  /\ \A m \in 2..L : m \div 2 = n /\ n > 1 => k[n \div 2] <= k[m]

\* k is in order but for the entry at n, which may have a greater key than its
\* children.
DownFrom(k, L, n) ==
  /\ \A m \in 2..L : m \div 2 # n => Ordered(k, m)
  /\ \A m \in 2..L : m \div 2 = n /\ n > 1 => k[n \div 2] <= k[m]

Exch(k, L, n, p) == [i \in 1..L |-> IF i = n THEN k[p] ELSE IF i = p THEN k[n] ELSE k[i]]

\* One iteration of shift_up.
LEMMA UpStep ==
  ASSUME NEW L \in Nat, NEW k \in [1..L -> Int], NEW n \in 2..L, UpFrom(k, L, n),
         k[n \div 2] > k[n]
  PROVE  UpFrom(Exch(k, L, n, n \div 2), L, n \div 2)
<1> DEFINE p == n \div 2
           j == Exch(k, L, n, p)
<1>1. p \in 1..L /\ p < n
  BY Halves
<1>2. PICK q : q = p
  OBVIOUS
<1>3. /\ \A i \in 1..L : k[i] \in Int
      /\ j[n] = k[q] /\ j[q] = k[n] /\ \A i \in 1..L : i # n /\ i # q => j[i] = k[i]
  BY <1>1, <1>2 DEF Exch
<1> HIDE DEF j
<1>4. ASSUME NEW m \in 2..L, m # q PROVE j[m \div 2] <= j[m]
  <2>1. PICK u : u = m \div 2 /\ u \in 1..L /\ u < m
    BY Halves
  <2>2. CASE m = n
    BY <1>1, <1>2, <1>3, <2>1, <2>2
  <2>3. CASE m # n
    <3>1. k[u] <= k[m]
      BY <2>1, <2>3 DEF UpFrom, Ordered
    <3>2. CASE u = n
      <4>1. k[q] <= k[m]
        BY <1>2, <2>1, <3>2 DEF UpFrom
      <4> QED
        BY <1>3, <1>4, <2>1, <2>3, <3>2, <4>1
    <3>3. CASE u = q
      <4>1. j[u] = k[n] /\ j[m] = k[m] /\ k[q] = k[u]
        BY <1>3, <1>4, <2>3, <3>3
      <4>2. k[n] < k[q] /\ k[n] \in Int /\ k[q] \in Int /\ k[m] \in Int
        BY <1>1, <1>2, <1>3
      <4>3. j[u] <= j[m]
        BY <3>1, <4>1, <4>2
      <4> QED
        BY <2>1, <4>3
    <3>4. CASE u # n /\ u # q
      BY <1>3, <1>4, <2>1, <2>3, <3>1, <3>4
    <3> QED
      BY <3>2, <3>3, <3>4
  <2> QED
    BY <2>2, <2>3
<1>5. ASSUME NEW m \in 2..L, m \div 2 = q, q > 1 PROVE j[q \div 2] <= j[m]
  <2>1. PICK u : u = q \div 2 /\ u \in 1..L /\ u < q
    BY <1>1, <1>2, <1>5, Halves
  <2>2. k[u] <= k[q]
    BY <1>1, <1>2, <1>5, <2>1 DEF UpFrom, Ordered
  <2>3. j[u] = k[u]
    BY <1>1, <1>2, <1>3, <2>1
  <2>4. CASE m = n
    BY <1>1, <1>2, <1>3, <2>1, <2>2, <2>3, <2>4
  <2>5. CASE m # n
    <3>1. m # q /\ k[q] <= k[m]
      BY <1>2, <1>5, <2>5, Halves DEF UpFrom, Ordered
    <3> QED
      BY <1>1, <1>2, <1>3, <2>1, <2>2, <2>3, <2>5, <3>1
  <2> QED
    BY <2>4, <2>5, <2>1
<1> QED
  BY <1>2, <1>4, <1>5 DEF UpFrom, Ordered, j

\* One iteration of shift_down, with c the child with the lesser key.
LEMMA DownStep ==
  ASSUME NEW L \in Nat, NEW k \in [1..L -> Int], NEW n \in 1..L, DownFrom(k, L, n),
         NEW c \in 2..L, c \div 2 = n, k[n] > k[c], \A m \in 2..L : m \div 2 = n => k[c] <= k[m]
  PROVE  DownFrom(Exch(k, L, n, c), L, c)
<1> DEFINE j == Exch(k, L, n, c)
<1>1. n < c
  BY Halves
<1>2. /\ \A i \in 1..L : k[i] \in Int
      /\ j[n] = k[c] /\ j[c] = k[n] /\ \A i \in 1..L : i # n /\ i # c => j[i] = k[i]
  BY <1>1 DEF Exch
<1> HIDE DEF j
<1>3. ASSUME NEW m \in 2..L, m \div 2 # c PROVE j[m \div 2] <= j[m]
  <2>1. PICK u : u = m \div 2 /\ u \in 1..L /\ u < m
    BY Halves
  <2>2. CASE u = n
    <3>1. k[c] <= k[m]
      BY <2>1, <2>2
    <3> QED
      BY <1>1, <1>2, <2>1, <2>2, <3>1
  <2>3. CASE u # n /\ m = n
    <3>1. k[u] <= k[c]
      BY <2>1, <2>3 DEF DownFrom
    <3> QED
      BY <1>1, <1>2, <1>3, <2>1, <2>3, <3>1
  <2>4. CASE u # n /\ m # n
    <3>1. k[u] <= k[m] /\ m # c
      BY <2>1, <2>4 DEF DownFrom, Ordered
    <3> QED
      BY <1>1, <1>2, <1>3, <2>1, <2>4, <3>1
  <2> QED
    BY <2>2, <2>3, <2>4
<1>4. ASSUME NEW m \in 2..L, m \div 2 = c PROVE j[c \div 2] <= j[m]
  <2>1. c < m
    BY <1>4, Halves
  <2>2. k[c] <= k[m]
    BY <1>1, <1>4 DEF DownFrom, Ordered
  <2> QED
    BY <1>1, <1>2, <2>1, <2>2
<1> QED
  BY <1>3, <1>4 DEF DownFrom, Ordered, j

\* In an ordered heap nothing has a lesser key than the entry at the top.
LEMMA TopIsLeast ==
  ASSUME NEW L \in Nat, NEW k \in [1..L -> Int], \A m \in 2..L : Ordered(k, m), NEW i \in 1..L
  PROVE  k[1] <= k[i]
<1> DEFINE B == {m \in 1..L : ~(k[1] <= k[m])}
<1>1. SUFFICES ASSUME i \in B PROVE FALSE
  OBVIOUS
<1>2. B \in SUBSET Nat /\ B # {}
  BY <1>1
<1>3. PICK b \in B : \A m \in B : b <= m
  <2> HIDE DEF B
  <2> QED
    BY <1>2, LeastNatural
<1>4. b \in 2..L
  BY <1>3
<1>5. PICK u : u = b \div 2 /\ u \in 1..L /\ u < b
  BY <1>4, Halves
<1>6. k[u] <= k[b]
  BY <1>4, <1>5 DEF Ordered
<1>7. u \in B
  BY <1>3, <1>4, <1>5, <1>6
<1> QED
  BY <1>3, <1>5, <1>7

\* The keys of the entries.
KeyList(h) == [i \in 1..Len(h) |-> h[i].key]

\* An exchange of two entries.
LEMMA SwapEntries ==
  ASSUME NEW S, NEW h \in Seq(S), NEW n \in 1..Len(h), NEW m \in 1..Len(h), n # m
  PROVE  /\ swap(h, n, m) \in Seq(S) /\ Len(swap(h, n, m)) = Len(h)
         /\ swap(h, n, m)[n] = h[m] /\ swap(h, n, m)[m] = h[n]
         /\ \A i \in 1..Len(h) : i # n /\ i # m => swap(h, n, m)[i] = h[i]
         /\ ToSet(swap(h, n, m)) = ToSet(h)
         /\ IsInjective(h) => IsInjective(swap(h, n, m))
<1> DEFINE s == swap(h, n, m)
           L == Len(h)
<1>1. L \in Nat /\ h \in [1..L -> S] /\ DOMAIN h = 1..L
  BY LenProperties
<1>2. s \in [1..L -> S]
  BY <1>1 DEF swap
<1>3. s \in Seq(S) /\ Len(s) = L /\ DOMAIN s = 1..L
  BY <1>1, <1>2, LenProperties
<1>4. s[n] = h[m] /\ s[m] = h[n] /\ \A i \in 1..L : i # n /\ i # m => s[i] = h[i]
  BY <1>1 DEF swap
<1> HIDE DEF s
<1>5. ToSet(s) = ToSet(h)
  BY <1>1, <1>3, <1>4 DEF ToSet
<1>6. IsInjective(h) => IsInjective(s)
  BY <1>1, <1>3, <1>4 DEF IsInjective
<1> QED
  BY <1>3, <1>4, <1>5, <1>6 DEF s

HeapEntry == [key : HeapKeys, value : HeapValues]

\* The keys after an exchange.
LEMMA SwapKeys ==
  ASSUME NEW h \in Seq(HeapEntry), NEW n \in 1..Len(h), NEW m \in 1..Len(h), n # m
  PROVE  KeyList(swap(h, n, m)) = Exch(KeyList(h), Len(h), n, m)
<1>1. /\ Len(swap(h, n, m)) = Len(h)
      /\ swap(h, n, m)[n] = h[m] /\ swap(h, n, m)[m] = h[n]
      /\ \A i \in 1..Len(h) : i # n /\ i # m => swap(h, n, m)[i] = h[i]
  BY SwapEntries
<1> QED
  BY <1>1 DEF KeyList, Exch

\* The keys of a heap are numbers.
LEMMA KeysAreNumbers ==
  ASSUME NEW h \in Seq(HeapEntry)
  PROVE  /\ Len(h) \in Nat /\ KeyList(h) \in [1..Len(h) -> Int]
         /\ \A i \in 1..Len(h) : KeyList(h)[i] = h[i].key /\ h[i] \in HeapEntry /\ h[i].key \in Int
<1>1. Len(h) \in Nat /\ \A i \in 1..Len(h) : h[i] \in HeapEntry
  BY LenProperties
<1>2. \A i \in 1..Len(h) : h[i].key \in Int
  BY <1>1, HeapAssumption DEF HeapEntry
<1> QED
  BY <1>1, <1>2 DEF KeyList

\* The invariant, in terms of the keys.
Shifted(h, way, n) ==
  /\ way = "no" => \A m \in 2..Len(h) : Ordered(KeyList(h), m)
  /\ way = "up" => n \in 1..Len(h) /\ UpFrom(KeyList(h), Len(h), n)
  /\ way = "down" => /\ n \in Nat \ {0} /\ (n = 1 \/ n <= Len(h))
                     /\ DownFrom(KeyList(h), Len(h), n)

\* What the invariant says of the keys.
LEMMA HeapInvKeys ==
  HeapInv <=> /\ heap \in Seq(HeapEntry) /\ shifting \in {"no", "up", "down"}
              /\ Shifted(heap, shifting, node) /\ ValuesDiffer
<1> SUFFICES ASSUME heap \in Seq(HeapEntry)
             PROVE  HeapInv <=> /\ shifting \in {"no", "up", "down"}
                                /\ Shifted(heap, shifting, node) /\ ValuesDiffer
  BY DEF HeapInv, HeapTypeOK, HeapEntry
<1> DEFINE L == Len(heap)
           k == KeyList(heap)
<1>1. L \in Nat /\ \A i \in 1..L : k[i] = heap[i].key
  BY KeysAreNumbers
<1>2. \A n \in 2..L : n \div 2 \in 1..L
  BY <1>1, Halves
<1>3. \A n \in 2..L : InOrder(n) <=> Ordered(k, n)
  BY <1>1, <1>2 DEF InOrder, Ordered
<1>4. ASSUME node \in Nat \ {0}, NEW n \in 2..L, n \div 2 = node, node > 1
      PROVE  k[node \div 2] = heap[node \div 2].key /\ k[n] = heap[n].key
  <2>1. node \div 2 \in 1..L
    BY <1>1, <1>2, <1>4
  <2> QED
    BY <1>1, <1>4, <2>1
<1> HIDE DEF k
<1>5. HeapOrder <=> (shifting = "no" => \A n \in 2..L : Ordered(k, n))
  BY <1>3 DEF HeapOrder
<1>6. shifting = "up" => ((HeapTypeOK /\ AlmostOrdered) <=> (node \in 1..L /\ UpFrom(k, L, node)))
  BY <1>1, <1>3, <1>4 DEF HeapTypeOK, AlmostOrdered, UpFrom, HeapEntry
<1>7. shifting = "down" => ((HeapTypeOK /\ AlmostOrdered)
        <=> (node \in Nat \ {0} /\ (node = 1 \/ node <= L) /\ DownFrom(k, L, node)))
  BY <1>1, <1>3, <1>4 DEF HeapTypeOK, AlmostOrdered, DownFrom, HeapEntry
<1>8. shifting = "no" => HeapTypeOK /\ AlmostOrdered
  BY DEF HeapTypeOK, AlmostOrdered, HeapEntry
<1>9. HeapTypeOK => shifting \in {"no", "up", "down"}
  BY DEF HeapTypeOK
<1>10. Shifted(heap, shifting, node) <=>
         /\ shifting = "no" => \A m \in 2..L : Ordered(k, m)
         /\ shifting = "up" => node \in 1..L /\ UpFrom(k, L, node)
         /\ shifting = "down" => node \in Nat \ {0} /\ (node = 1 \/ node <= L) /\ DownFrom(k, L, node)
  BY DEF Shifted, k
<1>11. HeapOrder <=> (shifting = "no" => \A m \in 2..L : Ordered(k, m))
  BY <1>5
<1>12. CASE shifting = "no"
  BY <1>8, <1>10, <1>11, <1>12 DEF HeapInv
<1>13. CASE shifting = "up"
  BY <1>6, <1>10, <1>11, <1>13 DEF HeapInv
<1>14. CASE shifting = "down"
  BY <1>7, <1>10, <1>11, <1>14 DEF HeapInv
<1> QED
  BY <1>9, <1>12, <1>13, <1>14 DEF HeapInv

\* What every operation preserves, of the entries h and the loop that runs.
HeapSound(h, way, n) ==
  /\ h \in Seq(HeapEntry) /\ way \in {"no", "up", "down"} /\ Shifted(h, way, n)
  /\ \A i, j \in DOMAIN h : h[i].value = h[j].value => i = j

\* An iteration of a loop that moves the entry at n to m.
LEMMA ShiftToSound ==
  ASSUME NEW h \in Seq(HeapEntry), NEW n \in 1..Len(h), NEW m \in 1..Len(h), n # m,
         \A i, j \in DOMAIN h : h[i].value = h[j].value => i = j,
         NEW way \in {"up", "down"},
         way = "up" => UpFrom(Exch(KeyList(h), Len(h), n, m), Len(h), m),
         way = "down" => DownFrom(Exch(KeyList(h), Len(h), n, m), Len(h), m)
  PROVE  HeapSound(swap(h, n, m), way, m) /\ ToSet(swap(h, n, m)) = ToSet(h)
<1> DEFINE s == swap(h, n, m)
<1>1. /\ s \in Seq(HeapEntry) /\ Len(s) = Len(h) /\ ToSet(s) = ToSet(h)
      /\ s[n] = h[m] /\ s[m] = h[n]
      /\ \A i \in 1..Len(h) : i # n /\ i # m => s[i] = h[i]
  BY SwapEntries
<1>2. KeyList(s) = Exch(KeyList(h), Len(h), n, m)
  BY SwapKeys
<1>3. Len(h) \in Nat /\ DOMAIN h = 1..Len(h) /\ DOMAIN s = 1..Len(h)
  BY <1>1, LenProperties
<1> HIDE DEF s
<1>4. Shifted(s, way, m)
  BY <1>1, <1>2, <1>3 DEF Shifted
<1>5. ASSUME NEW i \in DOMAIN s, NEW j \in DOMAIN s, s[i].value = s[j].value PROVE i = j
  <2>1. PICK u \in 1..Len(h) : s[i] = h[u] /\ (i = n => u = m) /\ (i = m => u = n) /\ (i # n /\ i # m => u = i)
    BY <1>1, <1>3
  <2>2. PICK v \in 1..Len(h) : s[j] = h[v] /\ (j = n => v = m) /\ (j = m => v = n) /\ (j # n /\ j # m => v = j)
    BY <1>1, <1>3
  <2>3. u = v
    BY <1>3, <1>5, <2>1, <2>2
  <2> QED
    BY <2>1, <2>2, <2>3
<1> QED
  BY <1>1, <1>4, <1>5 DEF HeapSound, s

\* shift_up.
LEMMA ShiftUpSound ==
  ASSUME HeapSound(heap, shifting, node), shift_up
  PROVE  HeapSound(heap', shifting', node') /\ ToSet(heap') = ToSet(heap)
<1> DEFINE L == Len(heap)
           k == KeyList(heap)
           p == node \div 2
<1>1. /\ shifting = "up" /\ heap \in Seq(HeapEntry) /\ node \in 1..L /\ UpFrom(k, L, node)
      /\ \A i, j \in DOMAIN heap : heap[i].value = heap[j].value => i = j
  BY DEF HeapSound, Shifted, shift_up
<1>2. L \in Nat /\ k \in [1..L -> Int] /\ \A i \in 1..L : k[i] = heap[i].key
  BY <1>1, KeysAreNumbers
<1>3. node # 1 => p \in 1..L /\ p < node
  BY <1>1, <1>2, Halves
<1> HIDE DEF k, p
<1>4. CASE node = 1 \/ heap[p].key <= heap[node].key
  <2>1. heap' = heap /\ shifting' = "no"
    BY <1>4 DEF shift_up, ShiftEnds, p
  <2>2. \A m \in 2..L : Ordered(k, m)
    <3>1. \A m \in 2..L : m # node => Ordered(k, m)
      BY <1>1 DEF UpFrom
    <3>2. node # 1 => k[p] <= k[node]
      BY <1>1, <1>2, <1>3, <1>4
    <3>3. node # 1 => Ordered(k, node)
      BY <3>2 DEF Ordered, p
    <3> QED
      BY <3>1, <3>3
  <2> QED
    BY <1>1, <2>1, <2>2 DEF HeapSound, Shifted, k
<1>5. CASE ~(node = 1 \/ heap[p].key <= heap[node].key)
  <2>1. heap' = swap(heap, node, p) /\ shifting' = "up" /\ node' = p
    BY <1>1, <1>5 DEF shift_up, ShiftTo, p
  <2>2. node \in 2..L /\ k[p] > k[node] /\ p \in 1..L /\ p # node
    BY <1>1, <1>2, <1>3, <1>5
  <2>3. UpFrom(Exch(k, L, node, p), L, p)
    BY <1>1, <1>2, <2>2, UpStep DEF p
  <2>4. HeapSound(swap(heap, node, p), "up", p) /\ ToSet(swap(heap, node, p)) = ToSet(heap)
    BY <1>1, <2>2, <2>3, ShiftToSound DEF k
  <2> QED
    BY <2>1, <2>4
<1> QED
  BY <1>4, <1>5

\* shift_down.
LEMMA ShiftDownSound ==
  ASSUME HeapSound(heap, shifting, node), shift_down
  PROVE  HeapSound(heap', shifting', node') /\ ToSet(heap') = ToSet(heap)
<1> DEFINE L == Len(heap)
           k == KeyList(heap)
           c == minChild
<1>1. /\ shifting = "down" /\ heap \in Seq(HeapEntry) /\ DownFrom(k, L, node)
      /\ node \in Nat \ {0} /\ (node = 1 \/ node <= L)
      /\ \A i, j \in DOMAIN heap : heap[i].value = heap[j].value => i = j
  BY DEF HeapSound, Shifted, shift_down
<1>2. L \in Nat /\ k \in [1..L -> Int] /\ \A i \in 1..L : k[i] = heap[i].key /\ k[i] \in Int
  BY <1>1, KeysAreNumbers
<1>3. ASSUME 2 * node <= L
      PROVE  /\ node \in 1..L /\ c \in 2..L /\ c \div 2 = node
             /\ \A m \in 2..L : m \div 2 = node => k[c] <= k[m]
  <2>1. c \in 2..L /\ (c = 2 * node \/ c = 2 * node + 1) /\ node \in 1..L
    BY <1>1, <1>2, <1>3 DEF minChild
  <2>2. k[c] <= k[2 * node] /\ (2 * node + 1 <= L => k[c] <= k[2 * node + 1])
    <3>1. k[2 * node] = heap[2 * node].key /\ k[2 * node] \in Int
      BY <1>1, <1>2, <1>3
    <3>2. 2 * node + 1 <= L => k[2 * node + 1] = heap[2 * node + 1].key /\ k[2 * node + 1] \in Int
      BY <1>1, <1>2, <1>3
    <3> HIDE DEF k
    <3> QED
      BY <1>1, <1>2, <1>3, <3>1, <3>2 DEF minChild
  <2> HIDE DEF c, k
  <2>3. c \div 2 = node
    BY <1>1, <2>1, Halves
  <2>4. ASSUME NEW m \in 2..L, m \div 2 = node PROVE k[c] <= k[m]
    <3>1. m = 2 * node \/ m = 2 * node + 1
      <4>1. node \in Nat \ {0} /\ m \in Nat \ {0}
        BY <1>1, <1>2, <2>1
      <4> QED
        BY <2>4, <4>1, Halves
    <3> QED
      BY <2>2, <3>1
  <2> QED
    BY <2>1, <2>3, <2>4
<1> HIDE DEF k, c
<1>4. CASE 2 * node > L \/ heap[node].key <= heap[c].key
  <2>1. heap' = heap /\ shifting' = "no"
    BY <1>4 DEF shift_down, ShiftEnds, c
  <2>2. ASSUME NEW m \in 2..L PROVE Ordered(k, m)
    <3>1. CASE m \div 2 # node
      BY <1>1, <3>1 DEF DownFrom
    <3>2. CASE m \div 2 = node
      <4>1. 2 * node <= L
        BY <1>1, <1>2, <3>2, Halves
      <4>2. k[node] <= k[c] /\ k[c] <= k[m]
        BY <1>1, <1>2, <1>3, <1>4, <3>2, <4>1
      <4>3. k[node] <= k[m]
        BY <1>1, <1>2, <1>3, <4>1, <4>2
      <4> QED
        BY <3>2, <4>3 DEF Ordered
    <3> QED
      BY <3>1, <3>2
  <2> QED
    BY <1>1, <2>1, <2>2 DEF HeapSound, Shifted, k
<1>5. CASE ~(2 * node > L \/ heap[node].key <= heap[c].key)
  <2>1. heap' = swap(heap, node, c) /\ shifting' = "down" /\ node' = c
    BY <1>1, <1>5 DEF shift_down, ShiftTo, c
  <2>2. /\ node \in 1..L /\ c \in 2..L /\ c \div 2 = node /\ k[node] > k[c]
        /\ \A m \in 2..L : m \div 2 = node => k[c] <= k[m]
    BY <1>1, <1>2, <1>3, <1>5
  <2>3. DownFrom(Exch(k, L, node, c), L, c)
    BY <1>1, <1>2, <2>2, DownStep
  <2>4. c \in 1..L /\ c # node
    BY <1>2, <2>2, Halves
  <2>5. HeapSound(swap(heap, node, c), "down", c) /\ ToSet(swap(heap, node, c)) = ToSet(heap)
    BY <1>1, <2>2, <2>3, <2>4, ShiftToSound DEF k
  <2> QED
    BY <2>1, <2>5
<1> QED
  BY <1>4, <1>5

\* heap_push: the new entry is the last and may have to rise.
LEMMA PushSound ==
  ASSUME HeapSound(heap, shifting, node), NEW key \in HeapKeys, NEW value \in UnusedValues,
         heap_push(key, value)
  PROVE  /\ HeapSound(heap', shifting', node')
         /\ ToSet(heap') = ToSet(heap) \cup {[key |-> key, value |-> value]}
<1> DEFINE L == Len(heap)
           k == KeyList(heap)
<1>1. PICK e \in HeapEntry : e = [key |-> key, value |-> value]
  BY DEF HeapEntry, UnusedValues
<1>2. PICK h : h = Append(heap, e)
  OBVIOUS
<1>3. heap' = h /\ shifting' = "up" /\ node' = L + 1 /\ shifting = "no"
  BY <1>1, <1>2 DEF heap_push
<1>4. /\ heap \in Seq(HeapEntry) /\ \A m \in 2..L : Ordered(k, m)
      /\ \A i, j \in DOMAIN heap : heap[i].value = heap[j].value => i = j
  BY <1>3 DEF HeapSound, Shifted
<1>5. L \in Nat /\ \A i \in 1..L : k[i] = heap[i].key
  BY <1>4, KeysAreNumbers
<1>6. /\ h \in Seq(HeapEntry) /\ Len(h) = L + 1 /\ DOMAIN h = 1..(L + 1) /\ h[L + 1] = e
      /\ \A i \in 1..L : h[i] = heap[i]
  BY <1>2, <1>4, AppendElements
<1>7. ToSet(h) = ToSet(heap) \cup {e}
  BY <1>2, <1>4, AppendSet
<1>8. \A i \in 1..(L + 1) : KeyList(h)[i] = h[i].key
  BY <1>6, KeysAreNumbers
<1>9. \A i \in 1..L : KeyList(h)[i] = k[i]
  BY <1>5, <1>6, <1>8
<1> HIDE DEF k
<1>10. ASSUME NEW m \in 2..(L + 1), m # L + 1 PROVE Ordered(KeyList(h), m)
  <2>1. m \in 2..L /\ m \div 2 \in 1..L
    BY <1>5, <1>10, Halves
  <2>2. Ordered(k, m)
    BY <1>4, <2>1
  <2>3. KeyList(h)[m \div 2] = k[m \div 2] /\ KeyList(h)[m] = k[m]
    BY <1>5, <1>9, <2>1
  <2> QED
    BY <2>2, <2>3 DEF Ordered
<1>11. \A m \in 2..(L + 1) : m \div 2 # L + 1
  BY <1>5, Halves
<1>12. UpFrom(KeyList(h), L + 1, L + 1)
  BY <1>10, <1>11 DEF UpFrom
<1>13. \A i \in 1..L : heap[i].value # e.value
  <2>1. \A i \in 1..L : heap[i] \in ToSet(heap)
    BY <1>4, LenProperties DEF ToSet
  <2> QED
    BY <1>1, <2>1 DEF UnusedValues
<1>14. ASSUME NEW i \in DOMAIN h, NEW j \in DOMAIN h, h[i].value = h[j].value PROVE i = j
  <2>1. DOMAIN heap = 1..L
    BY <1>4, LenProperties
  <2>2. CASE i \in 1..L /\ j \in 1..L
    BY <1>4, <1>6, <1>14, <2>1, <2>2
  <2>3. CASE ~(i \in 1..L /\ j \in 1..L)
    BY <1>5, <1>6, <1>13, <1>14, <2>3
  <2> QED
    BY <2>2, <2>3
<1>15. HeapSound(h, "up", L + 1)
  BY <1>5, <1>6, <1>12, <1>14 DEF HeapSound, Shifted
<1> QED
  BY <1>1, <1>3, <1>7, <1>15

\* heap_pop: the first entry leaves, and the last takes its place.
LEMMA PopSound ==
  ASSUME HeapSound(heap, shifting, node), heap_pop
  PROVE  /\ HeapSound(heap', shifting', node')
         /\ heap[1] \in ToSet(heap) /\ ToSet(heap') = ToSet(heap) \ {heap[1]}
<1> DEFINE L == Len(heap)
           k == KeyList(heap)
<1>1. shifting = "no" /\ heap # <<>> /\ shifting' = "down" /\ node' = 1
  BY DEF heap_pop
<1>2. /\ heap \in Seq(HeapEntry) /\ \A m \in 2..L : Ordered(k, m)
      /\ \A i, j \in DOMAIN heap : heap[i].value = heap[j].value => i = j
  BY <1>1 DEF HeapSound, Shifted
<1>3. L \in Nat \ {0} /\ DOMAIN heap = 1..L /\ \A i \in 1..L : k[i] = heap[i].key /\ heap[i] \in HeapEntry
  BY <1>1, <1>2, KeysAreNumbers, LenProperties
<1>4. PICK g : g = [heap EXCEPT ![1] = Last(heap)]
  OBVIOUS
<1>5. g \in Seq(HeapEntry) /\ Len(g) = L /\ g[1] = heap[L] /\ \A i \in 2..L : g[i] = heap[i]
  <2>1. Last(heap) = heap[L] /\ heap[L] \in HeapEntry
    BY <1>3 DEF Last
  <2>2. g \in [1..L -> HeapEntry] /\ g[1] = heap[L] /\ \A i \in 2..L : g[i] = heap[i]
    BY <1>2, <1>3, <1>4, <2>1
  <2> QED
    BY <1>3, <2>2, LenProperties
<1>6. PICK h : h = Front(g)
  OBVIOUS
<1>7. /\ h \in Seq(HeapEntry) /\ Len(h) = L - 1 /\ DOMAIN h = 1..(L - 1)
      /\ \A i \in 1..(L - 1) : h[i] = g[i]
  <2>1. g # <<>>
    BY <1>3, <1>5
  <2>2. /\ Front(g) \in Seq(HeapEntry) /\ Len(Front(g)) = Len(g) - 1
        /\ \A i \in 1..(Len(g) - 1) : Front(g)[i] = g[i]
    BY <1>5, <2>1, FrontSet
  <2>3. h \in Seq(HeapEntry) /\ Len(h) = L - 1 /\ \A i \in 1..(L - 1) : h[i] = g[i]
    BY <1>5, <1>6, <2>2
  <2> QED
    BY <2>3, LenProperties
<1>8. heap' = h
  BY <1>4, <1>6 DEF heap_pop
<1>9. (L > 1 => h[1] = heap[L]) /\ \A i \in 2..(L - 1) : h[i] = heap[i]
  BY <1>3, <1>5, <1>7
<1>10. \A i \in 1..(L - 1) : KeyList(h)[i] = h[i].key
  BY <1>7, KeysAreNumbers
<1> HIDE DEF k
<1>11. ASSUME NEW m \in 2..(L - 1), m \div 2 # 1 PROVE Ordered(KeyList(h), m)
  <2>1. m \in 2..L /\ m \div 2 \in 2..(L - 1)
    BY <1>3, <1>11, Halves
  <2>2. Ordered(k, m)
    BY <1>2, <2>1
  <2>3. KeyList(h)[m \div 2] = k[m \div 2] /\ KeyList(h)[m] = k[m]
    BY <1>3, <1>9, <1>10, <2>1
  <2> QED
    BY <2>2, <2>3 DEF Ordered
<1>12. DownFrom(KeyList(h), Len(h), 1)
  BY <1>7, <1>11 DEF DownFrom
<1>13. ASSUME NEW i \in DOMAIN h
       PROVE  \E u \in 2..L : h[i] = heap[u] /\ (i = 1 => u = L) /\ (i > 1 => u = i)
  <2>1. CASE i = 1
    <3>1. L \in 2..L /\ h[i] = heap[L]
      BY <1>3, <1>7, <1>9, <2>1
    <3> QED
      BY <2>1, <3>1
  <2>2. CASE i > 1
    <3>1. i \in 2..L /\ h[i] = heap[i]
      BY <1>3, <1>7, <1>9, <2>2
    <3> QED
      BY <2>2, <3>1
  <2> QED
    BY <1>7, <2>1, <2>2
<1>14. ASSUME NEW i \in DOMAIN h, NEW j \in DOMAIN h, h[i].value = h[j].value PROVE i = j
  <2>1. PICK u \in 2..L : h[i] = heap[u] /\ (i = 1 => u = L) /\ (i > 1 => u = i)
    BY <1>13
  <2>2. PICK v \in 2..L : h[j] = heap[v] /\ (j = 1 => v = L) /\ (j > 1 => v = j)
    BY <1>13
  <2>3. u \in DOMAIN heap /\ v \in DOMAIN heap
    BY <1>3
  <2>4. u = v
    BY <1>2, <1>14, <2>1, <2>2, <2>3
  <2>5. i \in 1..(L - 1) /\ j \in 1..(L - 1)
    BY <1>7
  <2>6. CASE i = 1
    <3>1. v = L
      BY <2>1, <2>4, <2>6
    <3>2. L \in Nat
      BY <1>3
    <3>3. j # L /\ (j = 1 \/ j > 1)
      BY <2>5, <3>2
    <3> QED
      BY <2>2, <2>6, <3>1, <3>3
  <2>7. CASE i > 1
    BY <1>3, <2>1, <2>2, <2>4, <2>5, <2>7
  <2> QED
    BY <1>3, <2>5, <2>6, <2>7
<1>15. HeapSound(h, "down", 1)
  BY <1>7, <1>12, <1>14 DEF HeapSound, Shifted
<1>16. heap[1] \in ToSet(heap)
  BY <1>3 DEF ToSet
<1>17. ToSet(h) = ToSet(heap) \ {heap[1]}
  <2>1. ASSUME NEW i \in DOMAIN h PROVE h[i] \in ToSet(heap) \ {heap[1]}
    <3>1. PICK u \in 2..L : h[i] = heap[u]
      BY <1>13
    <3>2. heap[u] # heap[1]
      BY <1>2, <1>3
    <3> QED
      BY <1>3, <3>1, <3>2 DEF ToSet
  <2>2. ASSUME NEW u \in 2..L PROVE \E i \in DOMAIN h : h[i] = heap[u]
    <3>1. CASE u = L
      <4>1. 1 \in DOMAIN h /\ h[1] = heap[u]
        BY <1>3, <1>7, <1>9, <3>1
      <4> QED
        BY <4>1
    <3>2. CASE u # L
      <4>1. u \in 2..(L - 1)
        <5>1. L \in Nat
          BY <1>3
        <5>2. u \in Int /\ 2 <= u /\ u <= L /\ u # L
          BY <3>2, <5>1
        <5> QED
          BY <5>1, <5>2
      <4>2. u \in DOMAIN h /\ h[u] = heap[u]
        BY <1>3, <1>7, <1>9, <4>1
      <4> QED
        BY <4>2
    <3> QED
      BY <3>1, <3>2
  <2>3. \A x \in ToSet(heap) \ {heap[1]} : \E u \in 2..L : x = heap[u]
    BY <1>3 DEF ToSet
  <2> QED
    BY <2>1, <2>2, <2>3 DEF ToSet
<1> QED
  BY <1>1, <1>8, <1>15, <1>16, <1>17

\* An empty heap is ordered.
LEMMA HeapInitial == HeapInit => HeapSound(heap, shifting, node)
<1> SUFFICES ASSUME HeapInit PROVE HeapSound(heap, shifting, node)
  OBVIOUS
<1>1. heap = <<>> /\ shifting = "no" /\ heap \in Seq(HeapEntry) /\ Len(heap) = 0 /\ DOMAIN heap = {}
  BY DEF HeapInit
<1> QED
  BY <1>1 DEF HeapSound, Shifted

\* What every operation and every iteration of a loop preserves.
THEOREM HeapInvariant == HeapSpec => []HeapInv
<1>1. HeapSound(heap, shifting, node) /\ [HeapNext]_heapVars => HeapSound(heap, shifting, node)'
  <2> SUFFICES ASSUME HeapSound(heap, shifting, node), [HeapNext]_heapVars
               PROVE  HeapSound(heap', shifting', node')
    OBVIOUS
  <2>1. CASE UNCHANGED heapVars
    BY <2>1 DEF heapVars
  <2>2. ASSUME NEW key \in HeapKeys, NEW value \in UnusedValues, heap_push(key, value)
        PROVE  HeapSound(heap', shifting', node')
    BY <2>2, PushSound
  <2>3. CASE heap_pop
    BY <2>3, PopSound
  <2>4. CASE shift_up
    BY <2>4, ShiftUpSound
  <2>5. CASE shift_down
    BY <2>5, ShiftDownSound
  <2> QED
    BY <2>1, <2>2, <2>3, <2>4, <2>5 DEF HeapNext
<1>2. HeapSound(heap, shifting, node) => HeapInv
  BY HeapInvKeys DEF HeapSound, ValuesDiffer
<1> QED
  BY <1>1, <1>2, HeapInitial, PTL DEF HeapSpec

\* Between two operations the entries of heap.c are ordered, for every
\* capacity and whatever was pushed and popped.
THEOREM HeapStaysOrdered == HeapSpec => []HeapOrder
<1>1. HeapInv => HeapOrder
  BY DEF HeapInv
<1> QED
  BY <1>1, HeapInvariant, PTL

\* heap.c implements a priority queue: the loops only rearrange the entries,
\* and what heap_pop removes is least.
THEOREM HeapIsAPriorityQueue == HeapSpec => ImplementsPriorityQueue
<1>1. HeapInit => Timers!Init
  BY DEF HeapInit, Timers!Init, ToSet
<1>2. HeapInv /\ [HeapNext]_heapVars => [Timers!Push \/ Timers!Pop]_(ToSet(heap))
  <2> SUFFICES ASSUME HeapInv, [HeapNext]_heapVars
               PROVE  Timers!Push \/ Timers!Pop \/ ToSet(heap') = ToSet(heap)
    BY DEF ToSet
  <2>1. HeapSound(heap, shifting, node)
    BY HeapInvKeys DEF HeapSound, ValuesDiffer
  <2>2. heap \in Seq(HeapEntry) /\ \A i, j \in DOMAIN heap : heap[i].value = heap[j].value => i = j
    BY <2>1 DEF HeapSound
  <2>3. CASE UNCHANGED heapVars
    BY <2>3 DEF heapVars
  <2>4. ASSUME NEW key \in HeapKeys, NEW value \in UnusedValues, heap_push(key, value)
        PROVE  Timers!Push
    <3>1. PICK e : e = [key |-> key, value |-> value]
      OBVIOUS
    <3>2. e \in Timers!Entry /\ \A f \in ToSet(heap) : f.value # e.value
      BY <3>1 DEF Timers!Entry, UnusedValues
    <3>3. ToSet(heap') = ToSet(heap) \cup {e}
      BY <2>1, <2>4, <3>1, PushSound
    <3>4. Cardinality(ToSet(heap)) < HeapCapacity
      <4>1. IsInjective(heap)
        BY <2>2 DEF IsInjective
      <4>2. Cardinality(ToSet(heap)) = Len(heap)
        BY <2>2, <4>1, DistinctLength
      <4> QED
        BY <2>4, <4>2 DEF heap_push
    <3>5. \E g \in Timers!Entry : (\A f \in ToSet(heap) : f.value # g.value) /\ ToSet(heap') = ToSet(heap) \cup {g}
      BY <3>2, <3>3
    <3>6. Timers!Cardinality(ToSet(heap)) = Cardinality(ToSet(heap))
      BY Zenon DEF Cardinality, IsFiniteSet, Timers!Cardinality, Timers!IsFiniteSet
    <3>7. Timers!Cardinality(ToSet(heap)) < HeapCapacity
      BY <3>4, <3>6
    <3> QED
      BY <3>5, <3>7, Zenon DEF Timers!Push
  <2>5. CASE heap_pop
    <3>1. /\ heap[1] \in ToSet(heap) /\ ToSet(heap') = ToSet(heap) \ {heap[1]}
      BY <2>1, <2>5, PopSound
    <3>2. ASSUME NEW f \in ToSet(heap) PROVE heap[1].key <= f.key
      <4>1. PICK i \in 1..Len(heap) : f = heap[i]
        BY <2>2, LenProperties DEF ToSet
      <4>2. \A m \in 2..Len(heap) : Ordered(KeyList(heap), m)
        BY <2>1, <2>5 DEF HeapSound, Shifted, heap_pop
      <4>3. /\ Len(heap) \in Nat /\ KeyList(heap) \in [1..Len(heap) -> Int]
            /\ \A j \in 1..Len(heap) : KeyList(heap)[j] = heap[j].key
        BY <2>2, KeysAreNumbers
      <4>4. KeyList(heap)[1] <= KeyList(heap)[i]
        BY <4>2, <4>3, TopIsLeast
      <4>5. 1 \in 1..Len(heap)
        BY <4>1, <4>3
      <4> QED
        BY <4>1, <4>3, <4>4, <4>5
    <3> QED
      BY <3>1, <3>2 DEF Timers!Pop
  <2>6. CASE shift_up
    BY <2>1, <2>6, ShiftUpSound
  <2>7. CASE shift_down
    BY <2>1, <2>7, ShiftDownSound
  <2> QED
    BY <2>3, <2>4, <2>5, <2>6, <2>7 DEF HeapNext
<1> QED
  BY <1>1, <1>2, HeapInvariant, PTL DEF HeapSpec, ImplementsPriorityQueue, Timers!Spec
-----------------------------------------------------------------------------
(* The hash table. *)

\* What a list holds is an element of the set it is a list over.
LEMMA ListedIn ==
  ASSUME NEW S, NEW q \in Seq(S), NEW x \in ToSet(q)
  PROVE  x \in S
<1>1. PICK j \in DOMAIN q : x = q[j]
  BY DEF ToSet
<1> QED
  BY <1>1, LenProperties

HashOf(c) == [k \in HashKeys |-> k % bucket_num(c)]

\* There is a bucket, fewer of them than entries, and a table of twice the
\* capacity has more buckets than the table has entries.
LEMMA BucketNumber ==
  ASSUME NEW c \in Nat \ {0, 1}
  PROVE  /\ bucket_num(c) \in 1..(c - 1) /\ c < bucket_num(2 * c) /\ bucket_num(c) \in Nat
         /\ 2 * c \in Nat \ {0, 1} /\ (2 * c) \div 2 = c
         /\ HashOf(c) \in [HashKeys -> 0..(bucket_num(c) - 1)]
<1>1. bucket_num(c) \in 1..(c - 1) /\ c < bucket_num(2 * c) /\ (2 * c) \div 2 = c
  BY DEF bucket_num
<1>2. PICK n \in Nat \ {0} : n = bucket_num(c)
  BY <1>1
<1>3. \A k \in HashKeys : k % n \in 0..(n - 1)
  BY HashAssumption
<1> QED
  BY <1>1, <1>2, <1>3 DEF HashOf

\* A pair is not a free entry.
LEMMA PairIsUsed ==
  ASSUME NEW k, NEW v
  PROVE  <<k, v>> # FreeEntry /\ <<k, v>>[1] = k /\ <<k, v>>[2] = v
  BY DEF FreeEntry

\* The chains B hold the used entries of E, by the hash g of their keys.
Chained(g, E, B) ==
  /\ \A b \in DOMAIN B : IsInjective(B[b])
  /\ \A b \in DOMAIN B : \A i \in ToSet(B[b]) : E[i] # FreeEntry /\ g[E[i][1]] = b
  /\ \A i \in UsedIn(E) : i \in ToSet(B[g[E[i][1]]])

\* A table of c entries and n + 1 buckets.
Chains(c, n, g, E, B) ==
  /\ c \in Nat /\ n \in Nat /\ E \in EntriesOf(c) /\ g \in [HashKeys -> 0..n]
  /\ B \in [0..n -> Seq(0..(c - 1))] /\ Chained(g, E, B)

\* f with x at i.
With(f, i, x) == [f EXCEPT ![i] = x]

\* Used entries are pairs.
LEMMA UsedArePairs ==
  ASSUME NEW c \in Nat, NEW E \in EntriesOf(c)
  PROVE  /\ DOMAIN E = 0..(c - 1) /\ UsedIn(E) \subseteq 0..(c - 1)
         /\ \A i \in 0..(c - 1) : i \in UsedIn(E) <=> E[i] # FreeEntry
         /\ \A i \in UsedIn(E) : E[i] \in HashKeys \X HashValues /\ E[i][1] \in HashKeys /\ E[i][2] \in HashValues
  BY DEF EntriesOf, UsedIn

\* A free entry is taken for a key the table does not hold.
LEMMA InsertEntry ==
  ASSUME NEW c \in Nat, NEW E \in EntriesOf(c), KeysDiffer(E),
         NEW k, NEW e \in HashKeys \X HashValues, e # FreeEntry, e[1] = k, NEW i \in 0..(c - 1), E[i] = FreeEntry,
         \A j \in UsedIn(E) : E[j][1] # k,
         NEW F, F = With(E, i, e)
  PROVE  /\ F \in EntriesOf(c) /\ KeysDiffer(F) /\ UsedIn(F) = UsedIn(E) \cup {i} /\ i \notin UsedIn(E)
         /\ F[i] = e /\ \A j \in UsedIn(E) : F[j] = E[j]
<1>1. DOMAIN E = 0..(c - 1) /\ \A j \in 0..(c - 1) : j \in UsedIn(E) <=> E[j] # FreeEntry
  BY UsedArePairs
<1>2. F \in EntriesOf(c)
  BY DEF EntriesOf, With
<1>3. DOMAIN F = 0..(c - 1) /\ F[i] = e /\ \A j \in 0..(c - 1) : j # i => F[j] = E[j]
  BY <1>1 DEF With
<1>4. UsedIn(F) = UsedIn(E) \cup {i} /\ i \notin UsedIn(E)
  BY <1>1, <1>3 DEF UsedIn
<1>5. \A j \in UsedIn(E) : F[j] = E[j]
  BY <1>1, <1>3, <1>4 DEF UsedIn
<1>6. ASSUME NEW x \in UsedIn(F), NEW y \in UsedIn(F), F[x][1] = F[y][1] PROVE x = y
  <2>1. CASE x = i /\ y # i
    BY <1>3, <1>4, <1>5, <1>6, <2>1
  <2>2. CASE x # i /\ y = i
    BY <1>3, <1>4, <1>5, <1>6, <2>2
  <2>3. CASE x # i /\ y # i
    BY <1>4, <1>5, <1>6, <2>3 DEF KeysDiffer
  <2> QED
    BY <2>1, <2>2, <2>3
<1>7. KeysDiffer(F)
  BY <1>6 DEF KeysDiffer
<1> QED
  BY <1>2, <1>3, <1>4, <1>5, <1>7

\* It is chained first in the bucket of its key.
LEMMA InsertChained ==
  ASSUME NEW c, NEW E, NEW n, NEW g, NEW B, Chains(c, n, g, E, B),
         NEW F \in EntriesOf(c), NEW i \in 0..(c - 1), NEW k \in HashKeys,
         UsedIn(F) = UsedIn(E) \cup {i}, i \notin UsedIn(E), F[i][1] = k, F[i] # FreeEntry,
         \A j \in UsedIn(E) : F[j] = E[j],
         NEW D, NEW r, D = With(B, g[k], r), r = <<i>> \o B[g[k]]
  PROVE  Chains(c, n, g, F, D)
<1>1. /\ c \in Nat /\ n \in Nat /\ E \in EntriesOf(c) /\ g \in [HashKeys -> 0..n]
      /\ B \in [0..n -> Seq(0..(c - 1))] /\ Chained(g, E, B)
  BY DEF Chains
<1> USE <1>1
<1>2. PICK h \in 0..n : h = g[k]
  OBVIOUS
<1>3. DOMAIN B = 0..n /\ B[h] \in Seq(0..(c - 1)) /\ \A b \in 0..n : \A j \in ToSet(B[b]) : j \in UsedIn(E)
  <2>1. ASSUME NEW b \in 0..n, NEW j \in ToSet(B[b]) PROVE j \in UsedIn(E)
    <3>1. j \in 0..(c - 1)
      BY ListedIn
    <3> QED
      BY <3>1, UsedArePairs DEF Chained
  <2> QED
    BY <2>1
<1>4. IsInjective(B[h]) /\ i \notin ToSet(B[h])
  BY <1>3 DEF Chained
<1>5. r \in Seq(0..(c - 1)) /\ ToSet(r) = ToSet(B[h]) \cup {i} /\ IsInjective(r)
  BY <1>2, <1>3, <1>4, PrependSet
<1>6. D = [B EXCEPT ![h] = r]
  BY <1>2 DEF With
<1>7. D \in [0..n -> Seq(0..(c - 1))] /\ D[h] = r /\ \A b \in 0..n : b # h => D[b] = B[b]
  <2>1. r \in Seq(0..(c - 1))
    BY <1>5
  <2>2. D \in [0..n -> Seq(0..(c - 1))]
    BY <1>6, <2>1
  <2>3. D[h] = r /\ \A b \in 0..n : b # h => D[b] = B[b]
    BY <1>3, <1>6
  <2> QED
    BY <2>2, <2>3
<1>8. DOMAIN D = 0..n
  BY <1>3, <1>6
<1>9. \A b \in 0..n : IsInjective(D[b])
  BY <1>3, <1>5, <1>7 DEF Chained
<1>10. ASSUME NEW b \in 0..n, NEW j \in ToSet(D[b]) PROVE F[j] # FreeEntry /\ g[F[j][1]] = b
  <2>1. CASE j = i
    <3>1. b = h
      <4>1. b # h => i \in ToSet(B[b])
        BY <1>7, <2>1
      <4> QED
        BY <1>3, <4>1
    <3> QED
      BY <1>2, <2>1, <3>1
  <2>2. CASE j # i
    <3>1. j \in ToSet(B[b])
      BY <1>5, <1>7, <2>2
    <3>2. j \in UsedIn(E) /\ E[j] # FreeEntry /\ g[E[j][1]] = b
      BY <1>3, <3>1 DEF Chained
    <3> QED
      BY <3>2
  <2> QED
    BY <2>1, <2>2
<1>11. ASSUME NEW j \in UsedIn(F) PROVE j \in ToSet(D[g[F[j][1]]])
  <2>1. CASE j = i
    BY <1>2, <1>5, <1>7, <2>1
  <2>2. CASE j # i
    <3>1. j \in UsedIn(E) /\ F[j] = E[j] /\ E[j][1] \in HashKeys
      BY <2>2, UsedArePairs
    <3>2. PICK b \in 0..n : b = g[E[j][1]]
      BY <3>1
    <3>3. j \in ToSet(B[b])
      BY <3>1, <3>2 DEF Chained
    <3>4. j \in ToSet(D[b])
      BY <1>5, <1>7, <3>3
    <3> QED
      BY <3>1, <3>2, <3>4
  <2> QED
    BY <2>1, <2>2
<1> QED
  BY <1>7, <1>8, <1>9, <1>10, <1>11 DEF Chained, Chains

\* The value of an entry is replaced.
LEMMA UpdateEntry ==
  ASSUME NEW c \in Nat, NEW E \in EntriesOf(c), KeysDiffer(E), NEW i \in UsedIn(E), NEW k, E[i][1] = k,
         NEW e \in HashKeys \X HashValues, e # FreeEntry, e[1] = k,
         NEW F, F = With(E, i, e)
  PROVE  /\ F \in EntriesOf(c) /\ KeysDiffer(F) /\ UsedIn(F) = UsedIn(E) /\ F[i] = e
         /\ \A j \in UsedIn(E) : F[j][1] = E[j][1] /\ (j # i => F[j] = E[j])
<1>1. /\ DOMAIN E = 0..(c - 1) /\ i \in 0..(c - 1) /\ k \in HashKeys
      /\ \A j \in 0..(c - 1) : j \in UsedIn(E) <=> E[j] # FreeEntry
  BY UsedArePairs
<1>2. F \in EntriesOf(c)
  BY <1>1 DEF EntriesOf, With
<1>3. DOMAIN F = 0..(c - 1) /\ F[i] = e /\ \A j \in 0..(c - 1) : j # i => F[j] = E[j]
  BY <1>1 DEF With
<1>4. UsedIn(F) = UsedIn(E)
  BY <1>1, <1>3 DEF UsedIn
<1>5. \A j \in UsedIn(E) : F[j][1] = E[j][1] /\ (j # i => F[j] = E[j])
  BY <1>1, <1>3 DEF UsedIn
<1>6. KeysDiffer(F)
  BY <1>4, <1>5 DEF KeysDiffer
<1> QED
  BY <1>2, <1>3, <1>4, <1>5, <1>6

\* Chains depend on the keys alone.
LEMMA UpdateChained ==
  ASSUME NEW c \in Nat, NEW E \in EntriesOf(c), NEW n \in Nat, NEW g,
         NEW B \in [0..n -> Seq(0..(c - 1))], Chained(g, E, B),
         NEW F \in EntriesOf(c), UsedIn(F) = UsedIn(E), \A j \in UsedIn(E) : F[j][1] = E[j][1]
  PROVE  Chained(g, F, B)
<1>1. ASSUME NEW b \in DOMAIN B, NEW j \in ToSet(B[b]) PROVE F[j] # FreeEntry /\ g[F[j][1]] = b
  <2>1. j \in 0..(c - 1)
    BY DEF ToSet
  <2>2. E[j] # FreeEntry /\ g[E[j][1]] = b
    BY DEF Chained
  <2>3. j \in UsedIn(E)
    BY <2>1, <2>2, UsedArePairs
  <2>4. F[j] # FreeEntry
    BY <2>1, <2>3, UsedArePairs
  <2> QED
    BY <2>2, <2>3, <2>4
<1>2. \A j \in UsedIn(F) : j \in ToSet(B[g[F[j][1]]])
  BY DEF Chained
<1> QED
  BY <1>1, <1>2 DEF Chained

\* An entry is freed.
LEMMA FreedEntry ==
  ASSUME NEW c \in Nat, NEW E \in EntriesOf(c), KeysDiffer(E), NEW i \in UsedIn(E),
         NEW F, F = With(E, i, FreeEntry)
  PROVE  /\ F \in EntriesOf(c) /\ KeysDiffer(F) /\ UsedIn(F) = UsedIn(E) \ {i}
         /\ \A j \in UsedIn(F) : F[j] = E[j]
<1>1. /\ DOMAIN E = 0..(c - 1) /\ i \in 0..(c - 1)
      /\ \A j \in 0..(c - 1) : j \in UsedIn(E) <=> E[j] # FreeEntry
  BY UsedArePairs
<1>2. F \in EntriesOf(c)
  BY <1>1 DEF EntriesOf, With
<1>3. DOMAIN F = 0..(c - 1) /\ F[i] = FreeEntry /\ \A j \in 0..(c - 1) : j # i => F[j] = E[j]
  BY <1>1 DEF With
<1>4. UsedIn(F) = UsedIn(E) \ {i}
  BY <1>1, <1>3 DEF UsedIn
<1>5. \A j \in UsedIn(F) : F[j] = E[j]
  BY <1>1, <1>3, <1>4 DEF UsedIn
<1>6. KeysDiffer(F)
  BY <1>4, <1>5 DEF KeysDiffer
<1> QED
  BY <1>2, <1>4, <1>5, <1>6

\* It leaves the chain of its key.
LEMMA FreedChained ==
  ASSUME NEW c, NEW E, NEW n, NEW g, NEW B, Chains(c, n, g, E, B),
         NEW F \in EntriesOf(c), NEW i \in UsedIn(E), NEW k \in HashKeys, E[i][1] = k,
         UsedIn(F) = UsedIn(E) \ {i}, \A j \in UsedIn(F) : F[j] = E[j],
         NEW D, NEW r, D = With(B, g[k], r), r = RemoveFirst(B[g[k]], i)
  PROVE  Chains(c, n, g, F, D)
<1>1. /\ c \in Nat /\ n \in Nat /\ E \in EntriesOf(c) /\ g \in [HashKeys -> 0..n]
      /\ B \in [0..n -> Seq(0..(c - 1))] /\ Chained(g, E, B)
  BY DEF Chains
<1> USE <1>1
<1>2. PICK h \in 0..n : h = g[k]
  OBVIOUS
<1>3. DOMAIN B = 0..n /\ B[h] \in Seq(0..(c - 1)) /\ IsInjective(B[h])
  BY DEF Chained
<1>4. r \in Seq(0..(c - 1)) /\ ToSet(r) = ToSet(B[h]) \ {i} /\ IsInjective(r)
  BY <1>2, <1>3, RemoveSet
<1>5. D = [B EXCEPT ![h] = r]
  BY <1>2 DEF With
<1>6. D \in [0..n -> Seq(0..(c - 1))] /\ D[h] = r /\ \A b \in 0..n : b # h => D[b] = B[b]
  <2>1. r \in Seq(0..(c - 1))
    BY <1>4
  <2>2. D \in [0..n -> Seq(0..(c - 1))]
    BY <1>5, <2>1
  <2>3. D[h] = r /\ \A b \in 0..n : b # h => D[b] = B[b]
    BY <1>3, <1>5
  <2> QED
    BY <2>2, <2>3
<1>7. DOMAIN D = 0..n
  BY <1>3, <1>5
<1>8. \A b \in 0..n : IsInjective(D[b])
  BY <1>3, <1>4, <1>6 DEF Chained
<1>9. ASSUME NEW b \in 0..n, NEW j \in ToSet(D[b]) PROVE F[j] # FreeEntry /\ g[F[j][1]] = b
  <2>1. j \in ToSet(B[b]) /\ (b = h => j # i)
    BY <1>4, <1>6
  <2>2. E[j] # FreeEntry /\ g[E[j][1]] = b
    BY <1>3, <2>1 DEF Chained
  <2>3. j \in 0..(c - 1)
    BY <2>1 DEF ToSet
  <2>4. j \in UsedIn(E) /\ j # i
    BY <1>2, <2>1, <2>2, <2>3, UsedArePairs
  <2>5. F[j] = E[j]
    BY <2>4
  <2> QED
    BY <2>2, <2>5
<1>10. ASSUME NEW j \in UsedIn(F) PROVE j \in ToSet(D[g[F[j][1]]])
  <2>1. j \in UsedIn(E) /\ j # i /\ F[j] = E[j] /\ E[j][1] \in HashKeys
    BY UsedArePairs
  <2>2. PICK b \in 0..n : b = g[E[j][1]]
    BY <2>1
  <2>3. j \in ToSet(B[b])
    BY <2>1, <2>2 DEF Chained
  <2>4. j \in ToSet(D[b])
    BY <1>4, <1>6, <2>1, <2>3
  <2> QED
    BY <2>1, <2>2, <2>4
<1> QED
  BY <1>6, <1>7, <1>8, <1>9, <1>10 DEF Chained, Chains

\* A table of capacity c, its parts apart.
Sound(c, s, E, B) ==
  /\ c \in Nat \ {0, 1} /\ E \in EntriesOf(c)
  /\ B \in [0..(bucket_num(c) - 1) -> Seq(0..(c - 1))]
  /\ KeysDiffer(E) /\ Chained(HashOf(c), E, B)
  /\ s = Cardinality(UsedIn(E)) /\ s <= bucket_num(c)

TableOf(c, s, E, B) == [capacity |-> c, size |-> s, entries |-> E, buckets |-> B]

\* The parts of a table.
LEMMA TableFields ==
  ASSUME NEW c, NEW s, NEW E, NEW B, NEW t, t = TableOf(c, s, E, B)
  PROVE  t.capacity = c /\ t.size = s /\ t.entries = E /\ t.buckets = B
  BY DEF TableOf

\* The bucket of a key.
LEMMA HashOfKey ==
  ASSUME NEW c \in Nat \ {0, 1}, NEW m, m.capacity = c, NEW k \in HashKeys
  PROVE  BucketOf(m, k) = HashOf(c)[k]
  BY DEF BucketOf, HashOf

\* The invariant of a table says so of its parts.
LEMMA TableParts ==
  ASSUME NEW m, TableSound(m)
  PROVE  /\ m = TableOf(m.capacity, m.size, m.entries, m.buckets)
         /\ Sound(m.capacity, m.size, m.entries, m.buckets)
<1> DEFINE c == m.capacity
           E == m.entries
           B == m.buckets
<1>1. /\ c \in Nat \ {0, 1} /\ E \in EntriesOf(c) /\ m = TableOf(c, m.size, E, B)
      /\ B \in [0..(bucket_num(c) - 1) -> Seq(0..(c - 1))]
  BY DEF TableSound, TableOK, TableOf
<1>2. KeysDiffer(E) /\ m.size = Cardinality(UsedIn(E)) /\ m.size <= bucket_num(c)
  BY DEF TableSound, SizeSound
<1>3. ASSUME NEW i, E[i] # FreeEntry, i \in 0..(c - 1)
      PROVE  BucketOf(m, E[i][1]) = HashOf(c)[E[i][1]]
  <2>1. i \in UsedIn(E)
    BY <1>1, <1>3, UsedArePairs
  <2>2. E[i][1] \in HashKeys
    BY <1>1, <2>1, UsedArePairs
  <2> QED
    BY <1>1, <2>2, HashOfKey
<1>4. \A b \in DOMAIN B : \A i \in ToSet(B[b]) : E[i] # FreeEntry /\ HashOf(c)[E[i][1]] = b
  <2> SUFFICES ASSUME NEW b \in DOMAIN B, NEW i \in ToSet(B[b])
               PROVE  E[i] # FreeEntry /\ HashOf(c)[E[i][1]] = b
    OBVIOUS
  <2>1. E[i] # FreeEntry /\ BucketOf(m, E[i][1]) = b
    BY DEF TableSound, ChainsSound
  <2>2. B[b] \in Seq(0..(c - 1))
    BY <1>1
  <2>3. i \in 0..(c - 1)
    BY <2>2, ListedIn
  <2> QED
    BY <1>3, <2>1, <2>3
<1>5. ASSUME NEW i \in UsedIn(E) PROVE i \in ToSet(B[HashOf(c)[E[i][1]]])
  <2>1. i \in ToSet(B[BucketOf(m, E[i][1])])
    BY DEF TableSound, ChainsSound
  <2>2. i \in 0..(c - 1) /\ E[i] # FreeEntry
    BY <1>1, UsedArePairs
  <2> QED
    BY <1>3, <2>1, <2>2
<1>6. \A b \in DOMAIN B : IsInjective(B[b])
  BY DEF TableSound, ChainsSound
<1> QED
  BY <1>1, <1>2, <1>4, <1>5, <1>6 DEF Sound, Chained

\* And a table of sound parts is sound.
LEMMA TableFromParts ==
  ASSUME NEW c, NEW s, NEW E, NEW B, Sound(c, s, E, B)
  PROVE  TableSound(TableOf(c, s, E, B))
<1> DEFINE m == TableOf(c, s, E, B)
<1>1. /\ c \in Nat \ {0, 1} /\ E \in EntriesOf(c) /\ B \in [0..(bucket_num(c) - 1) -> Seq(0..(c - 1))]
      /\ KeysDiffer(E) /\ Chained(HashOf(c), E, B) /\ s = Cardinality(UsedIn(E)) /\ s <= bucket_num(c)
  BY DEF Sound
<1>2. m.capacity = c /\ m.size = s /\ m.entries = E /\ m.buckets = B
  BY DEF TableOf
<1>3. s \in Nat
  <2>1. UsedIn(E) \subseteq 0..(c - 1)
    BY <1>1, UsedArePairs
  <2>2. IsFiniteSet(0..(c - 1))
    BY <1>1, FS_Interval
  <2>3. IsFiniteSet(UsedIn(E))
    BY <2>1, <2>2, FS_Subset
  <2> QED
    BY <1>1, <2>3, FS_CardinalityType
<1>4. TableOK(m)
  BY <1>1, <1>3 DEF TableOK, TableOf
<1> HIDE DEF m
<1>5. ASSUME NEW i, E[i] # FreeEntry, i \in 0..(c - 1)
      PROVE  BucketOf(m, E[i][1]) = HashOf(c)[E[i][1]]
  <2>1. i \in UsedIn(E)
    BY <1>1, <1>5, UsedArePairs
  <2>2. E[i][1] \in HashKeys
    BY <1>1, <2>1, UsedArePairs
  <2> QED
    BY <1>1, <1>2, <2>2, HashOfKey
<1>6. ASSUME NEW b \in DOMAIN B, NEW i \in ToSet(B[b])
      PROVE  E[i] # FreeEntry /\ BucketOf(m, E[i][1]) = b
  <2>1. E[i] # FreeEntry /\ HashOf(c)[E[i][1]] = b
    BY <1>1 DEF Chained
  <2>2. i \in 0..(c - 1)
    BY <1>1 DEF ToSet
  <2> QED
    BY <1>5, <2>1, <2>2
<1>7. ASSUME NEW i \in UsedIn(E) PROVE i \in ToSet(B[BucketOf(m, E[i][1])])
  <2>1. i \in ToSet(B[HashOf(c)[E[i][1]]])
    BY <1>1 DEF Chained
  <2>2. i \in 0..(c - 1) /\ E[i] # FreeEntry
    BY <1>1, UsedArePairs
  <2> QED
    BY <1>5, <2>1, <2>2
<1>8. \A b \in DOMAIN B : IsInjective(B[b])
  BY <1>1 DEF Chained
<1>9. ChainsSound(m)
  BY <1>2, <1>6, <1>7, <1>8 DEF ChainsSound
<1>10. KeysDiffer(m.entries) /\ SizeSound(m)
  BY <1>1, <1>2 DEF SizeSound
<1>11. TableSound(m)
  BY <1>4, <1>9, <1>10 DEF TableSound
<1> QED
  BY <1>11 DEF m

\* A table that holds fewer entries than its capacity has a free one.
LEMMA FreeEntryLeft ==
  ASSUME NEW c \in Nat, NEW E \in EntriesOf(c), Cardinality(UsedIn(E)) < c
  PROVE  \E i \in 0..(c - 1) : E[i] = FreeEntry
<1>1. SUFFICES ASSUME \A i \in 0..(c - 1) : E[i] # FreeEntry PROVE FALSE
  OBVIOUS
<1>2. UsedIn(E) = 0..(c - 1)
  BY <1>1, UsedArePairs
<1>3. Cardinality(0..(c - 1)) = IF 0 > c - 1 THEN 0 ELSE c - 1 - 0 + 1
  BY FS_Interval
<1> QED
  BY <1>2, <1>3

\* hashmap_put_new's search, around the array, finds one.
LEMMA ProbeFindsFree ==
  ASSUME NEW m, NEW c \in Nat \ {0}, m.capacity = c, m.entries \in EntriesOf(c), NEW k \in HashKeys,
         NEW f \in 0..(c - 1), m.entries[f] = FreeEntry
  PROVE  Probe(m, k) \in 0..(c - 1) /\ m.entries[Probe(m, k)] = FreeEntry
<1> DEFINE at(d) == ((k % c) + d) % c
           Hit(d) == m.entries[at(d)] = FreeEntry /\ \A e \in 0..(d - 1) : m.entries[at(e)] # FreeEntry
<1>1. PICK h \in 0..(c - 1) : h = k % c
  BY HashAssumption
<1>2. \A d \in 0..(c - 1) : at(d) = IF h + d < c THEN h + d ELSE h + d - c
  <2> SUFFICES ASSUME NEW d \in 0..(c - 1) PROVE (h + d) % c = IF h + d < c THEN h + d ELSE h + d - c
    BY <1>1
  <2>1. PICK a \in 0..(2 * c - 1) : a = h + d
    OBVIOUS
  <2>2. a % c = IF a < c THEN a ELSE a - c
    BY WrapAround
  <2> QED
    BY <2>1, <2>2
<1> HIDE DEF at
<1>3. \A d \in 0..(c - 1) : at(d) \in 0..(c - 1)
  BY <1>2
<1> DEFINE S == {d \in 0..(c - 1) : m.entries[at(d)] = FreeEntry}
<1>4. S # {}
  <2>1. CASE f >= h
    <3>1. f - h \in 0..(c - 1) /\ at(f - h) = f
      BY <1>2, <2>1
    <3> QED
      BY <3>1
  <2>2. CASE f < h
    <3>1. f - h + c \in 0..(c - 1) /\ at(f - h + c) = f
      BY <1>2, <2>2
    <3> QED
      BY <3>1
  <2> QED
    BY <2>1, <2>2
<1>5. PICK d \in S : \A e \in S : d <= e
  <2>1. S \in SUBSET Nat
    OBVIOUS
  <2> HIDE DEF S
  <2> QED
    BY <1>4, <2>1, LeastNatural
<1>6. d \in 0..(c - 1) /\ Hit(d)
  <2>1. d \in 0..(c - 1) /\ m.entries[at(d)] = FreeEntry
    BY <1>5
  <2>2. ASSUME NEW e \in 0..(d - 1) PROVE m.entries[at(e)] # FreeEntry
    <3>1. e \in 0..(c - 1) /\ ~(d <= e)
      BY <2>1
    <3> QED
      BY <1>5, <3>1
  <2> QED
    BY <2>1, <2>2
<1>7. PICK x : x = CHOOSE y \in 0..(c - 1) : Hit(y)
  OBVIOUS
<1>8. x \in 0..(c - 1) /\ Hit(x)
  <2> HIDE DEF Hit
  <2> QED
    BY <1>6, <1>7
<1>9. Probe(m, k) = at(x)
  BY <1>7 DEF Probe, at
<1> QED
  BY <1>3, <1>8, <1>9

\* The loops of hashmap_put, hashmap_get and hashmap_remove find the used
\* entries with the key: nothing is in another bucket.
LEMMA FindFinds ==
  ASSUME NEW m, TableSound(m), NEW k \in HashKeys
  PROVE  Find(m, k) = {i \in UsedIn(m.entries) : m.entries[i][1] = k}
<1> DEFINE c == m.capacity
           E == m.entries
           B == m.buckets
<1>1. /\ c \in Nat \ {0, 1} /\ E \in EntriesOf(c) /\ Chained(HashOf(c), E, B)
      /\ B \in [0..(bucket_num(c) - 1) -> Seq(0..(c - 1))]
  BY TableParts DEF Sound
<1>2. PICK b \in 0..(bucket_num(c) - 1) : b = HashOf(c)[k]
  BY <1>1, BucketNumber
<1>3. Find(m, k) = {i \in ToSet(B[b]) : E[i][1] = k}
  BY <1>1, <1>2, HashOfKey DEF Find
<1>4. B[b] \in Seq(0..(c - 1)) /\ b \in DOMAIN B
  BY <1>1
<1>5. ASSUME NEW i \in ToSet(B[b]) PROVE i \in UsedIn(E)
  <2>1. i \in 0..(c - 1)
    BY <1>4, ListedIn
  <2>2. E[i] # FreeEntry
    BY <1>1, <1>4 DEF Chained
  <2> QED
    BY <1>1, <2>1, <2>2, UsedArePairs
<1>6. ASSUME NEW i \in UsedIn(E), E[i][1] = k PROVE i \in ToSet(B[b])
  BY <1>1, <1>2, <1>6 DEF Chained
<1> QED
  BY <1>3, <1>5, <1>6

\* hashmap_alloc: an empty table is sound.
LEMMA AllocSound ==
  ASSUME NEW c \in Nat \ {0, 1}
  PROVE  /\ TableSound(hashmap_alloc(c)) /\ hashmap_alloc(c).capacity = c /\ hashmap_alloc(c).size = 0
         /\ UsedIn(hashmap_alloc(c).entries) = {}
<1> DEFINE E == [i \in 0..(c - 1) |-> FreeEntry]
           B == [b \in 0..(bucket_num(c) - 1) |-> <<>>]
<1>1. hashmap_alloc(c) = TableOf(c, 0, E, B)
  BY DEF hashmap_alloc, TableOf
<1>2. E \in EntriesOf(c) /\ UsedIn(E) = {}
  BY DEF EntriesOf, UsedIn
<1>3. B \in [0..(bucket_num(c) - 1) -> Seq(0..(c - 1))]
  OBVIOUS
<1>4. \A b \in DOMAIN B : IsInjective(B[b]) /\ ToSet(B[b]) = {}
  BY DEF IsInjective, ToSet
<1> HIDE DEF E, B
<1>5. KeysDiffer(E) /\ Chained(HashOf(c), E, B)
  BY <1>2, <1>4 DEF KeysDiffer, Chained
<1>6. Cardinality(UsedIn(E)) = 0
  BY <1>2, FS_EmptySet
<1>7. Sound(c, 0, E, B)
  BY <1>2, <1>3, <1>5, <1>6, BucketNumber DEF Sound
<1>8. TableSound(TableOf(c, 0, E, B))
  BY <1>7, TableFromParts
<1> QED
  BY <1>1, <1>2, <1>8 DEF TableOf

\* A table with room takes a key it does not hold.
LEMMA InsertSound ==
  ASSUME NEW m, TableSound(m), m.size < bucket_num(m.capacity), NEW k \in HashKeys, NEW v \in HashValues,
         \A j \in UsedIn(m.entries) : m.entries[j][1] # k, NEW t, t = Insert(m, k, v)
  PROVE  /\ TableSound(t) /\ t.capacity = m.capacity /\ t.size = m.size + 1
         /\ \E i \in UsedIn(t.entries) :
              /\ UsedIn(t.entries) = UsedIn(m.entries) \cup {i} /\ t.entries[i] = <<k, v>>
              /\ \A j \in UsedIn(m.entries) : t.entries[j] = m.entries[j]
<1> DEFINE i == Probe(m, k)
<1>1. PICK c, s, E, B : c = m.capacity /\ s = m.size /\ E = m.entries /\ B = m.buckets
  OBVIOUS
<1>2. /\ m = TableOf(c, s, E, B)
      /\ c \in Nat \ {0, 1} /\ E \in EntriesOf(c) /\ B \in [0..(bucket_num(c) - 1) -> Seq(0..(c - 1))]
      /\ KeysDiffer(E) /\ Chained(HashOf(c), E, B) /\ s = Cardinality(UsedIn(E)) /\ s <= bucket_num(c)
  BY <1>1, TableParts DEF Sound
<1>3. PICK n \in Nat : bucket_num(c) = n + 1 /\ n + 1 < c /\ 0..(bucket_num(c) - 1) = 0..n
  <2>1. PICK x \in Nat : x = bucket_num(c) /\ x \in 1..(c - 1)
    BY <1>2, BucketNumber
  <2>2. x - 1 \in Nat /\ x = (x - 1) + 1 /\ x < c
    BY <1>2, <2>1
  <2> QED
    BY <2>1, <2>2
<1>4. UsedIn(E) \subseteq 0..(c - 1) /\ IsFiniteSet(UsedIn(E)) /\ s \in Nat
  <2>1. UsedIn(E) \subseteq 0..(c - 1)
    BY <1>2, UsedArePairs
  <2>2. IsFiniteSet(0..(c - 1))
    <3>1. 0 \in Int /\ c - 1 \in Int
      BY <1>2
    <3> QED
      BY <3>1, FS_Interval
  <2>3. IsFiniteSet(UsedIn(E))
    BY <2>1, <2>2, FS_Subset
  <2> QED
    BY <1>2, <2>1, <2>3, FS_CardinalityType
<1>5. s < bucket_num(c) /\ s < c
  BY <1>1, <1>2, <1>3, <1>4
<1>6. \E f \in 0..(c - 1) : E[f] = FreeEntry
  BY <1>2, <1>5, FreeEntryLeft
<1>7. i \in 0..(c - 1) /\ E[i] = FreeEntry
  BY <1>1, <1>2, <1>6, ProbeFindsFree
<1> HIDE DEF i
<1>8. PICK g \in [HashKeys -> 0..n] : g = HashOf(c)
  BY <1>2, <1>3, BucketNumber
<1>9. BucketOf(m, k) = g[k]
  BY <1>1, <1>2, <1>8, HashOfKey
<1>10. PICK e \in HashKeys \X HashValues : e = <<k, v>> /\ e # FreeEntry /\ e[1] = k
  BY PairIsUsed
<1>11. PICK F : F = With(E, i, e)
  OBVIOUS
<1>12. PICK r : r = <<i>> \o B[g[k]]
  OBVIOUS
<1>13. PICK D : D = With(B, g[k], r)
  OBVIOUS
<1>14. t = TableOf(c, s + 1, F, D)
  <2>1. t = [m EXCEPT !.size = @ + 1, !.entries[i] = <<k, v>>, !.buckets[g[k]] = <<i>> \o @]
    BY <1>9 DEF Insert, i
  <2> QED
    BY <1>2, <1>11, <1>13, <1>10, <1>12, <2>1 DEF TableOf, With
<1>15. /\ F \in EntriesOf(c) /\ KeysDiffer(F) /\ UsedIn(F) = UsedIn(E) \cup {i} /\ i \notin UsedIn(E)
       /\ F[i] = e /\ \A j \in UsedIn(E) : F[j] = E[j]
  <2>1. \A j \in UsedIn(E) : E[j][1] # k
    BY <1>1
  <2>2. c \in Nat /\ E \in EntriesOf(c) /\ KeysDiffer(E)
    BY <1>2
  <2> QED
    BY <1>7, <1>11, <1>10, <2>1, <2>2, InsertEntry
<1>16. F[i][1] = k /\ F[i] # FreeEntry
  BY <1>15, <1>10
<1>17. D \in [0..n -> Seq(0..(c - 1))] /\ Chained(g, F, D)
  <2>1. Chains(c, n, g, E, B)
    BY <1>2, <1>3, <1>8 DEF Chains
  <2>2. Chains(c, n, g, F, D)
    BY <1>7, <1>13, <1>15, <1>16, <1>12, <2>1, InsertChained
  <2> QED
    BY <2>2 DEF Chains
<1>18. Cardinality(UsedIn(F)) = s + 1
  <2>1. PICK U : U = UsedIn(E) /\ IsFiniteSet(U) /\ i \notin U /\ UsedIn(F) = U \cup {i} /\ s = Cardinality(U)
    BY <1>2, <1>4, <1>15
  <2>2. Cardinality(U \cup {i}) = Cardinality(U) + 1
    BY <2>1, FS_AddElement
  <2> QED
    BY <2>1, <2>2
<1>19. s + 1 <= bucket_num(c)
  BY <1>3, <1>4, <1>5
<1>20. Sound(c, s + 1, F, D)
  BY <1>2, <1>3, <1>8, <1>15, <1>17, <1>18, <1>19 DEF Sound
<1>21. TableSound(TableOf(c, s + 1, F, D))
  BY <1>20, TableFromParts
<1>22. t.capacity = c /\ t.size = s + 1 /\ t.entries = F /\ TableSound(t)
  BY <1>14, <1>21, TableFields
<1>23. i \in UsedIn(F)
  BY <1>15
<1> QED
  BY <1>1, <1>15, <1>22, <1>23, <1>10

Updated(m, i, k, v) == [m EXCEPT !.entries[i] = <<k, v>>]
Removed(m, i, k) ==
  [m EXCEPT !.size = @ - 1, !.entries[i] = FreeEntry, !.buckets[BucketOf(m, k)] = RemoveFirst(@, i)]

\* hashmap_put replaces a value.
LEMMA UpdateSound ==
  ASSUME NEW m, TableSound(m), NEW v \in HashValues, NEW i \in UsedIn(m.entries), NEW k, m.entries[i][1] = k,
         NEW t, t = Updated(m, i, k, v), NEW e, e = <<k, v>>
  PROVE  /\ TableSound(t) /\ UsedIn(t.entries) = UsedIn(m.entries) /\ t.entries[i] = e
         /\ \A j \in UsedIn(m.entries) : j # i => t.entries[j] = m.entries[j]
<1>1. PICK c, s, E, B : c = m.capacity /\ s = m.size /\ E = m.entries /\ B = m.buckets
  OBVIOUS
<1>2. /\ m = TableOf(c, s, E, B)
      /\ c \in Nat \ {0, 1} /\ E \in EntriesOf(c) /\ B \in [0..(bucket_num(c) - 1) -> Seq(0..(c - 1))]
      /\ KeysDiffer(E) /\ Chained(HashOf(c), E, B) /\ s = Cardinality(UsedIn(E)) /\ s <= bucket_num(c)
  BY <1>1, TableParts DEF Sound
<1>3. PICK n \in Nat : bucket_num(c) = n + 1 /\ 0..(bucket_num(c) - 1) = 0..n
  <2>1. PICK x \in Nat : x = bucket_num(c) /\ x \in 1..(c - 1)
    BY <1>2, BucketNumber
  <2>2. x - 1 \in Nat /\ x = (x - 1) + 1
    BY <2>1
  <2> QED
    BY <2>1, <2>2
<1>4. e \in HashKeys \X HashValues /\ e # FreeEntry /\ e[1] = k
  <2>1. k \in HashKeys
    BY <1>1, <1>2, UsedArePairs
  <2> QED
    BY <2>1, PairIsUsed
<1>5. PICK F : F = With(E, i, e)
  OBVIOUS
<1>6. t = TableOf(c, s, F, B)
  BY <1>2, <1>5, <1>4 DEF TableOf, With, Updated
<1>7. /\ F \in EntriesOf(c) /\ KeysDiffer(F) /\ UsedIn(F) = UsedIn(E) /\ F[i] = e
      /\ \A j \in UsedIn(E) : F[j][1] = E[j][1] /\ (j # i => F[j] = E[j])
  <2>1. i \in UsedIn(E) /\ E[i][1] = k
    BY <1>1
  <2>2. c \in Nat /\ E \in EntriesOf(c) /\ KeysDiffer(E)
    BY <1>2
  <2> QED
    BY <1>5, <1>4, <2>1, <2>2, UpdateEntry
<1>8. Chained(HashOf(c), F, B)
  <2>1. B \in [0..n -> Seq(0..(c - 1))]
    BY <1>2, <1>3
  <2> QED
    BY <1>2, <1>7, <2>1, UpdateChained
<1>9. Sound(c, s, F, B)
  BY <1>2, <1>7, <1>8 DEF Sound
<1>10. TableSound(TableOf(c, s, F, B))
  BY <1>9, TableFromParts
<1>11. t.entries = F
  BY <1>6, TableFields
<1> QED
  BY <1>1, <1>6, <1>7, <1>10, <1>11, <1>4

\* hashmap_remove frees an entry.
LEMMA RemoveSound ==
  ASSUME NEW m, TableSound(m), NEW i \in UsedIn(m.entries), NEW k, m.entries[i][1] = k,
         NEW t, t = Removed(m, i, k)
  PROVE  /\ TableSound(t) /\ UsedIn(t.entries) = UsedIn(m.entries) \ {i}
         /\ \A j \in UsedIn(t.entries) : t.entries[j] = m.entries[j]
<1>1. PICK c, s, E, B : c = m.capacity /\ s = m.size /\ E = m.entries /\ B = m.buckets
  OBVIOUS
<1>2. /\ m = TableOf(c, s, E, B)
      /\ c \in Nat \ {0, 1} /\ E \in EntriesOf(c) /\ B \in [0..(bucket_num(c) - 1) -> Seq(0..(c - 1))]
      /\ KeysDiffer(E) /\ Chained(HashOf(c), E, B) /\ s = Cardinality(UsedIn(E)) /\ s <= bucket_num(c)
  BY <1>1, TableParts DEF Sound
<1>3. PICK n \in Nat : bucket_num(c) = n + 1 /\ 0..(bucket_num(c) - 1) = 0..n
  <2>1. PICK x \in Nat : x = bucket_num(c) /\ x \in 1..(c - 1)
    BY <1>2, BucketNumber
  <2>2. x - 1 \in Nat /\ x = (x - 1) + 1
    BY <2>1
  <2> QED
    BY <2>1, <2>2
<1>4. IsFiniteSet(UsedIn(E)) /\ s \in Nat
  <2>1. UsedIn(E) \subseteq 0..(c - 1)
    BY <1>2, UsedArePairs
  <2>2. IsFiniteSet(0..(c - 1))
    <3>1. 0 \in Int /\ c - 1 \in Int
      BY <1>2
    <3> QED
      BY <3>1, FS_Interval
  <2>3. IsFiniteSet(UsedIn(E))
    BY <2>1, <2>2, FS_Subset
  <2> QED
    BY <1>2, <2>3, FS_CardinalityType
<1>5. i \in UsedIn(E) /\ E[i][1] = k /\ k \in HashKeys
  BY <1>1, <1>2, UsedArePairs
<1>6. PICK g \in [HashKeys -> 0..n] : g = HashOf(c)
  BY <1>2, <1>3, BucketNumber
<1>7. BucketOf(m, k) = g[k]
  BY <1>1, <1>2, <1>5, <1>6, HashOfKey
<1>8. PICK F : F = With(E, i, FreeEntry)
  OBVIOUS
<1>9. PICK r : r = RemoveFirst(B[g[k]], i)
  OBVIOUS
<1>10. PICK D : D = With(B, g[k], r)
  OBVIOUS
<1>11. t = [m EXCEPT !.size = @ - 1, !.entries[i] = FreeEntry, !.buckets[g[k]] = RemoveFirst(@, i)]
  BY <1>7 DEF Removed
<1>12. t = TableOf(c, s - 1, F, D)
  BY <1>2, <1>8, <1>10, <1>11, <1>9 DEF TableOf, With
<1>13. /\ F \in EntriesOf(c) /\ KeysDiffer(F) /\ UsedIn(F) = UsedIn(E) \ {i}
       /\ \A j \in UsedIn(F) : F[j] = E[j]
  <2>1. c \in Nat /\ E \in EntriesOf(c) /\ KeysDiffer(E)
    BY <1>2
  <2> QED
    BY <1>5, <1>8, <2>1, FreedEntry
<1>14. D \in [0..n -> Seq(0..(c - 1))] /\ Chained(g, F, D)
  <2>1. Chains(c, n, g, E, B)
    BY <1>2, <1>3, <1>6 DEF Chains
  <2>2. Chains(c, n, g, F, D)
    BY <1>5, <1>10, <1>13, <1>9, <2>1, FreedChained
  <2> QED
    BY <2>2 DEF Chains
<1>15. Cardinality(UsedIn(F)) = s - 1
  <2>1. PICK U : U = UsedIn(E) /\ IsFiniteSet(U) /\ i \in U /\ UsedIn(F) = U \ {i} /\ s = Cardinality(U)
    BY <1>2, <1>4, <1>5, <1>13
  <2>2. Cardinality(U \ {i}) = Cardinality(U) - 1
    BY <2>1, FS_RemoveElement
  <2> QED
    BY <2>1, <2>2
<1>16. s - 1 <= bucket_num(c)
  BY <1>2, <1>3, <1>4
<1>17. Sound(c, s - 1, F, D)
  BY <1>2, <1>3, <1>6, <1>13, <1>14, <1>15, <1>16 DEF Sound
<1>18. TableSound(t)
  BY <1>12, <1>17, TableFromParts
<1>19. t.entries = F
  BY <1>12, TableFields
<1> QED
  BY <1>1, <1>13, <1>18, <1>19

\* The entries of a table that are used.
PairsIn(E) == {E[i] : i \in UsedIn(E)}

\* GrowthSound, of the table m, the pair p, the snapshot S and the position x.
Growing(m, p, S, x) ==
  /\ p \in HashKeys \X HashValues
  /\ m.capacity \div 2 > 1 /\ m.capacity = 2 * (m.capacity \div 2)
  /\ S \in EntriesOf(m.capacity \div 2) /\ x \in 0..(m.capacity \div 2)
  /\ KeysDiffer(S)
  /\ \A i \in UsedIn(S) : S[i][1] # p[1]
  /\ m.size <= x
  /\ \A j \in UsedIn(m.entries) : \E i \in UsedIn(S) : i < x /\ S[i] = m.entries[j]
  /\ \A i \in UsedIn(S) : i < x => \E j \in UsedIn(m.entries) : m.entries[j] = S[i]

\* The capacity of a table that grows is twice that of the snapshot, whose
\* entries fit into its buckets.
LEMMA GrowingSizes ==
  ASSUME NEW m, TableSound(m), NEW p, NEW S, NEW x, Growing(m, p, S, x)
  PROVE  \E c \in Nat \ {0, 1} :
           /\ m.capacity = 2 * c /\ m.capacity \div 2 = c /\ S \in EntriesOf(c) /\ x \in 0..c
           /\ DOMAIN S = 0..(c - 1) /\ UsedIn(S) \subseteq 0..(c - 1)
           /\ m.size \in Nat /\ m.size < bucket_num(m.capacity)
<1>1. PICK c : c = m.capacity \div 2
  OBVIOUS
<1>2. c > 1 /\ m.capacity = 2 * c /\ S \in EntriesOf(c) /\ x \in 0..c /\ m.size <= x
  BY <1>1 DEF Growing
<1>3. m.capacity \in Nat /\ m.size \in Nat
  BY DEF TableSound, TableOK
<1>4. c \in Nat \ {0, 1}
  BY <1>1, <1>2, <1>3
<1>5. c < bucket_num(m.capacity) /\ bucket_num(m.capacity) \in Nat
  BY <1>2, <1>4, BucketNumber
<1>6. m.size < bucket_num(m.capacity)
  BY <1>2, <1>3, <1>4, <1>5
<1>7. DOMAIN S = 0..(c - 1) /\ UsedIn(S) \subseteq 0..(c - 1)
  BY <1>2, <1>4, UsedArePairs
<1> QED
  BY <1>1, <1>2, <1>3, <1>4, <1>6, <1>7

\* hashmap_put_new starts to grow: the larger table is empty, and the key is
\* none of the snapshot's.
LEMMA GrowthStarts ==
  ASSUME NEW m, TableSound(m), NEW p \in HashKeys \X HashValues,
         \A j \in UsedIn(m.entries) : m.entries[j][1] # p[1],
         NEW t, t = hashmap_alloc(2 * m.capacity)
  PROVE  TableSound(t) /\ Growing(t, p, m.entries, 0)
<1>1. PICK c, E : c = m.capacity /\ E = m.entries
  OBVIOUS
<1>2. c \in Nat \ {0, 1} /\ E \in EntriesOf(c) /\ KeysDiffer(E)
  BY <1>1, TableParts DEF Sound
<1>3. 2 * c \in Nat \ {0, 1} /\ (2 * c) \div 2 = c
  BY <1>2, BucketNumber
<1>4. TableSound(t) /\ t.capacity = 2 * c /\ t.size = 0 /\ UsedIn(t.entries) = {}
  BY <1>1, <1>3, AllocSound
<1>5. t.capacity \div 2 = c /\ c > 1 /\ 0 \in 0..c
  BY <1>2, <1>3, <1>4
<1>6. UsedIn(E) \subseteq 0..(c - 1)
  BY <1>2, UsedArePairs
<1>7. \A i \in UsedIn(E) : ~(i < 0)
  BY <1>2, <1>6
<1>8. Growing(t, p, E, 0)
  BY <1>1, <1>2, <1>4, <1>5, <1>7 DEF Growing
<1> QED
  BY <1>1, <1>4, <1>8

\* The key hashmap_grow puts next is not in the table, which has room.
LEMMA GrowthHasRoom ==
  ASSUME NEW m, TableSound(m), NEW p, NEW S, NEW x, Growing(m, p, S, x), x \in UsedIn(S)
  PROVE  /\ \A j \in UsedIn(m.entries) : m.entries[j][1] # S[x][1]
         /\ Find(m, S[x][1]) = {} /\ m.size < bucket_num(m.capacity)
         /\ S[x][1] \in HashKeys /\ S[x][2] \in HashValues /\ S[x] = <<S[x][1], S[x][2]>>
<1>1. PICK c \in Nat \ {0, 1} : S \in EntriesOf(c) /\ x \in 0..c /\ UsedIn(S) \subseteq 0..(c - 1)
                                /\ m.size < bucket_num(m.capacity)
  BY GrowingSizes
<1>2. S[x] \in HashKeys \X HashValues /\ S[x][1] \in HashKeys /\ S[x][2] \in HashValues
  BY <1>1, UsedArePairs
<1>3. S[x] = <<S[x][1], S[x][2]>>
  BY <1>2
<1>4. ASSUME NEW j \in UsedIn(m.entries) PROVE m.entries[j][1] # S[x][1]
  <2>1. PICK i \in UsedIn(S) : i < x /\ S[i] = m.entries[j]
    BY DEF Growing
  <2>2. i # x
    BY <1>1, <2>1
  <2>3. S[i][1] # S[x][1]
    BY <2>2 DEF Growing, KeysDiffer
  <2> QED
    BY <2>1, <2>3
<1>5. Find(m, S[x][1]) = {}
  BY <1>2, <1>4, FindFinds
<1> QED
  BY <1>1, <1>2, <1>3, <1>4, <1>5

\* hashmap_grow passes over a free entry.
LEMMA GrowthSkips ==
  ASSUME NEW m, TableSound(m), NEW p, NEW S, NEW x, Growing(m, p, S, x), x \in DOMAIN S,
         S[x] = FreeEntry
  PROVE  Growing(m, p, S, x + 1)
<1>1. PICK c \in Nat \ {0, 1} : /\ m.capacity \div 2 = c /\ S \in EntriesOf(c) /\ DOMAIN S = 0..(c - 1)
                                /\ UsedIn(S) \subseteq 0..(c - 1) /\ m.size \in Nat
  BY GrowingSizes
<1>2. x \in 0..(c - 1) /\ x + 1 \in 0..c /\ x \notin UsedIn(S)
  BY <1>1, UsedArePairs
<1>3. \A i \in UsedIn(S) : i < x + 1 <=> i < x
  <2>1. \A i \in 0..(c - 1) : i # x => (i < x + 1 <=> i < x)
    BY <1>1, <1>2
  <2> QED
    BY <1>1, <1>2, <2>1
<1>4. m.size <= x + 1
  <2>1. m.size <= x
    BY DEF Growing
  <2> QED
    BY <1>1, <1>2, <2>1
<1> QED
  BY <1>1, <1>2, <1>3, <1>4 DEF Growing

\* hashmap_grow copies an entry.
LEMMA GrowthCopies ==
  ASSUME NEW m, TableSound(m), NEW p, NEW S, NEW x, Growing(m, p, S, x), x \in DOMAIN S,
         S[x] # FreeEntry, NEW t, t = Insert(m, S[x][1], S[x][2])
  PROVE  TableSound(t) /\ Growing(t, p, S, x + 1)
<1>1. PICK c \in Nat \ {0, 1} : /\ m.capacity = 2 * c /\ m.capacity \div 2 = c /\ S \in EntriesOf(c)
                                /\ DOMAIN S = 0..(c - 1) /\ UsedIn(S) \subseteq 0..(c - 1) /\ m.size \in Nat
  BY GrowingSizes
<1>2. x \in 0..(c - 1) /\ x + 1 \in 0..c /\ x \in UsedIn(S)
  BY <1>1, UsedArePairs
<1>3. /\ \A j \in UsedIn(m.entries) : m.entries[j][1] # S[x][1]
      /\ m.size < bucket_num(m.capacity)
      /\ S[x][1] \in HashKeys /\ S[x][2] \in HashValues /\ S[x] = <<S[x][1], S[x][2]>>
  <2>1. \A j \in UsedIn(m.entries) : m.entries[j][1] # S[x][1]
    BY <1>2, GrowthHasRoom
  <2>2. m.size < bucket_num(m.capacity) /\ S[x][1] \in HashKeys /\ S[x][2] \in HashValues
    BY <1>2, GrowthHasRoom
  <2>3. S[x] = <<S[x][1], S[x][2]>>
    <3>1. S[x] \in HashKeys \X HashValues
      BY <1>1, <1>2, UsedArePairs
    <3> QED
      BY <3>1
  <2> QED
    BY <2>1, <2>2, <2>3
<1>4. /\ TableSound(t) /\ t.capacity = m.capacity /\ t.size = m.size + 1
      /\ \E i \in UsedIn(t.entries) :
           /\ UsedIn(t.entries) = UsedIn(m.entries) \cup {i} /\ t.entries[i] = S[x]
           /\ \A j \in UsedIn(m.entries) : t.entries[j] = m.entries[j]
  BY <1>3, InsertSound
<1>5. PICK y \in UsedIn(t.entries) :
           /\ UsedIn(t.entries) = UsedIn(m.entries) \cup {y} /\ t.entries[y] = S[x]
           /\ \A j \in UsedIn(m.entries) : t.entries[j] = m.entries[j]
  BY <1>4
<1>6. t.size <= x + 1
  <2>1. m.size <= x
    BY DEF Growing
  <2> QED
    BY <1>1, <1>2, <1>4, <2>1
<1>7. ASSUME NEW j \in UsedIn(t.entries) PROVE \E i \in UsedIn(S) : i < x + 1 /\ S[i] = t.entries[j]
  <2>1. CASE j = y
    <3>1. x < x + 1
      BY <1>2
    <3> QED
      BY <1>2, <1>5, <2>1, <3>1
  <2>2. CASE j # y
    <3>1. j \in UsedIn(m.entries) /\ t.entries[j] = m.entries[j]
      BY <1>5, <2>2
    <3>2. PICK i \in UsedIn(S) : i < x /\ S[i] = m.entries[j]
      BY <3>1 DEF Growing
    <3>3. i < x + 1
      BY <1>1, <1>2, <3>2
    <3> QED
      BY <3>1, <3>2, <3>3
  <2> QED
    BY <2>1, <2>2
<1>8. ASSUME NEW i \in UsedIn(S), i < x + 1 PROVE \E j \in UsedIn(t.entries) : t.entries[j] = S[i]
  <2>1. CASE i = x
    BY <1>5, <2>1
  <2>2. CASE i # x
    <3>1. i < x
      BY <1>1, <1>2, <1>8, <2>2
    <3>2. PICK j \in UsedIn(m.entries) : m.entries[j] = S[i]
      BY <3>1 DEF Growing
    <3>3. j \in UsedIn(t.entries) /\ t.entries[j] = m.entries[j]
      BY <1>5
    <3> QED
      BY <3>2, <3>3
  <2> QED
    BY <2>1, <2>2
<1>9. Growing(t, p, S, x + 1)
  BY <1>1, <1>2, <1>4, <1>6, <1>7, <1>8 DEF Growing
<1> QED
  BY <1>4, <1>9

\* When the last entry has been copied the table holds what it held, and it has
\* room for the pair that is to be put.
LEMMA GrowthEnds ==
  ASSUME NEW m, TableSound(m), NEW p, NEW S, NEW x, Growing(m, p, S, x), x \notin DOMAIN S
  PROVE  /\ \A j \in UsedIn(m.entries) : m.entries[j][1] # p[1]
         /\ m.size < bucket_num(m.capacity)
         /\ p[1] \in HashKeys /\ p[2] \in HashValues /\ p = <<p[1], p[2]>>
         /\ PairsIn(m.entries) = PairsIn(S)
<1>1. PICK c \in Nat \ {0, 1} : /\ x \in 0..c /\ DOMAIN S = 0..(c - 1) /\ UsedIn(S) \subseteq 0..(c - 1)
                                /\ m.size < bucket_num(m.capacity)
  BY GrowingSizes
<1>2. x = c
  BY <1>1
<1>3. \A i \in UsedIn(S) : i < x
  BY <1>1, <1>2
<1>4. \A j \in UsedIn(m.entries) : \E i \in UsedIn(S) : S[i] = m.entries[j]
  BY DEF Growing
<1>5. \A i \in UsedIn(S) : \E j \in UsedIn(m.entries) : m.entries[j] = S[i]
  BY <1>3 DEF Growing
<1>6. PairsIn(m.entries) = PairsIn(S)
  BY <1>4, <1>5 DEF PairsIn
<1>7. p \in HashKeys \X HashValues /\ \A i \in UsedIn(S) : S[i][1] # p[1]
  BY DEF Growing
<1> QED
  BY <1>1, <1>4, <1>6, <1>7

\* The invariant, of the values of the variables.
MapSound(m, p, S, x) == TableSound(m) /\ (p # FreeEntry => Growing(m, p, S, x))

\* The invariant, in terms of the table's parts.
LEMMA HashMapInvIs == HashMapInv <=> MapSound(map, pending, snapshot, copied)
  BY DEF HashMapInv, MapSound, Growing, GrowthSound, Idle

\* The operations of a table that does not grow, on its pairs P: which pairs
\* there are afterwards.
KeyIs(P, k) == {e \in P : e[1] = k}

\* hashmap_put_new adds a pair, or starts to grow and keeps the pairs in the
\* snapshot.
LEMMA PutNewSound ==
  ASSUME TableSound(map), NEW k \in HashKeys, NEW v \in HashValues,
         \A j \in UsedIn(map.entries) : map.entries[j][1] # k, hashmap_put_new(k, v)
  PROVE  /\ MapSound(map', pending', snapshot', copied')
         /\ \/ pending' = FreeEntry /\ PairsIn(map'.entries) = PairsIn(map.entries) \cup {<<k, v>>}
            \/ /\ pending' # FreeEntry /\ snapshot' = map.entries
               /\ ~(map.size < bucket_num(map.capacity))
<1>1. CASE map.size < bucket_num(map.capacity)
  <2>1. map' = Insert(map, k, v) /\ pending' = FreeEntry
    BY <1>1 DEF hashmap_put_new
  <2>2. PICK t : t = Insert(map, k, v)
    OBVIOUS
  <2>3. /\ TableSound(t)
        /\ \E i \in UsedIn(t.entries) :
             /\ UsedIn(t.entries) = UsedIn(map.entries) \cup {i} /\ t.entries[i] = <<k, v>>
             /\ \A j \in UsedIn(map.entries) : t.entries[j] = map.entries[j]
    BY <1>1, <2>2, InsertSound
  <2>4. PairsIn(t.entries) = PairsIn(map.entries) \cup {<<k, v>>}
    <3>1. PICK i \in UsedIn(t.entries) :
             /\ UsedIn(t.entries) = UsedIn(map.entries) \cup {i} /\ t.entries[i] = <<k, v>>
             /\ \A j \in UsedIn(map.entries) : t.entries[j] = map.entries[j]
      BY <2>3
    <3>2. PICK e : e = <<k, v>>
      OBVIOUS
    <3>3. PairsIn(t.entries) = PairsIn(map.entries) \cup {e}
      BY <3>1, <3>2 DEF PairsIn
    <3> QED
      BY <3>2, <3>3
  <2>5. MapSound(t, FreeEntry, snapshot', copied')
    BY <2>3 DEF MapSound
  <2> QED
    BY <2>1, <2>2, <2>4, <2>5
<1>2. CASE ~(map.size < bucket_num(map.capacity))
  <2>1. /\ map' = hashmap_alloc(2 * map.capacity) /\ pending' = <<k, v>>
        /\ snapshot' = map.entries /\ copied' = 0
    BY <1>2 DEF hashmap_put_new
  <2>2. PICK t : t = hashmap_alloc(2 * map.capacity)
    OBVIOUS
  <2>3. PICK p \in HashKeys \X HashValues : p = <<k, v>> /\ p # FreeEntry /\ p[1] = k
    BY PairIsUsed
  <2>4. TableSound(t) /\ Growing(t, p, map.entries, 0)
    BY <2>2, <2>3, GrowthStarts
  <2>5. MapSound(t, p, map.entries, 0)
    BY <2>4 DEF MapSound
  <2>6. MapSound(map', pending', snapshot', copied')
    BY <2>1, <2>2, <2>3, <2>5
  <2> QED
    BY <1>2, <2>1, <2>3, <2>6
<1> QED
  BY <1>1, <1>2

\* hashmap_put of a key the table holds.
LEMMA PutOldSound ==
  ASSUME TableSound(map), pending = FreeEntry, NEW k \in HashKeys, NEW v \in HashValues,
         NEW i \in Find(map, k), map' = Updated(map, i, k, v),
         UNCHANGED <<pending, snapshot, copied>>
  PROVE  /\ MapSound(map', pending', snapshot', copied')
         /\ PairsIn(map'.entries) = (PairsIn(map.entries) \ KeyIs(PairsIn(map.entries), k)) \cup {<<k, v>>}
<1>1. i \in UsedIn(map.entries) /\ map.entries[i][1] = k
  BY FindFinds
<1>2. PICK t : t = Updated(map, i, k, v)
  OBVIOUS
<1>3. map' = t
  BY <1>2
<1>4. PICK e : e = <<k, v>>
  OBVIOUS
<1>5. /\ TableSound(t) /\ UsedIn(t.entries) = UsedIn(map.entries) /\ t.entries[i] = e
      /\ \A j \in UsedIn(map.entries) : j # i => t.entries[j] = map.entries[j]
  BY <1>1, <1>2, <1>4, UpdateSound
<1>6. \A j \in UsedIn(map.entries) : map.entries[j][1] = k => j = i
  BY <1>1 DEF TableSound, KeysDiffer
<1>7. PairsIn(t.entries) = (PairsIn(map.entries) \ KeyIs(PairsIn(map.entries), k)) \cup {e}
  <2>1. PICK E, F, U : E = map.entries /\ F = t.entries /\ U = UsedIn(map.entries)
    OBVIOUS
  <2>2. PairsIn(E) = {E[j] : j \in U} /\ PairsIn(F) = {F[j] : j \in U}
    BY <1>5, <2>1 DEF PairsIn
  <2>3. /\ i \in U /\ E[i][1] = k /\ F[i] = e /\ \A j \in U : j # i => F[j] = E[j]
        /\ \A j \in U : E[j][1] = k => j = i
    BY <1>1, <1>5, <1>6, <2>1
  <2>4. \A x \in PairsIn(F) : x = e \/ (x \in PairsIn(E) /\ x \notin KeyIs(PairsIn(E), k))
    BY <2>2, <2>3 DEF KeyIs
  <2>5. e \in PairsIn(F) /\ \A x \in PairsIn(E) : x \notin KeyIs(PairsIn(E), k) => x \in PairsIn(F)
    BY <2>2, <2>3 DEF KeyIs
  <2> QED
    BY <2>1, <2>4, <2>5
<1>8. MapSound(map', pending', snapshot', copied')
  BY <1>3, <1>5 DEF MapSound
<1> QED
  BY <1>3, <1>4, <1>7, <1>8

\* hashmap_remove.
LEMMA RemovalSound ==
  ASSUME TableSound(map), NEW k \in HashKeys, hashmap_remove(k)
  PROVE  /\ MapSound(map', pending', snapshot', copied') /\ pending = FreeEntry /\ pending' = FreeEntry
         /\ KeyIs(PairsIn(map.entries), k) # {}
         /\ PairsIn(map'.entries) = PairsIn(map.entries) \ KeyIs(PairsIn(map.entries), k)
<1>1. PICK i \in Find(map, k) : map' = Removed(map, i, k)
  BY DEF hashmap_remove, Removed
<1>2. pending = FreeEntry /\ pending' = FreeEntry
  BY DEF hashmap_remove, Idle
<1>3. i \in UsedIn(map.entries) /\ map.entries[i][1] = k
  BY FindFinds
<1>4. PICK t : t = Removed(map, i, k)
  OBVIOUS
<1>5. /\ TableSound(t) /\ UsedIn(t.entries) = UsedIn(map.entries) \ {i}
      /\ \A j \in UsedIn(t.entries) : t.entries[j] = map.entries[j]
  BY <1>3, <1>4, RemoveSound
<1>6. \A j \in UsedIn(map.entries) : map.entries[j][1] = k => j = i
  BY <1>3 DEF TableSound, KeysDiffer
<1>7. /\ KeyIs(PairsIn(map.entries), k) # {}
      /\ PairsIn(t.entries) = PairsIn(map.entries) \ KeyIs(PairsIn(map.entries), k)
  <2>1. PICK E, F, U : E = map.entries /\ F = t.entries /\ U = UsedIn(map.entries)
    OBVIOUS
  <2>2. PairsIn(E) = {E[j] : j \in U} /\ PairsIn(F) = {F[j] : j \in U \ {i}}
    BY <1>5, <2>1 DEF PairsIn
  <2>3. /\ i \in U /\ E[i][1] = k /\ \A j \in U \ {i} : F[j] = E[j]
        /\ \A j \in U : E[j][1] = k => j = i
    BY <1>3, <1>5, <1>6, <2>1
  <2>4. E[i] \in KeyIs(PairsIn(E), k)
    BY <2>2, <2>3 DEF KeyIs
  <2>5. \A x \in PairsIn(F) : x \in PairsIn(E) /\ x \notin KeyIs(PairsIn(E), k)
    BY <2>2, <2>3 DEF KeyIs
  <2>6. \A x \in PairsIn(E) : x \notin KeyIs(PairsIn(E), k) => x \in PairsIn(F)
    BY <2>2, <2>3 DEF KeyIs
  <2> QED
    BY <2>1, <2>4, <2>5, <2>6
<1>8. MapSound(map', pending', snapshot', copied')
  BY <1>1, <1>2, <1>4, <1>5 DEF MapSound
<1> QED
  BY <1>1, <1>2, <1>4, <1>7, <1>8

\* hashmap_clear.
LEMMA ClearSound ==
  ASSUME TableSound(map), hashmap_clear
  PROVE  /\ MapSound(map', pending', snapshot', copied') /\ pending = FreeEntry /\ pending' = FreeEntry
         /\ PairsIn(map'.entries) = {}
<1>1. map.capacity \in Nat \ {0, 1}
  BY TableParts DEF Sound
<1>2. pending = FreeEntry /\ pending' = FreeEntry /\ map' = hashmap_alloc(map.capacity)
  BY DEF hashmap_clear, Idle
<1>3. TableSound(map') /\ UsedIn(map'.entries) = {}
  BY <1>1, <1>2, AllocSound
<1> QED
  BY <1>2, <1>3 DEF MapSound, PairsIn

\* hashmap_grow: the pairs are those of the snapshot until all are copied, and
\* then those of the table and the one that had to wait.
LEMMA GrowSound ==
  ASSUME MapSound(map, pending, snapshot, copied), hashmap_grow
  PROVE  /\ MapSound(map', pending', snapshot', copied') /\ pending # FreeEntry
         /\ \/ pending' = pending /\ snapshot' = snapshot
            \/ \E k \in HashKeys, v \in HashValues :
                 /\ pending' = FreeEntry
                 /\ PairsIn(map'.entries) = PairsIn(snapshot) \cup {<<k, v>>}
                 /\ KeyIs(PairsIn(snapshot), k) = {}
<1>1. pending # FreeEntry /\ TableSound(map) /\ Growing(map, pending, snapshot, copied)
  BY DEF hashmap_grow, MapSound
<1>2. CASE copied \in DOMAIN snapshot /\ snapshot[copied] = FreeEntry
  <2>1. map' = map /\ pending' = pending /\ snapshot' = snapshot /\ copied' = copied + 1
    BY <1>2 DEF hashmap_grow
  <2>2. Growing(map, pending, snapshot, copied + 1)
    BY <1>1, <1>2, GrowthSkips
  <2> QED
    BY <1>1, <2>1, <2>2 DEF MapSound
<1>3. CASE copied \in DOMAIN snapshot /\ snapshot[copied] # FreeEntry
  <2>1. /\ map' = Insert(map, snapshot[copied][1], snapshot[copied][2])
        /\ pending' = pending /\ snapshot' = snapshot /\ copied' = copied + 1
    BY <1>3 DEF hashmap_grow
  <2>2. TableSound(map') /\ Growing(map', pending, snapshot, copied + 1)
    BY <1>1, <1>3, <2>1, GrowthCopies
  <2> QED
    BY <1>1, <2>1, <2>2 DEF MapSound
<1>4. CASE copied \notin DOMAIN snapshot
  <2>1. hashmap_put_new(pending[1], pending[2])
    BY <1>4 DEF hashmap_grow
  <2>2. PICK k \in HashKeys, v \in HashValues : pending[1] = k /\ pending[2] = v
    BY <1>1, <1>4, GrowthEnds
  <2>3. /\ \A j \in UsedIn(map.entries) : map.entries[j][1] # k
        /\ map.size < bucket_num(map.capacity) /\ PairsIn(map.entries) = PairsIn(snapshot)
    BY <1>1, <1>4, <2>2, GrowthEnds
  <2>4. hashmap_put_new(k, v)
    BY <2>1, <2>2
  <2>5. /\ MapSound(map', pending', snapshot', copied')
        /\ pending' = FreeEntry /\ PairsIn(map'.entries) = PairsIn(map.entries) \cup {<<k, v>>}
    BY <1>1, <2>3, <2>4, PutNewSound
  <2>6. KeyIs(PairsIn(map.entries), k) = {}
    BY <2>3 DEF KeyIs, PairsIn
  <2>7. /\ pending' = FreeEntry /\ PairsIn(map'.entries) = PairsIn(snapshot) \cup {<<k, v>>}
        /\ KeyIs(PairsIn(snapshot), k) = {}
    BY <2>3, <2>5, <2>6
  <2> QED
    BY <1>1, <2>5, <2>7
<1> QED
  BY <1>2, <1>3, <1>4

\* The pairs of the table: those of the snapshot while it grows.
Pairs == IF Idle THEN PairsIn(map.entries) ELSE PairsIn(snapshot)

\* What a step does to the pairs.
PairsChange ==
  \/ Pairs' = Pairs
  \/ \E k \in HashKeys, v \in HashValues : Pairs' = (Pairs \ KeyIs(Pairs, k)) \cup {<<k, v>>}
  \/ \E k \in HashKeys : KeyIs(Pairs, k) # {} /\ Pairs' = Pairs \ KeyIs(Pairs, k)
  \/ Pairs' = {}

\* Every step preserves the invariant and changes the pairs as a dictionary
\* would.
LEMMA HashMapStep ==
  ASSUME MapSound(map, pending, snapshot, copied), [HashMapNext]_hashMapVars
  PROVE  MapSound(map', pending', snapshot', copied') /\ PairsChange
<1>1. TableSound(map)
  BY DEF MapSound
<1>2. CASE UNCHANGED hashMapVars
  BY <1>2 DEF hashMapVars, PairsChange, Pairs, Idle
<1>3. ASSUME NEW k \in HashKeys, NEW v \in HashValues, hashmap_put_if_absent(k, v)
      PROVE  MapSound(map', pending', snapshot', copied') /\ PairsChange
  <2>1. pending = FreeEntry /\ Find(map, k) = {} /\ hashmap_put_new(k, v)
    BY <1>3 DEF hashmap_put_if_absent, Idle
  <2>2. \A j \in UsedIn(map.entries) : map.entries[j][1] # k
    BY <1>1, <2>1, FindFinds
  <2>3. /\ MapSound(map', pending', snapshot', copied')
        /\ \/ pending' = FreeEntry /\ PairsIn(map'.entries) = PairsIn(map.entries) \cup {<<k, v>>}
           \/ pending' # FreeEntry /\ snapshot' = map.entries
    BY <1>1, <2>1, <2>2, PutNewSound
  <2>4. Pairs = PairsIn(map.entries) /\ KeyIs(Pairs, k) = {}
    BY <2>1, <2>2 DEF Pairs, Idle, KeyIs, PairsIn
  <2>5. CASE pending' = FreeEntry /\ PairsIn(map'.entries) = PairsIn(map.entries) \cup {<<k, v>>}
    <3>1. Pairs' = PairsIn(map'.entries)
      BY <2>5 DEF Pairs, Idle, PairsIn, UsedIn
    <3>2. Pairs' = (Pairs \ KeyIs(Pairs, k)) \cup {<<k, v>>}
      BY <2>4, <2>5, <3>1
    <3> QED
      BY <2>3, <3>2 DEF PairsChange
  <2>6. CASE pending' # FreeEntry /\ snapshot' = map.entries
    <3>1. Pairs' = PairsIn(snapshot')
      BY <2>6 DEF Pairs, Idle, PairsIn, UsedIn
    <3> QED
      BY <2>3, <2>4, <2>6, <3>1 DEF PairsChange
  <2> QED
    BY <2>3, <2>5, <2>6
<1>4. ASSUME NEW k \in HashKeys, NEW v \in HashValues, hashmap_put(k, v)
      PROVE  MapSound(map', pending', snapshot', copied') /\ PairsChange
  <2>1. CASE hashmap_put_if_absent(k, v)
    BY <1>3, <2>1
  <2>2. CASE ~hashmap_put_if_absent(k, v)
    <3>1. PICK i \in Find(map, k) : map' = Updated(map, i, k, v)
      BY <1>4, <2>2 DEF hashmap_put, Updated
    <3>2. pending = FreeEntry /\ pending' = FreeEntry /\ UNCHANGED <<pending, snapshot, copied>>
      BY <1>4, <2>2 DEF hashmap_put, Idle
    <3>3. /\ MapSound(map', pending', snapshot', copied')
          /\ PairsIn(map'.entries) = (PairsIn(map.entries) \ KeyIs(PairsIn(map.entries), k)) \cup {<<k, v>>}
      BY <1>1, <3>1, <3>2, PutOldSound
    <3>4. Pairs = PairsIn(map.entries) /\ Pairs' = PairsIn(map'.entries)
      BY <3>2 DEF Pairs, Idle, PairsIn, UsedIn
    <3>5. Pairs' = (Pairs \ KeyIs(Pairs, k)) \cup {<<k, v>>}
      BY <3>3, <3>4
    <3> QED
      BY <3>3, <3>5 DEF PairsChange
  <2> QED
    BY <2>1, <2>2
<1>5. ASSUME NEW k \in HashKeys, hashmap_remove(k)
      PROVE  MapSound(map', pending', snapshot', copied') /\ PairsChange
  <2>1. /\ MapSound(map', pending', snapshot', copied') /\ pending = FreeEntry /\ pending' = FreeEntry
        /\ KeyIs(PairsIn(map.entries), k) # {}
        /\ PairsIn(map'.entries) = PairsIn(map.entries) \ KeyIs(PairsIn(map.entries), k)
    BY <1>1, <1>5, RemovalSound
  <2>2. Pairs = PairsIn(map.entries) /\ Pairs' = PairsIn(map'.entries)
    BY <2>1 DEF Pairs, Idle, PairsIn, UsedIn
  <2>3. KeyIs(Pairs, k) # {} /\ Pairs' = Pairs \ KeyIs(Pairs, k)
    BY <2>1, <2>2
  <2> QED
    BY <2>1, <2>3 DEF PairsChange
<1>6. CASE hashmap_clear
  <2>1. /\ MapSound(map', pending', snapshot', copied') /\ pending' = FreeEntry
        /\ PairsIn(map'.entries) = {}
    BY <1>1, <1>6, ClearSound
  <2>2. Pairs' = PairsIn(map'.entries)
    BY <2>1 DEF Pairs, Idle, PairsIn, UsedIn
  <2> QED
    BY <2>1, <2>2 DEF PairsChange
<1>7. CASE hashmap_grow
  <2>1. /\ MapSound(map', pending', snapshot', copied') /\ pending # FreeEntry
        /\ \/ pending' = pending /\ snapshot' = snapshot
           \/ \E k \in HashKeys, v \in HashValues :
                /\ pending' = FreeEntry
                /\ PairsIn(map'.entries) = PairsIn(snapshot) \cup {<<k, v>>}
                /\ KeyIs(PairsIn(snapshot), k) = {}
    BY <1>7, GrowSound
  <2>2. Pairs = PairsIn(snapshot)
    BY <2>1 DEF Pairs, Idle
  <2>3. CASE pending' = pending /\ snapshot' = snapshot
    <3>1. Pairs' = PairsIn(snapshot')
      BY <2>1, <2>3 DEF Pairs, Idle, PairsIn, UsedIn
    <3> QED
      BY <2>1, <2>2, <2>3, <3>1 DEF PairsChange
  <2>4. ASSUME NEW k \in HashKeys, NEW v \in HashValues, pending' = FreeEntry,
               PairsIn(map'.entries) = PairsIn(snapshot) \cup {<<k, v>>},
               KeyIs(PairsIn(snapshot), k) = {}
        PROVE  PairsChange
    <3>1. Pairs' = PairsIn(map'.entries)
      BY <2>4 DEF Pairs, Idle, PairsIn, UsedIn
    <3>2. Pairs' = (Pairs \ KeyIs(Pairs, k)) \cup {<<k, v>>}
      BY <2>2, <2>4, <3>1
    <3> QED
      BY <3>2 DEF PairsChange
  <2> QED
    BY <2>1, <2>3, <2>4
<1> QED
  BY <1>2, <1>3, <1>4, <1>5, <1>6, <1>7 DEF HashMapNext

\* What every operation of the table preserves, and every step of its growth.
THEOREM HashMapInvariant == HashMapSpec => []HashMapInv
<1>1. HashMapInit => MapSound(map, pending, snapshot, copied)
  <2> SUFFICES ASSUME HashMapInit PROVE MapSound(map, pending, snapshot, copied)
    OBVIOUS
  <2>1. TableSound(map)
    BY HashAssumption, AllocSound DEF HashMapInit
  <2> QED
    BY <2>1 DEF HashMapInit, MapSound
<1>2. MapSound(map, pending, snapshot, copied) /\ [HashMapNext]_hashMapVars
        => MapSound(map, pending, snapshot, copied)'
  BY HashMapStep
<1>3. MapSound(map, pending, snapshot, copied) => HashMapInv
  BY HashMapInvIs
<1> QED
  BY <1>1, <1>2, <1>3, PTL DEF HashMapSpec

\* A used entry is in one place of one chain, a free one in none.
LEMMA ChainPlaces ==
  ASSUME NEW m, TableSound(m), NEW i \in DOMAIN m.entries
  PROVE  Cardinality({p \in (DOMAIN m.buckets) \X (1..m.capacity) :
                        p[2] \in DOMAIN m.buckets[p[1]] /\ m.buckets[p[1]][p[2]] = i})
           = IF m.entries[i] = FreeEntry THEN 0 ELSE 1
<1>1. PICK c, E, B : c = m.capacity /\ E = m.entries /\ B = m.buckets
  OBVIOUS
<1>2. /\ c \in Nat \ {0, 1} /\ E \in EntriesOf(c) /\ Chained(HashOf(c), E, B)
      /\ B \in [0..(bucket_num(c) - 1) -> Seq(0..(c - 1))]
  BY <1>1, TableParts DEF Sound
<1>3. PICK Q : Q = {p \in (DOMAIN B) \X (1..c) : p[2] \in DOMAIN B[p[1]] /\ B[p[1]][p[2]] = i}
  OBVIOUS
<1>4. \A p \in Q : p[1] \in DOMAIN B /\ p[2] \in DOMAIN B[p[1]] /\ B[p[1]][p[2]] = i /\ p = <<p[1], p[2]>>
  BY <1>3
<1>5. \A p \in Q : i \in ToSet(B[p[1]])
  BY <1>4 DEF ToSet
<1>6. CASE E[i] = FreeEntry
  <2>1. Q = {}
    BY <1>2, <1>4, <1>5, <1>6 DEF Chained
  <2>2. Cardinality(Q) = 0
    BY <2>1, FS_EmptySet
  <2> QED
    BY <1>1, <1>3, <1>6, <2>2
<1>7. CASE E[i] # FreeEntry
  <2>1. i \in UsedIn(E) /\ E[i][1] \in HashKeys
    BY <1>1, <1>2, <1>7, UsedArePairs
  <2>2. PICK b \in 0..(bucket_num(c) - 1) : b = HashOf(c)[E[i][1]]
    BY <1>2, <2>1, BucketNumber
  <2>3. b \in DOMAIN B /\ B[b] \in Seq(0..(c - 1)) /\ IsInjective(B[b]) /\ i \in ToSet(B[b])
    BY <1>2, <2>1, <2>2 DEF Chained
  <2>4. PICK j \in DOMAIN B[b] : B[b][j] = i
    BY <2>3 DEF ToSet
  <2>5. j \in 1..c
    <3>1. IsFiniteSet(0..(c - 1)) /\ Cardinality(0..(c - 1)) = c
      BY <1>2, FS_Interval
    <3>2. Len(B[b]) <= c /\ Len(B[b]) \in Nat
      BY <2>3, <3>1, DistinctBound
    <3>3. j \in 1..Len(B[b])
      BY <2>3, LenProperties
    <3> QED
      BY <1>2, <3>2, <3>3
  <2>6. PICK z : z = <<b, j>>
    OBVIOUS
  <2>7. z \in Q
    BY <1>3, <2>3, <2>4, <2>5, <2>6
  <2>8. ASSUME NEW p \in Q PROVE p = z
    <3>1. p[1] = b
      BY <1>2, <1>4, <1>5, <2>2 DEF Chained
    <3>2. p[2] = j
      BY <1>4, <2>3, <2>4, <3>1 DEF IsInjective
    <3> QED
      BY <1>4, <2>6, <3>1, <3>2
  <2>9. Q = {z}
    BY <2>7, <2>8
  <2>10. Cardinality(Q) = 1
    BY <2>9, FS_Singleton
  <2> QED
    BY <1>1, <1>3, <1>7, <2>10
<1> QED
  BY <1>6, <1>7

\* The table's links are consistent whenever nothing or one step of its growth
\* has been done with it.
LEMMA InvariantGivesChains == HashMapInv => ChainsMatchEntries
<1> SUFFICES ASSUME HashMapInv PROVE ChainsMatchEntries
  OBVIOUS
<1>1. TableSound(map) /\ MapSound(map, pending, snapshot, copied)
  BY HashMapInvIs DEF MapSound
<1>2. \A i \in DOMAIN map.entries :
       Cardinality({p \in (DOMAIN map.buckets) \X (1..map.capacity) :
                      p[2] \in DOMAIN map.buckets[p[1]] /\ map.buckets[p[1]][p[2]] = i})
         = IF map.entries[i] = FreeEntry THEN 0 ELSE 1
  BY <1>1, ChainPlaces
<1>3. \A b \in DOMAIN map.buckets : \A i \in ToSet(map.buckets[b]) : BucketOf(map, map.entries[i][1]) = b
  BY <1>1 DEF TableSound, ChainsSound
<1>4. map.size = Cardinality(UsedIn(map.entries)) /\ map.size < map.capacity
  <2>1. map.capacity \in Nat \ {0, 1} /\ map.size \in Nat
    BY <1>1 DEF TableSound, TableOK
  <2>2. bucket_num(map.capacity) \in 1..(map.capacity - 1)
    BY <2>1, BucketNumber
  <2>3. map.size = Cardinality(UsedIn(map.entries)) /\ map.size <= bucket_num(map.capacity)
    BY <1>1 DEF TableSound, SizeSound
  <2> QED
    BY <2>1, <2>2, <2>3
<1>5. GrowthFits
  <2> SUFFICES ASSUME ~Idle, copied \in UsedIn(snapshot)
               PROVE  Find(map, snapshot[copied][1]) = {} /\ map.size < bucket_num(map.capacity)
    BY DEF GrowthFits
  <2>1. Growing(map, pending, snapshot, copied)
    BY <1>1 DEF MapSound, Idle
  <2> QED
    BY <1>1, <2>1, GrowthHasRoom
<1> QED
  BY <1>2, <1>3, <1>4, <1>5 DEF ChainsMatchEntries

\* The chains of hashmap.c hold exactly the used entries, for every initial
\* capacity and whatever was put and removed, while the table grows too.
THEOREM ChainsStayConsistent == HashMapSpec => []ChainsMatchEntries
  BY HashMapInvariant, InvariantGivesChains, PTL

\* The dictionary a set of pairs is.
LookIn(P) == [k \in {x \in HashKeys : KeyIs(P, x) # {}} |-> (CHOOSE e \in KeyIs(P, k) : TRUE)[2]]

\* hashmap_get looks a key up in the pairs of the table.
LEMMA LookupIsOfPairs ==
  ASSUME HashMapInv
  PROVE  Lookup = LookIn(Pairs)
<1>1. TableSound(map)
  BY DEF HashMapInv
<1>2. ASSUME NEW k \in HashKeys PROVE Holding(k) = KeyIs(Pairs, k)
  <2>1. CASE Idle
    <3>1. Find(map, k) = {i \in UsedIn(map.entries) : map.entries[i][1] = k}
      BY <1>1, FindFinds
    <3> QED
      BY <2>1, <3>1 DEF Holding, KeyIs, Pairs, PairsIn
  <2>2. CASE ~Idle
    BY <2>2 DEF Holding, KeyIs, Pairs, PairsIn
  <2> QED
    BY <2>1, <2>2
<1>3. {x \in HashKeys : Holding(x) # {}} = {x \in HashKeys : KeyIs(Pairs, x) # {}}
  BY <1>2
<1>4. \A k \in {x \in HashKeys : KeyIs(Pairs, x) # {}} :
        (CHOOSE e \in Holding(k) : TRUE)[2] = (CHOOSE e \in KeyIs(Pairs, k) : TRUE)[2]
  BY <1>2
<1> QED
  BY <1>3, <1>4 DEF Lookup, LookIn

\* The dictionary f with v for k.
Assigned(f, k, v) == [x \in DOMAIN f \cup {k} |-> IF x = k THEN v ELSE f[x]]

\* A pair replaces those with its key.
LEMMA LookInPut ==
  ASSUME NEW P, NEW k \in HashKeys, NEW v \in HashValues, NEW e, e = <<k, v>>,
         NEW Q, Q = (P \ KeyIs(P, k)) \cup {e}
  PROVE  LookIn(Q) = Assigned(LookIn(P), k, v)
<1>1. e[1] = k /\ e[2] = v
  BY PairIsUsed
<1>2. Q = (P \ KeyIs(P, k)) \cup {e}
  OBVIOUS
<1>3. KeyIs(Q, k) = {e}
  BY <1>1, <1>2 DEF KeyIs
<1>4. ASSUME NEW x, x # k PROVE KeyIs(Q, x) = KeyIs(P, x)
  BY <1>1, <1>2, <1>4 DEF KeyIs
<1>5. (CHOOSE y \in KeyIs(Q, k) : TRUE)[2] = v
  <2>1. (CHOOSE y \in KeyIs(Q, k) : TRUE) \in {e}
    BY <1>3
  <2> QED
    BY <1>1, <2>1
<1>6. DOMAIN LookIn(P) = {x \in HashKeys : KeyIs(P, x) # {}}
  BY DEF LookIn
<1>7. {x \in HashKeys : KeyIs(Q, x) # {}} = DOMAIN LookIn(P) \cup {k}
  BY <1>3, <1>4, <1>6
<1>8. \A x \in DOMAIN LookIn(P) : LookIn(P)[x] = (CHOOSE y \in KeyIs(P, x) : TRUE)[2]
  BY DEF LookIn
<1>9. ASSUME NEW x \in DOMAIN LookIn(P) \cup {k}
      PROVE  (CHOOSE y \in KeyIs(Q, x) : TRUE)[2] = IF x = k THEN v ELSE LookIn(P)[x]
  <2>1. CASE x = k
    BY <1>5, <2>1
  <2>2. CASE x # k
    BY <1>4, <1>8, <2>2
  <2> QED
    BY <2>1, <2>2
<1>10. LookIn(Q) = [x \in DOMAIN LookIn(P) \cup {k} |-> (CHOOSE y \in KeyIs(Q, x) : TRUE)[2]]
  BY <1>7 DEF LookIn
<1> QED
  BY <1>9, <1>10 DEF Assigned

\* The pairs with a key leave.
LEMMA LookInRemove ==
  ASSUME NEW P, NEW k \in HashKeys, KeyIs(P, k) # {}, NEW Q, Q = P \ KeyIs(P, k)
  PROVE  k \in DOMAIN LookIn(P) /\ LookIn(Q) = [x \in DOMAIN LookIn(P) \ {k} |-> LookIn(P)[x]]
<1>1. KeyIs(Q, k) = {}
  BY DEF KeyIs
<1>2. ASSUME NEW x, x # k PROVE KeyIs(Q, x) = KeyIs(P, x)
  BY <1>2 DEF KeyIs
<1>3. DOMAIN LookIn(P) = {x \in HashKeys : KeyIs(P, x) # {}}
  BY DEF LookIn
<1>4. {x \in HashKeys : KeyIs(Q, x) # {}} = DOMAIN LookIn(P) \ {k}
  BY <1>1, <1>2, <1>3
<1>5. \A x \in DOMAIN LookIn(P) : LookIn(P)[x] = (CHOOSE y \in KeyIs(P, x) : TRUE)[2]
  BY DEF LookIn
<1>6. ASSUME NEW x \in DOMAIN LookIn(P) \ {k}
      PROVE  (CHOOSE y \in KeyIs(Q, x) : TRUE)[2] = LookIn(P)[x]
  BY <1>2, <1>5
<1>7. LookIn(Q) = [x \in DOMAIN LookIn(P) \ {k} |-> (CHOOSE y \in KeyIs(Q, x) : TRUE)[2]]
  BY <1>4 DEF LookIn
<1> QED
  BY <1>3, <1>6, <1>7

\* No pairs are the empty dictionary.
LEMMA LookInEmpty == LookIn({}) = [k \in {} |-> {}]
<1>1. {x \in HashKeys : KeyIs({}, x) # {}} = {}
  BY DEF KeyIs
<1> QED
  BY <1>1 DEF LookIn

\* hashmap.c implements a dictionary, for every initial capacity: every
\* operation and every step of the growth changes what hashmap_get returns as
\* the dictionary's operations do, or not at all.
THEOREM HashMapIsADictionary == HashMapSpec => ImplementsDictionary
<1> DEFINE J == HashMapInv /\ Lookup = LookIn(Pairs)
<1>1. HashMapInit /\ J => Dict!Init
  <2> SUFFICES ASSUME HashMapInit, J PROVE Lookup = [k \in {} |-> {}]
    BY DEF Dict!Init
  <2>1. UsedIn(map.entries) = {}
    BY HashAssumption, AllocSound DEF HashMapInit
  <2>2. Pairs = {}
    BY <2>1 DEF Pairs, PairsIn, HashMapInit, Idle
  <2> QED
    BY <2>2, LookInEmpty
<1>2. J /\ J' /\ [HashMapNext]_hashMapVars => [Dict!Put \/ Dict!Delete \/ Dict!Clear]_Lookup
  <2> SUFFICES ASSUME J, J', [HashMapNext]_hashMapVars
               PROVE  Dict!Put \/ Dict!Delete \/ Dict!Clear \/ Lookup' = Lookup
    OBVIOUS
  <2>1. PairsChange
    BY HashMapInvIs, HashMapStep
  <2>2. PICK P, Q : P = Pairs /\ Q = Pairs'
    OBVIOUS
  <2>3. Lookup = LookIn(P) /\ Lookup' = LookIn(Q)
    BY <2>2 DEF LookIn, KeyIs
  <2>4. CASE Q = P
    BY <2>3, <2>4
  <2>5. ASSUME NEW k \in HashKeys, NEW v \in HashValues, Q = (P \ KeyIs(P, k)) \cup {<<k, v>>}
        PROVE  Dict!Put
    <3>1. LookIn(Q) = Assigned(LookIn(P), k, v)
      <4>1. PICK e : e = <<k, v>>
        OBVIOUS
      <4>2. Q = (P \ KeyIs(P, k)) \cup {e}
        BY <2>5, <4>1
      <4> QED
        BY <4>1, <4>2, LookInPut
    <3>2. Lookup' = [x \in DOMAIN Lookup \cup {k} |-> IF x = k THEN v ELSE Lookup[x]]
      BY <2>3, <3>1 DEF Assigned
    <3> QED
      BY <3>2, Zenon DEF Dict!Put
  <2>6. ASSUME NEW k \in HashKeys, KeyIs(P, k) # {}, Q = P \ KeyIs(P, k)
        PROVE  Dict!Delete
    <3>1. k \in DOMAIN LookIn(P) /\ LookIn(Q) = [x \in DOMAIN LookIn(P) \ {k} |-> LookIn(P)[x]]
      BY <2>6, LookInRemove
    <3>2. k \in DOMAIN Lookup /\ Lookup' = [x \in DOMAIN Lookup \ {k} |-> Lookup[x]]
      BY <2>3, <3>1
    <3> QED
      BY <3>2, Zenon DEF Dict!Delete
  <2>7. CASE Q = {}
    <3>1. Lookup' = [k \in {} |-> {}]
      BY <2>3, <2>7, LookInEmpty
    <3> QED
      BY <3>1, Zenon DEF Dict!Clear
  <2> QED
    BY <2>1, <2>2, <2>4, <2>5, <2>6, <2>7 DEF PairsChange
<1>3. HashMapInv => J
  BY LookupIsOfPairs
<1> QED
  BY <1>1, <1>2, <1>3, HashMapInvariant, PTL DEF HashMapSpec, ImplementsDictionary, Dict!Spec
-----------------------------------------------------------------------------
(* The containers together. *)

\* The heap, the LRU map and the hash table each keep their links consistent at
\* every moment, whatever is put into them and taken out.
THEOREM ContainersStayConsistent ==
  HeapSpec /\ LruMapSpec /\ HashMapSpec => []ContainersConsistent
<1>1. HeapOrder /\ EntriesPartitioned /\ ChainsMatchEntries => ContainersConsistent
  BY DEF ContainersConsistent
<1> QED
  BY <1>1, HeapStaysOrdered, LruEntriesArePartitioned, ChainsStayConsistent, PTL
-----------------------------------------------------------------------------
(* The statistics. *)

\* t with the entries at a and b exchanged.
Exchange(t, a, b) == [t EXCEPT ![a] = t[b], ![b] = t[a]]

\* What an exchange does to each entry.
LEMMA ExchangedEntries ==
  ASSUME NEW S, NEW D, NEW t \in [D -> S], NEW a \in D, NEW b \in D
  PROVE  /\ Exchange(t, a, b) \in [D -> S]
         /\ Exchange(t, a, b)[a] = t[b] /\ Exchange(t, a, b)[b] = t[a]
         /\ \A i \in D : i # a /\ i # b => Exchange(t, a, b)[i] = t[i]
  BY DEF Exchange

\* An exchange keeps how often a time occurs.
LEMMA ExchangeOccurrences ==
  ASSUME NEW S, NEW D, NEW t \in [D -> S], NEW I \in SUBSET D, IsFiniteSet(I),
         NEW a \in I, NEW b \in I, NEW v
  PROVE  Occurrences(Exchange(t, a, b), I, v) = Occurrences(t, I, v)
<1>1. PICK g : g = Exchange(t, a, b)
  OBVIOUS
<1>2. g \in [D -> S] /\ g[a] = t[b] /\ g[b] = t[a] /\ \A i \in D : i # a /\ i # b => g[i] = t[i]
  BY <1>1, ExchangedEntries
<1> DEFINE X == {i \in I : t[i] = v}
           Y == {i \in I : g[i] = v}
           f == [i \in X |-> IF i = a THEN b ELSE IF i = b THEN a ELSE i]
<1>3. IsFiniteSet(X) /\ IsFiniteSet(Y)
  BY FS_Subset
<1>4. f \in [X -> Y]
  BY <1>2
<1>5. \A i, j \in X : f[i] = f[j] => i = j
  OBVIOUS
<1>6. \A y \in Y : \E i \in X : f[i] = y
  <2> SUFFICES ASSUME NEW y \in Y PROVE \E i \in X : f[i] = y
    OBVIOUS
  <2>1. PICK i : i = IF y = a THEN b ELSE IF y = b THEN a ELSE y
    OBVIOUS
  <2>2. i \in X /\ f[i] = y
    BY <1>2, <2>1
  <2> QED
    BY <2>2
<1>7. f \in Bijection(X, Y)
  <2> HIDE DEF f, X, Y
  <2> QED
    BY <1>4, <1>5, <1>6 DEF Bijection, Injection, Surjection, IsInjective
<1>8. ExistsBijection(X, Y)
  <2> HIDE DEF f, X, Y
  <2> QED
    BY <1>7 DEF ExistsBijection
<1>9. Cardinality(X) = Cardinality(Y)
  <2> HIDE DEF f, X, Y
  <2> QED
    BY <1>3, <1>8, FS_Bijection
<1> QED
  BY <1>1, <1>9, Zenon DEF Occurrences

\* An entry with no greater one before it and no lesser one after it has its
\* place as its rank.
LEMMA RankOfPlace ==
  ASSUME NEW L \in Nat, NEW t, \A i \in 0..(L - 1) : t[i] \in Int, NEW k \in 0..(L - 1), NEW v, v = t[k],
         \A i \in 0..(L - 1) : (i < k => t[i] <= v) /\ (i > k => v <= t[i])
  PROVE  UpTo(t, 0..(L - 1), v - 1) < k + 1 /\ k + 1 <= UpTo(t, 0..(L - 1), v)
<1> DEFINE X == {i \in 0..(L - 1) : t[i] <= v}
           Y == {i \in 0..(L - 1) : t[i] <= v - 1}
<1>1. IsFiniteSet(0..(L - 1)) /\ X \subseteq 0..(L - 1) /\ Y \subseteq 0..(L - 1)
  BY FS_Interval
<1>2. IsFiniteSet(X) /\ IsFiniteSet(Y)
  BY <1>1, FS_Subset
<1>3. /\ IsFiniteSet(0..k) /\ Cardinality(0..k) = k + 1
      /\ IsFiniteSet(0..(k - 1)) /\ Cardinality(0..(k - 1)) = k
  BY FS_Interval
<1>4. \A i \in 0..(L - 1) : t[i] \in Int /\ (i < k => t[i] <= v) /\ (i = k => t[i] = v) /\ (i > k => v <= t[i])
  OBVIOUS
<1>5. 0..k \subseteq X
  BY <1>4
<1>6. Y \subseteq 0..(k - 1)
  <2> SUFFICES ASSUME NEW i \in 0..(L - 1), t[i] <= v - 1 PROVE i \in 0..(k - 1)
    OBVIOUS
  <2>1. v \in Int /\ t[i] \in Int /\ ~(v <= t[i])
    BY <1>4
  <2> QED
    BY <1>4, <2>1
<1> HIDE DEF X, Y
<1>7. Cardinality(0..k) <= Cardinality(X)
  BY <1>2, <1>5, FS_Subset
<1>8. Cardinality(Y) <= Cardinality(0..(k - 1)) /\ Cardinality(Y) \in Nat
  BY <1>2, <1>3, <1>6, FS_Subset, FS_CardinalityType
<1>9. Cardinality(Y) < k + 1 /\ k + 1 <= Cardinality(X)
  BY <1>3, <1>7, <1>8
<1>10. UpTo(t, 0..(L - 1), v) = Cardinality(X) /\ UpTo(t, 0..(L - 1), v - 1) = Cardinality(Y)
  BY Zenon DEF UpTo, X, Y
<1> QED
  BY <1>9, <1>10

\* The rank a percentile asks for, among L entries.
LEMMA RankInRange ==
  ASSUME NEW p \in 50..99, NEW L \in Nat \ {0, 1}
  PROVE  (p * L) \div 100 \in 1..L
<1>1. PICK q \in Nat : q = p * L /\ 50 * L <= q /\ q <= 99 * L
  <2>1. p * L = 50 * L + (p - 50) * L /\ 99 * L = p * L + (99 - p) * L
    OBVIOUS
  <2>2. (p - 50) * L >= 0 /\ (99 - p) * L >= 0
    <3>1. \A x, y \in Nat : x * y >= 0
      OBVIOUS
    <3> QED
      BY <3>1
  <2>3. p * L \in Nat /\ (p - 50) * L \in Int /\ (99 - p) * L \in Int
    OBVIOUS
  <2> QED
    BY <2>1, <2>2, <2>3
<1>2. q >= 100
  BY <1>1
<1> QED
  BY <1>1, <1>2

\* Nothing before d..e is greater, nothing after it less, than what is in it.
Outside(t, L, d, e) ==
  \A i \in 0..(L - 1), j \in d..e : (i < d => t[i] <= t[j]) /\ (i > e => t[j] <= t[i])

\* The entries d..(d + l - 1) are what RankInWindow says of the L entries t, for
\* the rank R as the n-th of them.
Narrowed(t, L, R, d, l, n) ==
  /\ l > 0 /\ d + l <= L /\ (l = 1 \/ n \in 1..l) /\ d + (IF l = 1 THEN 1 ELSE n) = R
  /\ Outside(t, L, d, d + l - 1)

\* And Partitioned, after i of them, w of which are less than the last.
Parted(t, d, l, i, w) ==
  /\ w <= i /\ (i = 0 \/ i < l)
  /\ \A j \in 0..(w - 1) : t[d + j] < t[d + l - 1]
  /\ \A j \in w..(i - 1) : t[d + j] >= t[d + l - 1]

\* The state of nth_min, of the buffer t with L of N entries in use.
Selection(N, t, L, R, d, l, n, i, w) ==
  /\ N \in Nat /\ t \in [0..(N - 1) -> Nat] /\ L \in 0..N
  /\ d \in Nat /\ l \in Nat /\ n \in Nat /\ i \in Nat /\ w \in Nat
  /\ Narrowed(t, L, R, d, l, n) /\ Parted(t, d, l, i, w)

\* g is t with two entries exchanged.
Swapped(N, t, g, a, b) ==
  /\ g \in [0..(N - 1) -> Nat] /\ g[a] = t[b] /\ g[b] = t[a]
  /\ \A i \in 0..(N - 1) : i # a /\ i # b => g[i] = t[i]

\* An exchange does that.
LEMMA ExchangeSwaps ==
  ASSUME NEW N \in Nat, NEW t \in [0..(N - 1) -> Nat], NEW a \in 0..(N - 1), NEW b \in 0..(N - 1)
  PROVE  Swapped(N, t, Exchange(t, a, b), a, b)
  BY DEF Exchange, Swapped

\* An exchange within the window leaves it one.
LEMMA OutsideExchange ==
  ASSUME NEW N \in Nat, NEW t \in [0..(N - 1) -> Nat], NEW L \in 0..N, NEW d \in Nat, NEW e \in 0..(L - 1),
         Outside(t, L, d, e), NEW a \in d..e, NEW b \in d..e, NEW g, Swapped(N, t, g, a, b)
  PROVE  Outside(g, L, d, e)
<1>1. g[a] = t[b] /\ g[b] = t[a] /\ \A i \in 0..(N - 1) : i # a /\ i # b => g[i] = t[i]
  BY DEF Swapped
<1>2. ASSUME NEW i \in 0..(L - 1), NEW j \in d..e
      PROVE  (i < d => g[i] <= g[j]) /\ (i > e => g[j] <= g[i])
  <2>1. PICK k \in d..e : g[j] = t[k]
    <3>1. j \in 0..(N - 1)
      OBVIOUS
    <3> QED
      BY <1>1, <3>1
  <2>2. i < d \/ i > e => g[i] = t[i]
    BY <1>1
  <2>3. (i < d => t[i] <= t[k]) /\ (i > e => t[k] <= t[i])
    BY DEF Outside
  <2> QED
    BY <2>1, <2>2, <2>3
<1> QED
  BY <1>2 DEF Outside

\* An iteration of the loop: an entry less than the pivot moves to the front.
LEMMA LoopExchanges ==
  ASSUME NEW N, NEW t, NEW L, NEW R, NEW d, NEW l, NEW n, NEW i, NEW w,
         Selection(N, t, L, R, d, l, n, i, w), i < l - 1, t[d + i] < t[d + l - 1],
         NEW g, g = Exchange(t, d + w, d + i)
  PROVE  Selection(N, g, L, R, d, l, n, i + 1, w + 1)
<1>1. /\ N \in Nat /\ t \in [0..(N - 1) -> Nat] /\ L \in 0..N
      /\ d \in Nat /\ l \in Nat /\ n \in Nat /\ i \in Nat /\ w \in Nat
      /\ Narrowed(t, L, R, d, l, n) /\ Parted(t, d, l, i, w)
  BY DEF Selection
<1> USE <1>1
<1>2. w <= i /\ d + l <= L
  BY DEF Parted, Narrowed
<1>3. PICK a, b, e : a = d + w /\ b = d + i /\ e = d + l - 1
  OBVIOUS
<1>4. a \in d..e /\ b \in d..e /\ a \in 0..(N - 1) /\ b \in 0..(N - 1) /\ e \in 0..(L - 1) /\ e # a /\ e # b
  BY <1>2, <1>3
<1>5. Swapped(N, t, g, a, b)
  BY <1>3, <1>4, ExchangeSwaps
<1>6. Outside(g, L, d, e)
  <2>1. Outside(t, L, d, e)
    BY <1>3 DEF Narrowed
  <2> QED
    BY <1>4, <1>5, <2>1, OutsideExchange
<1>7. Narrowed(g, L, R, d, l, n)
  BY <1>3, <1>6 DEF Narrowed
<1>8. /\ g \in [0..(N - 1) -> Nat] /\ g[a] = t[b] /\ g[b] = t[a] /\ g[e] = t[e]
      /\ \A j \in 0..(N - 1) : j # a /\ j # b => g[j] = t[j]
  <2>1. e \in 0..(N - 1)
    BY <1>4
  <2> QED
    BY <1>4, <1>5, <2>1 DEF Swapped
<1>9. ASSUME NEW j \in 0..w PROVE g[d + j] < g[e]
  <2>1. CASE j = w
    BY <1>3, <1>8, <2>1
  <2>2. CASE j # w
    <3>1. j \in 0..(w - 1) /\ d + j # a /\ d + j # b /\ d + j \in 0..(N - 1)
      BY <1>2, <1>3, <1>4, <2>2
    <3>2. t[d + j] < t[e]
      BY <1>3, <3>1 DEF Parted
    <3> QED
      BY <1>8, <3>1, <3>2
  <2> QED
    BY <2>1, <2>2
<1>10. ASSUME NEW j \in (w + 1)..i PROVE g[d + j] >= g[e]
  <2>1. CASE j = i
    <3>1. w \in w..(i - 1)
      BY <2>1
    <3>2. t[a] >= t[e]
      BY <1>3, <3>1 DEF Parted
    <3> QED
      BY <1>3, <1>8, <2>1, <3>2
  <2>2. CASE j # i
    <3>1. j \in w..(i - 1) /\ d + j # a /\ d + j # b /\ d + j \in 0..(N - 1)
      BY <1>2, <1>3, <1>4, <2>2
    <3>2. t[d + j] >= t[e]
      BY <1>3, <3>1 DEF Parted
    <3> QED
      BY <1>8, <3>1, <3>2
  <2> QED
    BY <2>1, <2>2
<1>11. w + 1 <= i + 1 /\ i + 1 < l /\ (w + 1) - 1 = w /\ (i + 1) - 1 = i /\ w + 1 \in Nat /\ i + 1 \in Nat
  BY <1>2
<1>12. Parted(g, d, l, i + 1, w + 1)
  BY <1>3, <1>9, <1>10, <1>11 DEF Parted
<1> QED
  BY <1>7, <1>8, <1>11, <1>12 DEF Selection

\* And one that is not less stays.
LEMMA LoopPasses ==
  ASSUME NEW N, NEW t, NEW L, NEW R, NEW d, NEW l, NEW n, NEW i, NEW w,
         Selection(N, t, L, R, d, l, n, i, w), i < l - 1, ~(t[d + i] < t[d + l - 1])
  PROVE  Selection(N, t, L, R, d, l, n, i + 1, w)
<1>1. /\ N \in Nat /\ t \in [0..(N - 1) -> Nat] /\ L \in 0..N
      /\ d \in Nat /\ l \in Nat /\ n \in Nat /\ i \in Nat /\ w \in Nat
      /\ Narrowed(t, L, R, d, l, n) /\ Parted(t, d, l, i, w)
  BY DEF Selection
<1> USE <1>1
<1>2. w <= i /\ d + l <= L
  BY DEF Parted, Narrowed
<1>3. PICK b, e : b = d + i /\ e = d + l - 1
  OBVIOUS
<1>4. b \in 0..(N - 1) /\ e \in 0..(N - 1)
  BY <1>2, <1>3
<1>5. t[b] \in Nat /\ t[e] \in Nat
  BY <1>4
<1>6. t[b] >= t[e]
  BY <1>3, <1>5
<1>7. ASSUME NEW j \in w..i PROVE t[d + j] >= t[e]
  <2>1. CASE j = i
    BY <1>3, <1>6, <2>1
  <2>2. CASE j # i
    <3>1. j \in w..(i - 1)
      BY <1>2, <2>2
    <3> QED
      BY <1>3, <3>1 DEF Parted
  <2> QED
    BY <2>1, <2>2
<1>8. w <= i + 1 /\ i + 1 < l /\ (i + 1) - 1 = i /\ i + 1 \in Nat
  BY <1>2
<1>9. \A j \in 0..(w - 1) : t[d + j] < t[e]
  BY <1>3 DEF Parted
<1>10. Parted(t, d, l, i + 1, w)
  BY <1>3, <1>7, <1>8, <1>9 DEF Parted
<1> QED
  BY <1>8, <1>10 DEF Selection

\* The entry at p has no greater one before it and no lesser one after it.
Placed(g, L, p) ==
  \A i \in 0..(L - 1) : (i < p => g[i] <= g[p]) /\ (i > p => g[p] <= g[i])

\* After the loop the pivot goes to its place.
LEMMA PivotPlaced ==
  ASSUME NEW N, NEW t, NEW L, NEW R, NEW d, NEW l, NEW n, NEW w,
         Selection(N, t, L, R, d, l, n, l - 1, w), l > 1,
         NEW p, p = d + w, NEW e, e = d + l - 1, NEW g, g = Exchange(t, p, e)
  PROVE  g \in [0..(N - 1) -> Nat] /\ g[p] = t[e] /\ p \in d..e /\ Placed(g, L, p) /\ Outside(g, L, d, e)
<1>1. /\ N \in Nat /\ t \in [0..(N - 1) -> Nat] /\ L \in 0..N
      /\ d \in Nat /\ l \in Nat /\ n \in Nat /\ w \in Nat
      /\ Narrowed(t, L, R, d, l, n) /\ Parted(t, d, l, l - 1, w)
  BY DEF Selection
<1> USE <1>1
<1>2. w <= l - 1 /\ d + l <= L
  BY DEF Parted, Narrowed
<1>3. p \in 0..(N - 1) /\ e \in 0..(N - 1) /\ p \in d..e /\ e \in d..e /\ e \in 0..(L - 1)
  BY <1>2
<1>4. Swapped(N, t, g, p, e)
  BY <1>3, ExchangeSwaps
<1>5. Outside(g, L, d, e)
  <2>1. Outside(t, L, d, e)
    BY DEF Narrowed
  <2> QED
    BY <1>3, <1>4, <2>1, OutsideExchange
<1>6. /\ g \in [0..(N - 1) -> Nat] /\ g[p] = t[e] /\ g[e] = t[p]
      /\ \A j \in 0..(N - 1) : j # p /\ j # e => g[j] = t[j]
  BY <1>4 DEF Swapped
<1>7. \A i \in 0..(L - 1), j \in d..e : (i < d => g[i] <= g[j]) /\ (i > e => g[j] <= g[i])
  BY <1>5 DEF Outside
<1>8. ASSUME NEW i \in 0..(L - 1), i < p PROVE g[i] <= g[p]
  <2>1. CASE i < d
    BY <1>3, <1>7, <2>1
  <2>2. CASE i >= d
    <3>1. PICK j : j = i - d
      OBVIOUS
    <3>2. j \in 0..(w - 1) /\ i = d + j /\ i # p /\ i # e /\ i \in 0..(N - 1)
      BY <1>2, <1>8, <2>2, <3>1
    <3>3. t[i] < t[e]
      BY <3>2 DEF Parted
    <3>4. t[i] \in Nat /\ t[e] \in Nat
      BY <1>3, <3>2
    <3> QED
      BY <1>6, <3>2, <3>3, <3>4
  <2> QED
    BY <2>1, <2>2
<1>9. ASSUME NEW i \in 0..(L - 1), i > p PROVE g[p] <= g[i]
  <2>1. CASE i > e
    BY <1>3, <1>7, <2>1
  <2>2. CASE i = e
    <3>1. w \in w..((l - 1) - 1)
      BY <1>2, <1>9, <2>2
    <3>2. t[p] >= t[e]
      BY <3>1 DEF Parted
    <3>3. t[p] \in Nat /\ t[e] \in Nat
      BY <1>3
    <3> QED
      BY <1>6, <2>2, <3>2, <3>3
  <2>3. CASE i < e
    <3>1. PICK j : j = i - d
      OBVIOUS
    <3>2. j \in w..((l - 1) - 1) /\ i = d + j /\ i # p /\ i # e /\ i \in 0..(N - 1)
      BY <1>2, <1>9, <2>3, <3>1
    <3>3. t[i] >= t[e]
      BY <3>2 DEF Parted
    <3>4. t[i] \in Nat /\ t[e] \in Nat
      BY <1>3, <3>2
    <3> QED
      BY <1>6, <3>2, <3>3, <3>4
  <2> QED
    BY <1>3, <2>1, <2>2, <2>3
<1>10. Placed(g, L, p)
  BY <1>8, <1>9 DEF Placed
<1> QED
  BY <1>3, <1>5, <1>6, <1>10

\* Before the loop nothing has been compared.
LEMMA PartedAtFirst ==
  ASSUME NEW t, NEW d, NEW l
  PROVE  Parted(t, d, l, 0, 0)
  BY DEF Parted

\* The search ends at the pivot.
LEMMA SearchEnds ==
  ASSUME NEW N, NEW t, NEW L, NEW R, NEW d, NEW l, NEW n, NEW w,
         Selection(N, t, L, R, d, l, n, l - 1, w), l > 1,
         NEW g, g = Exchange(t, d + w, d + l - 1)
  PROVE  g[d + w] = t[d + l - 1] /\ Placed(g, L, d + w)
<1>1. PICK p, e : p = d + w /\ e = d + l - 1
  OBVIOUS
<1>2. g[p] = t[e] /\ Placed(g, L, p)
  BY <1>1, PivotPlaced
<1> QED
  BY <1>1, <1>2

\* The search goes on before the pivot.
LEMMA SearchBefore ==
  ASSUME NEW N, NEW t, NEW L, NEW R, NEW d, NEW l, NEW n, NEW w,
         Selection(N, t, L, R, d, l, n, l - 1, w), l > 1, n <= w,
         NEW g, g = Exchange(t, d + w, d + l - 1)
  PROVE  Selection(N, g, L, R, d, w, n, 0, 0)
<1>1. /\ N \in Nat /\ L \in 0..N /\ d \in Nat /\ l \in Nat /\ n \in Nat /\ w \in Nat
      /\ Narrowed(t, L, R, d, l, n) /\ Parted(t, d, l, l - 1, w)
  BY DEF Selection
<1>2. PICK p, e : p = d + w /\ e = d + l - 1
  OBVIOUS
<1>3. g \in [0..(N - 1) -> Nat] /\ Placed(g, L, p) /\ Outside(g, L, d, e)
  BY <1>2, PivotPlaced
<1>4. w <= l - 1 /\ d + l <= L /\ n \in 1..l /\ d + n = R
  BY <1>1 DEF Parted, Narrowed
<1>5. w > 0 /\ d + w <= L /\ (w = 1 \/ n \in 1..w) /\ d + (IF w = 1 THEN 1 ELSE n) = R
  BY <1>1, <1>4
<1>6. ASSUME NEW i \in 0..(L - 1), NEW j \in d..(d + w - 1)
      PROVE  (i < d => g[i] <= g[j]) /\ (i > d + w - 1 => g[j] <= g[i])
  <2>1. j \in d..e /\ j \in 0..(L - 1) /\ j < p /\ p \in 0..(L - 1) /\ p \in 0..(N - 1) /\ i \in 0..(N - 1)
        /\ j \in 0..(N - 1)
    BY <1>1, <1>2, <1>4, <1>5
  <2>2. g[i] \in Nat /\ g[j] \in Nat /\ g[p] \in Nat
    BY <1>3, <2>1
  <2>3. i < d => g[i] <= g[j]
    BY <1>3, <2>1 DEF Outside
  <2>4. ASSUME i > d + w - 1 PROVE g[p] <= g[i]
    <3>1. i = p \/ i > p
      BY <1>1, <1>2, <2>4
    <3> QED
      BY <1>3, <2>2, <3>1 DEF Placed
  <2>5. g[j] <= g[p]
    BY <1>3, <2>1 DEF Placed
  <2>6. i > d + w - 1 => g[j] <= g[i]
    BY <2>2, <2>4, <2>5
  <2> QED
    BY <2>3, <2>6
<1>7. Narrowed(g, L, R, d, w, n)
  BY <1>5, <1>6 DEF Narrowed, Outside
<1> QED
  BY <1>1, <1>3, <1>7, PartedAtFirst DEF Selection

\* The search goes on after the pivot.
LEMMA SearchAfter ==
  ASSUME NEW N, NEW t, NEW L, NEW R, NEW d, NEW l, NEW n, NEW w,
         Selection(N, t, L, R, d, l, n, l - 1, w), l > 1, n > w + 1,
         NEW g, g = Exchange(t, d + w, d + l - 1)
  PROVE  Selection(N, g, L, R, d + w + 1, l - w - 1, n - w - 1, 0, 0)
<1>1. /\ N \in Nat /\ L \in 0..N /\ d \in Nat /\ l \in Nat /\ n \in Nat /\ w \in Nat
      /\ Narrowed(t, L, R, d, l, n) /\ Parted(t, d, l, l - 1, w)
  BY DEF Selection
<1>2. PICK p, e : p = d + w /\ e = d + l - 1
  OBVIOUS
<1>3. g \in [0..(N - 1) -> Nat] /\ Placed(g, L, p) /\ Outside(g, L, d, e)
  BY <1>2, PivotPlaced
<1>4. w <= l - 1 /\ d + l <= L /\ n \in 1..l /\ d + n = R
  BY <1>1 DEF Parted, Narrowed
<1>5. PICK x, y, z \in Nat : x = d + w + 1 /\ y = l - w - 1 /\ z = n - w - 1
  BY <1>1, <1>4
<1>6. y > 0 /\ x + y <= L /\ z \in 1..y /\ x + z = R /\ x + y - 1 = e /\ x = p + 1
  BY <1>1, <1>2, <1>4, <1>5
<1>7. (y = 1 \/ z \in 1..y) /\ x + (IF y = 1 THEN 1 ELSE z) = R
  BY <1>6
<1>8. ASSUME NEW i \in 0..(L - 1), NEW j \in x..e
      PROVE  (i < x => g[i] <= g[j]) /\ (i > e => g[j] <= g[i])
  <2>1. j \in d..e /\ j \in 0..(L - 1) /\ j > p /\ p \in 0..(L - 1) /\ p \in 0..(N - 1) /\ i \in 0..(N - 1)
        /\ j \in 0..(N - 1)
    BY <1>1, <1>2, <1>4, <1>6
  <2>2. g[i] \in Nat /\ g[j] \in Nat /\ g[p] \in Nat
    BY <1>3, <2>1
  <2>3. i > e => g[j] <= g[i]
    BY <1>3, <2>1 DEF Outside
  <2>4. ASSUME i < x PROVE g[i] <= g[p]
    <3>1. i = p \/ i < p
      BY <1>1, <1>2, <1>6, <2>4
    <3> QED
      BY <1>3, <2>2, <3>1 DEF Placed
  <2>5. g[p] <= g[j]
    BY <1>3, <2>1 DEF Placed
  <2>6. i < x => g[i] <= g[j]
    BY <2>2, <2>4, <2>5
  <2> QED
    BY <2>3, <2>6
<1>9. Narrowed(g, L, R, x, y, z)
  BY <1>6, <1>7, <1>8 DEF Narrowed, Outside
<1>10. Selection(N, g, L, R, x, y, z, 0, 0)
  BY <1>1, <1>3, <1>5, <1>9, PartedAtFirst DEF Selection
<1> QED
  BY <1>5, <1>10

\* The buffer, and all that was recorded, after one more.
Stored(t, b, x) == [t EXCEPT ![b] = x]
Noted(q, x) == Append(q, x)

\* Recording one more time makes no other occur more often in the buffer, and
\* that one at most once more.
LEMMA RecordOccurrences ==
  ASSUME NEW N \in Nat, NEW t \in [0..(N - 1) -> Nat], NEW I \in SUBSET (0..(N - 1)), NEW K \in SUBSET (0..(N - 1)),
         NEW b \in 0..(N - 1), K \ {b} \subseteq I, NEW S, NEW x \in S, NEW v, NEW q \in Seq(S),
         NEW u, u = Stored(t, b, x), NEW r, r = Noted(q, x),
         Occurrences(t, I, v) <= Occurrences(q, DOMAIN q, v)
  PROVE  Occurrences(u, K, v) <= Occurrences(r, DOMAIN r, v)
<1>1. PICK X, Y, Z, W : /\ X = {i \in I : t[i] = v} /\ Y = {i \in K : u[i] = v}
                        /\ Z = {i \in DOMAIN q : q[i] = v} /\ W = {i \in DOMAIN r : r[i] = v}
  OBVIOUS
<1>2. /\ Occurrences(t, I, v) = Cardinality(X) /\ Occurrences(u, K, v) = Cardinality(Y)
      /\ Occurrences(q, DOMAIN q, v) = Cardinality(Z) /\ Occurrences(r, DOMAIN r, v) = Cardinality(W)
  BY <1>1, Zenon DEF Occurrences
<1>3. IsFiniteSet(0..(N - 1)) /\ X \subseteq 0..(N - 1) /\ Y \subseteq 0..(N - 1)
  <2>1. IsFiniteSet(0..(N - 1))
    <3>1. 0 \in Int /\ N - 1 \in Int
      OBVIOUS
    <3> QED
      BY <3>1, FS_Interval
  <2>2. X \subseteq 0..(N - 1) /\ Y \subseteq 0..(N - 1)
    BY <1>1
  <2> QED
    BY <2>1, <2>2
<1>4. PICK n \in Nat : n = Len(q) /\ DOMAIN q = 1..n
  BY LenProperties
<1>5. DOMAIN r = 1..(n + 1) /\ r[n + 1] = x /\ \A i \in 1..n : r[i] = q[i]
  BY <1>4, AppendElements DEF Noted
<1>6. IsFiniteSet(1..n) /\ Z \subseteq 1..n
  BY <1>1, <1>4, FS_Interval
<1>7. IsFiniteSet(X) /\ IsFiniteSet(Y) /\ IsFiniteSet(Z)
  BY <1>3, <1>6, FS_Subset
<1>8. n + 1 \notin Z
  BY <1>6
<1>9. \A i \in K : i # b => i \in I /\ u[i] = t[i]
  BY DEF Stored
<1>10. u[b] = x
  BY DEF Stored
<1>11. Cardinality(X) <= Cardinality(Z)
  BY <1>2
<1>12. Cardinality(X) \in Nat /\ Cardinality(Y) \in Nat /\ Cardinality(Z) \in Nat
  BY <1>7, FS_CardinalityType
<1>13. CASE v = x
  <2>1. Y \subseteq X \cup {b}
    BY <1>1, <1>9
  <2>2. IsFiniteSet(X \cup {b}) /\ Cardinality(X \cup {b}) <= Cardinality(X) + 1
    <3>1. /\ IsFiniteSet(X \cup {b})
          /\ Cardinality(X \cup {b}) = IF b \in X THEN Cardinality(X) ELSE Cardinality(X) + 1
      BY <1>7, FS_AddElement
    <3> QED
      BY <1>12, <3>1
  <2>3. Cardinality(Y) <= Cardinality(X \cup {b})
    BY <2>1, <2>2, FS_Subset
  <2>4. W = Z \cup {n + 1}
    BY <1>1, <1>4, <1>5, <1>13
  <2>5. Cardinality(W) = Cardinality(Z) + 1
    BY <1>7, <1>8, <2>4, FS_AddElement
  <2>6. Cardinality(X \cup {b}) \in Nat
    BY <2>2, FS_CardinalityType
  <2> QED
    BY <1>2, <1>11, <1>12, <2>2, <2>3, <2>5, <2>6
<1>14. CASE v # x
  <2>1. Y \subseteq X
    BY <1>1, <1>9, <1>10, <1>14
  <2>2. Cardinality(Y) <= Cardinality(X)
    BY <1>7, <2>1, FS_Subset
  <2>3. W = Z
    BY <1>1, <1>4, <1>5, <1>14
  <2> QED
    BY <1>2, <1>11, <1>12, <2>2, <2>3
<1> QED
  BY <1>13, <1>14

\* The numbers behind the types.
LEMMA MetricNumbers ==
  ASSUME MetricTypeOK
  PROVE  /\ MetricCapacity \in Nat \ {0} /\ Time \subseteq Nat /\ times \in [0..(MetricCapacity - 1) -> Nat]
         /\ len \in 0..MetricCapacity /\ Used \subseteq 0..(MetricCapacity - 1) /\ IsFiniteSet(Used)
         /\ count \in Nat
<1>1. MetricCapacity \in Nat \ {0} /\ Time \subseteq Nat /\ count \in Nat
  BY MetricAssumption DEF Time, MetricTypeOK
<1>2. times \in [0..(MetricCapacity - 1) -> Nat]
  BY <1>1 DEF MetricTypeOK
<1>3. len \in 0..MetricCapacity
  BY <1>1 DEF len
<1>4. Used \subseteq 0..(MetricCapacity - 1) /\ IsFiniteSet(Used)
  BY <1>1, <1>3, FS_Interval DEF Used
<1> QED
  BY <1>1, <1>2, <1>3, <1>4

\* Selecting, in terms of Selection.
SelectionOf ==
  Selection(MetricCapacity, times, len, Rank(asked), call.data, call.len, call.n, call.i, call.wi)

Reports ==
  \A r \in reported : UpTo(times, Used, r.value - 1) < Rank(r.percent)
                      /\ Rank(r.percent) <= UpTo(times, Used, r.value)

MetricSound ==
  MetricTypeOK /\ NoneTooOften /\ Extremes /\ Reports /\ (asked # 0 => SelectionOf /\ reported = {})

\* The invariant follows from its form in terms of Selection.
LEMMA MetricSoundIs == MetricSound => MetricInv
<1> SUFFICES ASSUME MetricSound PROVE MetricInv
  OBVIOUS
<1>1. MetricTypeOK /\ NoneTooOften /\ Extremes /\ Reports
  BY DEF MetricSound
<1>2. ASSUME asked # 0 PROVE RankInWindow /\ Partitioned /\ reported = {}
  <2>1. /\ Narrowed(times, len, Rank(asked), call.data, call.len, call.n)
        /\ Parted(times, call.data, call.len, call.i, call.wi) /\ reported = {}
    BY <1>2 DEF MetricSound, SelectionOf, Selection
  <2>2. RankInWindow
    BY <2>1 DEF Narrowed, Outside, RankInWindow, Used, Window, LastIndex
  <2>3. Partitioned
    BY <2>1 DEF Parted, Partitioned, LastIndex
  <2> QED
    BY <2>1, <2>2, <2>3
<1> QED
  BY <1>1, <1>2 DEF MetricInv, Selecting, Reports

\* make_metric.
LEMMA MetricInitial == MetricInit => MetricSound
<1> SUFFICES ASSUME MetricInit PROVE MetricSound
  OBVIOUS
<1>1. /\ times = [i \in 0..(MetricCapacity - 1) |-> 0] /\ count = 0 /\ begin = 0
      /\ least = INVALID_VALUE /\ most = INVALID_VALUE /\ recorded = <<>> /\ asked = 0
      /\ call = [data |-> 0, len |-> 0, n |-> 0, i |-> 0, wi |-> 0] /\ reported = {}
  BY DEF MetricInit, NoCall, Call
<1>2. MetricTypeOK
  BY <1>1, MetricAssumption DEF MetricTypeOK, Time
<1>3. len = 0 /\ Used = {}
  BY <1>1, MetricAssumption DEF len, Used
<1>4. NoneTooOften
  <2>1. \A v : Occurrences(times, Used, v) = 0 /\ Occurrences(recorded, DOMAIN recorded, v) = 0
    <3>1. \A v : {i \in Used : times[i] = v} = {} /\ {i \in DOMAIN recorded : recorded[i] = v} = {}
      BY <1>1, <1>3
    <3> QED
      BY <3>1, FS_EmptySet DEF Occurrences
  <2> QED
    BY <2>1 DEF NoneTooOften
<1>5. Extremes
  BY <1>1 DEF Extremes
<1> QED
  BY <1>1, <1>2, <1>4, <1>5 DEF MetricSound, Reports

\* metric_record.
LEMMA RecordSound ==
  ASSUME MetricSound, NEW time \in Times, metric_record(time)
  PROVE  MetricSound'
<1>1. /\ MetricTypeOK /\ NoneTooOften /\ Extremes
      /\ asked = 0 /\ asked' = 0 /\ call' = call /\ reported' = {} /\ count' = count + 1
      /\ times' = [times EXCEPT ![begin] = time] /\ begin' = (begin + 1) % MetricCapacity
      /\ recorded' = Append(recorded, time)
      /\ least' = IF least = INVALID_VALUE \/ time < least THEN time ELSE least
      /\ most' = IF most = INVALID_VALUE \/ time > most THEN time ELSE most
  BY DEF MetricSound, metric_record
<1>2. PICK N \in Nat \ {0} : N = MetricCapacity
  BY MetricAssumption
<1>3. /\ Time \subseteq Nat /\ times \in [0..(N - 1) -> Nat] /\ len \in 0..N
      /\ Used \subseteq 0..(N - 1) /\ count \in Nat /\ time \in Time /\ time \in Nat
  BY <1>1, <1>2, MetricNumbers DEF Time
<1>4. /\ times \in [0..(N - 1) -> Time] /\ begin \in 0..(N - 1) /\ (count < N => begin = count)
      /\ recorded \in Seq(Time) /\ Len(recorded) = count
  BY <1>1, <1>2 DEF MetricTypeOK
<1>5. begin' \in 0..(N - 1) /\ (count + 1 < N => begin' = count + 1)
  <2>1. PICK a \in 0..(2 * N - 1) : a = begin + 1
    BY <1>4
  <2>2. a % N = IF a < N THEN a ELSE a - N
    BY WrapAround
  <2>3. begin' = a % N
    BY <1>1, <1>2, <2>1
  <2> QED
    BY <1>3, <1>4, <2>1, <2>2, <2>3
<1>6. recorded' \in Seq(Time) /\ Len(recorded') = count + 1 /\ ToSet(recorded') = ToSet(recorded) \cup {time}
  <2>1. recorded' \in Seq(Time) /\ Len(recorded') = Len(recorded) + 1
    BY <1>1, <1>3, <1>4, AppendElements
  <2>2. ToSet(recorded') = ToSet(recorded) \cup {time}
    BY <1>1, <1>3, <1>4, AppendSet
  <2> QED
    BY <1>4, <2>1, <2>2
<1>7. MetricTypeOK'
  <2>1. times' \in [0..(N - 1) -> Time]
    BY <1>1, <1>3, <1>4
  <2>2. /\ asked' \in Percents \cup {0} /\ call' \in [data : Nat, len : Nat, n : Nat, i : Nat, wi : Nat]
        /\ reported' \in SUBSET [percent : Percents, value : Time]
    BY <1>1 DEF MetricTypeOK
  <2> QED
    BY <1>1, <1>2, <1>3, <1>5, <1>6, <2>1, <2>2 DEF MetricTypeOK, Time
<1>8. NoneTooOften'
  <2>1. PICK I, K \in SUBSET (0..(N - 1)) : I = Used /\ K = Used' /\ K \ {begin} \subseteq I
    <3>1. len = IF count < N THEN count ELSE N
      BY <1>2 DEF len
    <3>2. len' = IF count + 1 < N THEN count + 1 ELSE N
      BY <1>1, <1>2 DEF len
    <3>3. Used = 0..(len - 1) /\ Used' = 0..(len' - 1)
      BY DEF Used
    <3>4. Used' \subseteq 0..(N - 1) /\ Used' \ {begin} \subseteq Used
      BY <1>3, <1>4, <3>1, <3>2, <3>3
    <3> QED
      BY <1>3, <3>4
  <2>2. ASSUME NEW v \in Time PROVE Occurrences(times', K, v) <= Occurrences(recorded', DOMAIN recorded', v)
    <3>1. Occurrences(times, I, v) <= Occurrences(recorded, DOMAIN recorded, v)
      BY <1>1, <2>1 DEF NoneTooOften
    <3>2. PICK u, r : u = times' /\ r = recorded'
      OBVIOUS
    <3>3. u = Stored(times, begin, time) /\ r = Noted(recorded, time)
      BY <1>1, <3>2 DEF Stored, Noted
    <3>4. N \in Nat /\ times \in [0..(N - 1) -> Nat] /\ begin \in 0..(N - 1) /\ time \in Time /\ recorded \in Seq(Time)
      BY <1>3, <1>4
    <3>5. Occurrences(u, K, v) <= Occurrences(r, DOMAIN r, v)
      BY ONLY <2>1, <3>1, <3>3, <3>4, RecordOccurrences
    <3> QED
      BY <3>2, <3>5
  <2> QED
    BY <2>1, <2>2 DEF NoneTooOften, Time
<1>9. Extremes'
  <2>1. PICK l, m, q, r : l = least' /\ m = most' /\ q = recorded /\ r = recorded'
    OBVIOUS
  <2>2. l \in Range(r) /\ m \in Range(r) /\ \A x \in Range(r) : l <= x /\ x <= m
    <3>1. Range(q) = ToSet(q) /\ Range(r) = ToSet(r) /\ Range(r) = Range(q) \cup {time}
      BY <1>6, <2>1 DEF Range, ToSet
    <3>2. \A x \in Range(q) : x \in Nat
      BY <1>3, <1>4, <2>1, LenProperties DEF Range
    <3>3. CASE count = 0
      <4>1. Range(q) = {}
        BY <1>4, <2>1, <3>3, LenProperties DEF Range
      <4>2. l = time /\ m = time
        BY <1>1, <2>1, <3>3 DEF Extremes
      <4> QED
        BY <1>3, <3>1, <4>1, <4>2
    <3>4. CASE count # 0
      <4>1. least \in Range(q) /\ most \in Range(q) /\ \A x \in Range(q) : least <= x /\ x <= most
        BY <1>1, <2>1, <3>4 DEF Extremes, Range
      <4>2. /\ least \in Nat /\ most \in Nat
            /\ l = (IF time < least THEN time ELSE least) /\ m = (IF time > most THEN time ELSE most)
        BY <1>1, <2>1, <3>2, <4>1 DEF INVALID_VALUE
      <4> QED
        BY <1>3, <3>1, <3>2, <4>1, <4>2
    <3> QED
      BY <3>3, <3>4
  <2>3. \A i \in DOMAIN r : l <= r[i] /\ r[i] <= m
    BY <2>2 DEF Range
  <2>4. count' # 0
    BY <1>1, <1>3
  <2> QED
    BY <2>1, <2>2, <2>3, <2>4 DEF Extremes, Range
<1> QED
  BY <1>1, <1>7, <1>8, <1>9 DEF MetricSound, Reports


\* What every step but metric_record leaves as it was.
MetricKept ==
  count' = count /\ begin' = begin /\ least' = least /\ most' = most /\ recorded' = recorded

\* So the entries in use, and the rank of a percentile among them, stay.
LEMMA KeptRanks ==
  ASSUME MetricKept
  PROVE  len' = len /\ Used' = Used /\ (\A p : Rank(p)' = Rank(p)) /\ (Extremes => Extremes')
<1>1. len' = len
  BY DEF MetricKept, len
<1>2. Used' = Used
  BY <1>1 DEF Used
<1>3. \A p : Rank(p)' = Rank(p)
  BY <1>1 DEF Rank
<1>4. Extremes => Extremes'
  BY DEF MetricKept, Extremes, Range
<1> QED
  BY <1>1, <1>2, <1>3, <1>4

\* An exchange of entries in use keeps what the invariant says of the buffer.
LEMMA ExchangeKeeps ==
  ASSUME MetricTypeOK, NoneTooOften, MetricKept, NEW a \in Used, NEW b \in Used, times' = Exchange(times, a, b)
  PROVE  times' \in [0..(MetricCapacity - 1) -> Time] /\ NoneTooOften'
<1>1. PICK D, I, t, S : D = 0..(MetricCapacity - 1) /\ I = Used /\ t = times /\ S = Time
  OBVIOUS
<1>2. I \in SUBSET D /\ IsFiniteSet(I) /\ t \in [D -> S] /\ a \in I /\ b \in I
  BY <1>1, MetricNumbers DEF MetricTypeOK
<1>3. Exchange(times, a, b) \in [D -> S]
  BY <1>1, <1>2, ExchangedEntries
<1>4. ASSUME NEW v PROVE Occurrences(Exchange(times, a, b), I, v) = Occurrences(times, I, v)
  <2>1. Occurrences(Exchange(t, a, b), I, v) = Occurrences(t, I, v)
    BY ONLY <1>2, ExchangeOccurrences
  <2> QED
    BY <1>1, <2>1
<1>5. Used' = I /\ recorded' = recorded
  BY <1>1, KeptRanks DEF MetricKept
<1>6. \A v \in Time : Occurrences(times', Used', v) <= Occurrences(recorded', DOMAIN recorded', v)
  BY <1>1, <1>4, <1>5 DEF NoneTooOften
<1>7. NoneTooOften'
  BY <1>6 DEF NoneTooOften, Time
<1> QED
  BY <1>1, <1>3, <1>7

\* The type of a call of nth_min.
LEMMA CallFields ==
  ASSUME NEW d \in Nat, NEW l \in Nat, NEW n \in Nat, NEW i \in Nat, NEW w \in Nat, NEW c,
         c = [data |-> d, len |-> l, n |-> n, i |-> i, wi |-> w]
  PROVE  /\ c \in [data : Nat, len : Nat, n : Nat, i : Nat, wi : Nat]
         /\ c.data = d /\ c.len = l /\ c.n = n /\ c.i = i /\ c.wi = w
  OBVIOUS

\* A step of nth_min that does not return keeps the invariant when its call is
\* a selection still.
LEMMA StillSelecting ==
  ASSUME MetricSound, MetricKept, NoneTooOften', times' \in [0..(MetricCapacity - 1) -> Time],
         asked' \in Percents, reported' = {},
         NEW d, NEW l, NEW n, NEW i, NEW w, call' = [data |-> d, len |-> l, n |-> n, i |-> i, wi |-> w],
         Selection(MetricCapacity, times', len, Rank(asked'), d, l, n, i, w)
  PROVE  MetricSound'
<1>1. d \in Nat /\ l \in Nat /\ n \in Nat /\ i \in Nat /\ w \in Nat
  BY DEF Selection
<1>2. /\ call' \in [data : Nat, len : Nat, n : Nat, i : Nat, wi : Nat]
      /\ call'.data = d /\ call'.len = l /\ call'.n = n /\ call'.i = i /\ call'.wi = w
  <2>1. PICK c : c = call'
    OBVIOUS
  <2> QED
    BY <1>1, <2>1, CallFields
<1>3. MetricTypeOK /\ Extremes
  BY DEF MetricSound
<1>4. MetricTypeOK'
  <2>1. reported' \in SUBSET [percent : Percents, value : Time]
    OBVIOUS
  <2> QED
    BY <1>2, <1>3, <2>1 DEF MetricTypeOK, MetricKept, Time
<1>5. SelectionOf'
  <2>1. len' = len /\ Rank(asked)' = (IF len' = 1 THEN 1 ELSE (asked' * len') \div 100)
    BY KeptRanks DEF Rank
  <2>2. Rank(asked') = (IF len = 1 THEN 1 ELSE (asked' * len) \div 100)
    BY DEF Rank
  <2>3. Rank(asked)' = Rank(asked')
    BY <2>1, <2>2
  <2> QED
    BY <1>2, <2>1, <2>3 DEF SelectionOf
<1>6. Extremes' /\ Reports'
  BY <1>3, KeptRanks DEF Reports
<1> QED
  BY <1>4, <1>5, <1>6 DEF MetricSound

\* metric_ratio.
LEMMA RatioSound ==
  ASSUME MetricSound, NEW percent \in Percents, metric_ratio(percent)
  PROVE  MetricSound'
<1>1. /\ len > 0 /\ asked' = percent /\ reported' = {} /\ times' = times /\ MetricKept
      /\ call' = Call(0, len, (percent * len) \div 100)
  BY DEF metric_ratio, MetricKept
<1>2. MetricTypeOK /\ NoneTooOften
  BY DEF MetricSound
<1>3. PICK N, L \in Nat : /\ N = MetricCapacity /\ L = len /\ L > 0 /\ L <= N
                          /\ times \in [0..(N - 1) -> Nat] /\ times \in [0..(N - 1) -> Time]
  <2>1. MetricCapacity \in Nat /\ len \in 0..MetricCapacity /\ times \in [0..(MetricCapacity - 1) -> Nat]
    BY <1>2, MetricNumbers
  <2>2. times \in [0..(MetricCapacity - 1) -> Time]
    BY <1>2 DEF MetricTypeOK
  <2>3. len \in Nat /\ len <= MetricCapacity
    BY <2>1
  <2> QED
    BY <1>1, <2>1, <2>2, <2>3
<1>4. PICK n \in Nat : n = (percent * L) \div 100 /\ (L = 1 \/ n \in 1..L)
  <2>1. percent \in 50..99
    BY MetricAssumption
  <2>2. CASE L = 1
    <3>1. (percent * L) \div 100 = 0
      BY <2>1, <2>2
    <3> QED
      BY <2>2, <3>1
  <2>3. CASE L # 1
    <3>1. L \in Nat \ {0, 1}
      BY <1>3, <2>3
    <3>2. (percent * L) \div 100 \in 1..L
      BY <2>1, <3>1, RankInRange
    <3> QED
      BY <3>2
  <2> QED
    BY <2>2, <2>3
<1>5. PICK R : R = Rank(percent) /\ 0 + (IF L = 1 THEN 1 ELSE n) = R
  <2>1. Rank(percent) = IF L = 1 THEN 1 ELSE n
    BY <1>3, <1>4, Zenon DEF Rank
  <2>2. 0 + (IF L = 1 THEN 1 ELSE n) = IF L = 1 THEN 1 ELSE n
    BY <1>4
  <2> QED
    BY <2>1, <2>2
<1>6. Outside(times, L, 0, 0 + L - 1)
  BY <1>3 DEF Outside
<1>7. Selection(N, times, L, R, 0, L, n, 0, 0)
  <2>1. Narrowed(times, L, R, 0, L, n)
    BY <1>3, <1>4, <1>5, <1>6 DEF Narrowed
  <2> QED
    BY <1>3, <2>1, PartedAtFirst DEF Selection
<1>8. NoneTooOften'
  <2>1. Used' = Used /\ recorded' = recorded
    BY <1>1, KeptRanks DEF MetricKept
  <2> QED
    BY <1>1, <1>2, <2>1 DEF NoneTooOften, Time
<1>9. call' = [data |-> 0, len |-> L, n |-> n, i |-> 0, wi |-> 0]
  BY <1>1, <1>3, <1>4 DEF Call
<1>10. Selection(MetricCapacity, times', len, Rank(asked'), 0, L, n, 0, 0)
  BY <1>1, <1>3, <1>5, <1>7
<1>11. times' \in [0..(MetricCapacity - 1) -> Time] /\ asked' \in Percents
  BY <1>1, <1>3
<1> QED
  BY <1>1, <1>8, <1>9, <1>10, <1>11, StillSelecting

\* An iteration of the loop.
LEMMA PartitionSound ==
  ASSUME MetricSound, Partition
  PROVE  MetricSound'
<1>1. /\ asked # 0 /\ call.i < call.len - 1 /\ asked' = asked /\ reported' = reported /\ MetricKept
      /\ IF times[call.data + call.i] < times[LastIndex]
         THEN /\ times' = Exchanged(call.data + call.wi, call.data + call.i)
              /\ call' = [call EXCEPT !.i = @ + 1, !.wi = @ + 1]
         ELSE call' = [call EXCEPT !.i = @ + 1] /\ times' = times
  BY DEF Partition, MetricKept
<1>2. MetricTypeOK /\ NoneTooOften /\ SelectionOf /\ reported = {}
  BY <1>1 DEF MetricSound
<1>3. PICK N, L, R : N = MetricCapacity /\ L = len /\ R = Rank(asked)
  OBVIOUS
<1>4. PICK d, l, n, i, w \in Nat : /\ d = call.data /\ l = call.len /\ n = call.n /\ i = call.i /\ w = call.wi
                                   /\ call = [data |-> d, len |-> l, n |-> n, i |-> i, wi |-> w]
  BY <1>2 DEF MetricTypeOK
<1>5. Selection(N, times, L, R, d, l, n, i, w)
  BY <1>2, <1>3, <1>4 DEF SelectionOf
<1>6. asked' \in Percents /\ reported' = {} /\ times \in [0..(MetricCapacity - 1) -> Time]
  BY <1>1, <1>2 DEF MetricTypeOK
<1>7. i < l - 1 /\ LastIndex = d + l - 1
  BY <1>1, <1>4 DEF LastIndex
<1>8. CASE times[d + i] < times[d + l - 1]
  <2>1. times' = Exchange(times, d + w, d + i) /\ call' = [call EXCEPT !.i = @ + 1, !.wi = @ + 1]
    BY <1>1, <1>4, <1>7, <1>8 DEF Exchanged, Exchange
  <2>2. call' = [data |-> d, len |-> l, n |-> n, i |-> i + 1, wi |-> w + 1]
    BY <1>4, <2>1
  <2>3. PICK g : g = times'
    OBVIOUS
  <2>4. Selection(N, g, L, R, d, l, n, i + 1, w + 1)
    BY <1>5, <1>7, <1>8, <2>1, <2>3, LoopExchanges
  <2>5. d + w \in Used /\ d + i \in Used
    <3>1. w <= i /\ d + l <= L /\ L \in Nat
      BY <1>5 DEF Selection, Narrowed, Parted
    <3> QED
      BY <1>3, <1>7, <3>1 DEF Used
  <2>6. times' \in [0..(MetricCapacity - 1) -> Time] /\ NoneTooOften'
    BY <1>1, <1>2, <2>1, <2>5, ExchangeKeeps
  <2>7. Selection(MetricCapacity, times', len, Rank(asked'), d, l, n, i + 1, w + 1)
    BY <1>1, <1>3, <2>3, <2>4
  <2> QED
    BY <1>1, <1>6, <2>2, <2>6, <2>7, StillSelecting
<1>9. CASE ~(times[d + i] < times[d + l - 1])
  <2>1. times' = times /\ call' = [call EXCEPT !.i = @ + 1]
    BY <1>1, <1>4, <1>7, <1>9
  <2>2. call' = [data |-> d, len |-> l, n |-> n, i |-> i + 1, wi |-> w]
    BY <1>4, <2>1
  <2>3. Selection(N, times, L, R, d, l, n, i + 1, w)
    BY <1>5, <1>7, <1>9, LoopPasses
  <2>4. NoneTooOften'
    <3>1. Used' = Used /\ recorded' = recorded
      BY <1>1, KeptRanks DEF MetricKept
    <3> QED
      BY <1>2, <2>1, <3>1 DEF NoneTooOften, Time
  <2>5. Selection(MetricCapacity, times', len, Rank(asked'), d, l, n, i + 1, w)
    BY <1>1, <1>3, <2>1, <2>3
  <2> QED
    BY <1>1, <1>6, <2>1, <2>2, <2>4, <2>5, StillSelecting
<1> QED
  BY <1>8, <1>9


\* nth_min returns an entry that is in its place.
LEMMA ReturnSound ==
  ASSUME MetricSound, MetricKept, NoneTooOften', times' \in [0..(MetricCapacity - 1) -> Time],
         asked \in Percents, NEW value, Return(value),
         NEW p \in 0..(len - 1), value = times'[p], Placed(times', len, p), p + 1 = Rank(asked)
  PROVE  MetricSound'
<1>1. reported' = {[percent |-> asked, value |-> value]} /\ asked' = 0 /\ call' = NoCall
  BY DEF Return
<1>2. MetricTypeOK /\ Extremes
  BY DEF MetricSound
<1>3. /\ MetricCapacity \in Nat /\ len \in 0..MetricCapacity /\ Time \subseteq Nat
      /\ len' = len /\ Used' = Used /\ Used = 0..(len - 1) /\ Extremes'
  BY <1>2, MetricNumbers, KeptRanks DEF Used
<1>4. p \in 0..(MetricCapacity - 1)
  BY <1>3
<1>5. value \in Time
  BY <1>4
<1>6. MetricTypeOK'
  <2>1. call' \in [data : Nat, len : Nat, n : Nat, i : Nat, wi : Nat]
    BY <1>1 DEF NoCall, Call
  <2>2. reported' \in SUBSET [percent : Percents, value : Time]
    BY <1>1, <1>5
  <2> QED
    BY <1>1, <1>2, <2>1, <2>2 DEF MetricTypeOK, MetricKept, Time
<1>7. UpTo(times', Used', value - 1) < Rank(asked) /\ Rank(asked) <= UpTo(times', Used', value)
  <2>1. PICK g, L : g = times' /\ L = len /\ L \in Nat /\ L <= MetricCapacity
    BY <1>3
  <2>2. \A i \in 0..(L - 1) : g[i] \in Int
    <3>1. \A i \in 0..(L - 1) : i \in 0..(MetricCapacity - 1)
      BY <1>3, <2>1
    <3> QED
      <4> SUFFICES ASSUME NEW i \in 0..(L - 1) PROVE g[i] \in Nat
        OBVIOUS
      <4>1. g \in [0..(MetricCapacity - 1) -> Time] /\ i \in 0..(MetricCapacity - 1)
        BY <2>1, <3>1
      <4>2. g[i] \in Time
        BY ONLY <4>1
      <4>3. Time \subseteq Nat
        BY <1>2, MetricNumbers
      <4> QED
        BY <4>2, <4>3, Zenon
  <2>3. p \in 0..(L - 1) /\ value = g[p]
    BY <2>1
  <2>4. \A i \in 0..(L - 1) : (i < p => g[i] <= value) /\ (i > p => value <= g[i])
    BY <2>1, <2>3 DEF Placed
  <2>5. UpTo(g, 0..(L - 1), value - 1) < p + 1 /\ p + 1 <= UpTo(g, 0..(L - 1), value)
    BY ONLY <2>1, <2>2, <2>3, <2>4, RankOfPlace
  <2> QED
    BY <1>3, <2>1, <2>5
<1>8. Reports'
  <2>1. Rank(asked) = (IF len = 1 THEN 1 ELSE (asked * len) \div 100)
    BY DEF Rank
  <2>2. ASSUME NEW r \in reported'
        PROVE  UpTo(times, Used, r.value - 1)' < Rank(r.percent)' /\ Rank(r.percent)' <= UpTo(times, Used, r.value)'
    <3>1. r.value = value /\ r.percent = asked
      BY <1>1
    <3>2. Rank(r.percent)' = Rank(asked)
      BY <1>3, <2>1, <3>1 DEF Rank
    <3> QED
      BY <1>7, <3>1, <3>2 DEF UpTo
  <2> QED
    BY <2>2 DEF Reports
<1> QED
  BY <1>1, <1>3, <1>6, <1>8 DEF MetricSound

\* The rest of nth_min.
LEMMA NthMinSound ==
  ASSUME MetricSound, nth_min
  PROVE  MetricSound'
<1>1. asked # 0 /\ MetricKept
  BY DEF nth_min, MetricKept
<1>2. MetricTypeOK /\ NoneTooOften /\ SelectionOf /\ reported = {}
  BY <1>1 DEF MetricSound
<1>3. PICK N, L, R : N = MetricCapacity /\ L = len /\ R = Rank(asked)
  OBVIOUS
<1>4. PICK d, l, n, i, w \in Nat : d = call.data /\ l = call.len /\ n = call.n /\ i = call.i /\ w = call.wi
  BY <1>2 DEF MetricTypeOK
<1>5. Selection(N, times, L, R, d, l, n, i, w)
  BY <1>2, <1>3, <1>4 DEF SelectionOf
<1>6. asked \in Percents /\ times \in [0..(MetricCapacity - 1) -> Time]
  BY <1>1, <1>2 DEF MetricTypeOK
<1>7. /\ N \in Nat /\ times \in [0..(N - 1) -> Nat] /\ L \in 0..N /\ l > 0 /\ d + l <= L
      /\ (l = 1 \/ n \in 1..l) /\ d + (IF l = 1 THEN 1 ELSE n) = R /\ Outside(times, L, d, d + l - 1) /\ w <= i
  BY <1>5 DEF Selection, Narrowed, Parted
<1>8. CASE l = 1
  <2>1. Return(times[d]) /\ times' = times
    BY <1>4, <1>8 DEF nth_min
  <2>2. NoneTooOften'
    <3>1. Used' = Used /\ recorded' = recorded
      BY <1>1, KeptRanks DEF MetricKept
    <3> QED
      BY <1>2, <2>1, <3>1 DEF NoneTooOften, Time
  <2>3. d \in 0..(L - 1) /\ d + 1 = R /\ d + l - 1 = d
    BY <1>7, <1>8
  <2>4. Placed(times, L, d)
    BY <1>7, <2>3 DEF Placed, Outside
  <2> QED
    BY <1>1, <1>3, <1>6, <2>1, <2>2, <2>3, <2>4, ReturnSound
<1>9. CASE l # 1
  <2>1. PICK p, e : p = d + w /\ e = d + l - 1
    OBVIOUS
  <2>2. /\ i = l - 1 /\ times' = Exchange(times, p, e)
        /\ \/ n <= w /\ call' = Call(d, w, n) /\ asked' = asked /\ reported' = reported
           \/ n = w + 1 /\ Return(times[e])
           \/ /\ n > w + 1 /\ call' = Call(d + w + 1, l - w - 1, n - w - 1)
              /\ asked' = asked /\ reported' = reported
    BY <1>4, <1>9, <2>1, Zenon DEF nth_min, Exchanged, Exchange, LastIndex
  <2>3. Selection(N, times, L, R, d, l, n, l - 1, w) /\ l > 1
    BY <1>5, <1>7, <1>9, <2>2
  <2>4. p \in Used /\ e \in Used
    <3>1. w <= l - 1
      BY <1>7, <2>2
    <3> QED
      BY <1>3, <1>7, <2>1, <3>1 DEF Used
  <2>5. times' \in [0..(MetricCapacity - 1) -> Time] /\ NoneTooOften'
    BY <1>1, <1>2, <2>2, <2>4, ExchangeKeeps
  <2>6. PICK t, g : t = times /\ g = times'
    OBVIOUS
  <2>7. CASE n <= w
    <3>1. call' = [data |-> d, len |-> w, n |-> n, i |-> 0, wi |-> 0] /\ asked' = asked /\ reported' = reported
      BY <1>4, <2>2, <2>7 DEF Call
    <3>2. Selection(N, g, L, R, d, w, n, 0, 0)
      BY <2>1, <2>2, <2>3, <2>6, <2>7, SearchBefore
    <3>3. Selection(MetricCapacity, times', len, Rank(asked'), d, w, n, 0, 0)
      BY <1>3, <2>6, <3>1, <3>2
    <3>4. asked' \in Percents /\ reported' = {}
      BY <1>2, <1>6, <3>1
    <3> QED
      BY <1>1, <2>5, <3>1, <3>3, <3>4, StillSelecting
  <2>8. CASE n = w + 1
    <3>1. Return(times[e])
      BY <1>4, <2>2, <2>8
    <3>2. g[p] = t[e] /\ Placed(g, L, p)
      BY <2>1, <2>2, <2>3, <2>6, SearchEnds
    <3>3. p + 1 = R /\ p \in 0..(L - 1)
      BY <1>3, <1>7, <1>9, <2>1, <2>4, <2>8 DEF Used
    <3> QED
      BY <1>1, <1>3, <1>6, <2>5, <2>6, <3>1, <3>2, <3>3, ReturnSound
  <2>9. CASE n > w + 1
    <3>1. /\ call' = [data |-> d + w + 1, len |-> l - w - 1, n |-> n - w - 1, i |-> 0, wi |-> 0]
          /\ asked' = asked /\ reported' = reported
      BY <1>4, <2>2, <2>9 DEF Call
    <3>2. Selection(N, g, L, R, d + w + 1, l - w - 1, n - w - 1, 0, 0)
      BY <2>1, <2>2, <2>3, <2>6, <2>9, SearchAfter
    <3>3. Selection(MetricCapacity, times', len, Rank(asked'), d + w + 1, l - w - 1, n - w - 1, 0, 0)
      BY <1>3, <2>6, <3>1, <3>2
    <3>4. asked' \in Percents /\ reported' = {}
      BY <1>2, <1>6, <3>1
    <3> QED
      BY <1>1, <2>5, <3>1, <3>3, <3>4, StillSelecting
  <2> QED
    BY <1>4, <2>7, <2>8, <2>9
<1> QED
  BY <1>8, <1>9

\* A step that changes nothing.
LEMMA MetricStutter ==
  ASSUME MetricSound, UNCHANGED metricVars
  PROVE  MetricSound'
<1>1. MetricKept /\ asked' = asked /\ call' = call /\ reported' = reported /\ times' = times
  BY DEF metricVars, MetricKept
<1>2. len' = len /\ Used' = Used /\ (\A p : Rank(p)' = Rank(p)) /\ Extremes'
  BY <1>1, KeptRanks DEF MetricSound
<1>3. MetricTypeOK'
  BY <1>1 DEF MetricSound, MetricTypeOK, MetricKept, Time
<1>4. NoneTooOften'
  BY <1>1, <1>2 DEF MetricSound, NoneTooOften, MetricKept, Time
<1>5. Reports' = Reports
  BY <1>1, <1>2 DEF Reports, Rank, UpTo
<1>6. SelectionOf' = SelectionOf
  BY <1>1, <1>2, Zenon DEF SelectionOf, Rank
<1> QED
  BY <1>1, <1>2, <1>3, <1>4, <1>5, <1>6 DEF MetricSound

\* Every operation of metric.c keeps the invariant.
LEMMA MetricSoundAlways == MetricSpec => []MetricSound
<1>1. MetricInit => MetricSound
  BY MetricInitial
<1>2. MetricSound /\ [MetricNext]_metricVars => MetricSound'
  <2> SUFFICES ASSUME MetricSound, [MetricNext]_metricVars PROVE MetricSound'
    OBVIOUS
  <2>1. ASSUME NEW time \in Times, metric_record(time) PROVE MetricSound'
    BY <2>1, RecordSound
  <2>2. ASSUME NEW percent \in Percents, metric_ratio(percent) PROVE MetricSound'
    BY <2>2, RatioSound
  <2>3. CASE Partition
    BY <2>3, PartitionSound
  <2>4. CASE nth_min
    BY <2>4, NthMinSound
  <2>5. CASE UNCHANGED metricVars
    BY <2>5, MetricStutter
  <2> QED
    BY <2>1, <2>2, <2>3, <2>4, <2>5 DEF MetricNext
<1> QED
  BY <1>1, <1>2, PTL DEF MetricSpec

\* The state that metric_record and nth_min keep between their steps: the
\* selection has always narrowed the buffer to a part that holds the time of
\* the rank asked for, and partitioned it up to where the loop is.
THEOREM MetricInvariant == MetricSpec => []MetricInv
  BY MetricSoundAlways, MetricSoundIs, PTL

\* Whatever was recorded and however often percentiles were printed, so the
\* buffer reordered by nth_min, between two times recorded: the statistics of
\* the echo client are exact, for every capacity of the buffer.
THEOREM StatisticsStayExact == MetricSpec => []StatisticsAreExact
<1>1. MetricSound => StatisticsAreExact
  <2> SUFFICES ASSUME MetricSound PROVE StatisticsAreExact
    OBVIOUS
  <2>1. MetricTypeOK /\ NoneTooOften /\ Extremes /\ Reports
    BY DEF MetricSound
  <2>2. /\ MetricCapacity \in Nat /\ Time \subseteq Nat /\ Used \subseteq 0..(MetricCapacity - 1)
        /\ times \in [0..(MetricCapacity - 1) -> Time] /\ recorded \in Seq(Time) /\ Len(recorded) = count
    BY <2>1, MetricNumbers DEF MetricTypeOK
  <2>3. \A i \in Used : times[i] \in Time
    BY <2>2
  <2>4. \A i \in Used : Occurrences(times, Used, times[i]) <= Occurrences(recorded, DOMAIN recorded, times[i])
    BY <2>1, <2>3, Zenon DEF NoneTooOften
  <2>5. \A i \in DOMAIN recorded : recorded[i] \in Nat
    <3>1. \A i \in DOMAIN recorded : recorded[i] \in Time
      BY <2>2, LenProperties
    <3> QED
      BY <2>2, <3>1, Zenon
  <2>6. count > 0 => \A i \in DOMAIN recorded : recorded[i] \in least..most
    <3> SUFFICES ASSUME count > 0, NEW i \in DOMAIN recorded PROVE recorded[i] \in least..most
      OBVIOUS
    <3>1. /\ least \in Range(recorded) /\ most \in Range(recorded)
          /\ least <= recorded[i] /\ recorded[i] <= most
      BY <2>1 DEF Extremes
    <3>2. least \in Nat /\ most \in Nat
      BY <2>5, <3>1 DEF Range
    <3> QED
      BY <2>5, <3>1, <3>2
  <2>7. {least, most} \subseteq Range(recorded) \cup {INVALID_VALUE}
    BY <2>1 DEF Extremes
  <2> QED
    BY <2>1, <2>4, <2>6, <2>7 DEF StatisticsAreExact, Reports
<1> QED
  BY <1>1, MetricSoundAlways, PTL
=============================================================================

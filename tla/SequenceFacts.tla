--------------------------- MODULE SequenceFacts ----------------------------
(***************************************************************************)
(* Facts about sequences and sets that the proofs of the other modules     *)
(* share: what the queues, the lists and the caches of nettle do to the    *)
(* set of their elements, and how long a list without repetitions is.      *)
(***************************************************************************)
EXTENDS Lru, FiniteSets, TLAPS, FiniteSetTheorems, SequenceTheorems, WellFoundedInduction

(* Lengths and cardinalities. *)

\* A list without repetitions has as many elements as entries: a container
\* that is full by its length is full by its contents.
LEMMA DistinctLength ==
  ASSUME NEW S, NEW q \in Seq(S), IsInjective(q)
  PROVE  /\ IsFiniteSet(ToSet(q))
         /\ Cardinality(ToSet(q)) = Len(q)
<1> DEFINE n == Len(q)
           T == ToSet(q)
<1>1. n \in Nat /\ DOMAIN q = 1..n /\ q \in [1..n -> S]
  BY LenProperties
<1>2. q \in [1..n -> T]
  BY <1>1 DEF ToSet
<1>3. q \in Injection(1..n, T)
  BY <1>1, <1>2 DEF Injection, IsInjective
<1>4. q \in Surjection(1..n, T)
  BY <1>1, <1>2 DEF Surjection, ToSet
<1>5. ExistsBijection(1..n, T)
  BY <1>3, <1>4 DEF ExistsBijection, Bijection
<1>6. IsFiniteSet(T)
  BY <1>1, <1>5, FS_NatBijection
<1>7. Cardinality(T) = n
  BY <1>1, <1>5, FS_CountingElements
<1> QED
  BY <1>6, <1>7

\* A list without repetitions over a finite set is no longer than the set, and
\* exhausts it if it is as long.
LEMMA DistinctBound ==
  ASSUME NEW S, IsFiniteSet(S), NEW q \in Seq(S), IsInjective(q)
  PROVE  /\ Len(q) <= Cardinality(S)
         /\ Len(q) = Cardinality(S) => ToSet(q) = S
         /\ Cardinality(S) \in Nat /\ Len(q) \in Nat
<1>1. ToSet(q) \in SUBSET S /\ Len(q) \in Nat
  BY LenProperties DEF ToSet
<1>2. Cardinality(ToSet(q)) <= Cardinality(S)
  BY <1>1, FS_Subset
<1>3. Cardinality(S) = Cardinality(ToSet(q)) => S = ToSet(q)
  BY <1>1, FS_Subset
<1> QED
  BY <1>1, <1>2, <1>3, DistinctLength, FS_CardinalityType

\* A list that misses an element of a finite set is shorter than the set: a
\* queue has room for what is not in it.
LEMMA MissingElementBoundsLength ==
  ASSUME NEW S, IsFiniteSet(S), NEW q \in Seq(S), NEW x \in S, IsInjective(q),
         x \notin ToSet(q)
  PROVE  Len(q) < Cardinality(S)
<1>1. ToSet(q) # S
  OBVIOUS
<1> QED
  BY <1>1, DistinctBound

\* A set of natural numbers that is not empty has a least element.
LEMMA LeastNatural ==
  ASSUME NEW S \in SUBSET Nat, S # {}
  PROVE  \E x \in S : \A y \in S : x <= y
<1>1. \E x \in S : \A y \in S : ~(<<y, x>> \in OpToRel(<, Nat))
  BY NatLessThanWellFounded, WFMin
<1>2. PICK x \in S : \A y \in S : ~(<<y, x>> \in OpToRel(<, Nat))
  BY <1>1
<1>3. \A y \in Nat : y < x => <<y, x>> \in OpToRel(<, Nat)
  BY Zenon DEF OpToRel
<1>4. \A y \in S : ~(y < x)
  BY <1>2, <1>3
<1> QED
  BY <1>4

-----------------------------------------------------------------------------
(* Queues: at one end in, at the other end out. *)

\* conqueue_push and the like: the new entry comes last.
LEMMA AppendElements ==
  ASSUME NEW S, NEW q \in Seq(S), NEW x \in S
  PROVE  /\ Append(q, x) \in Seq(S)
         /\ Len(Append(q, x)) = Len(q) + 1
         /\ DOMAIN Append(q, x) = 1..(Len(q) + 1)
         /\ \A i \in 1..Len(q) : Append(q, x)[i] = q[i]
         /\ Append(q, x)[Len(q) + 1] = x
  OBVIOUS

\* Taking the head off a sequence shifts the rest by one: what conqueue_pop
\* leaves behind.
LEMMA TailElements ==
  ASSUME NEW S, NEW q \in Seq(S), q # <<>>
  PROVE  /\ Len(q) \in Nat \ {0}
         /\ Tail(q) \in Seq(S)
         /\ Len(Tail(q)) = Len(q) - 1
         /\ DOMAIN Tail(q) = 1..(Len(q) - 1)
         /\ \A i \in 1..(Len(q) - 1) : Tail(q)[i] = q[i + 1]
         /\ Head(q) = q[1] /\ Head(q) \in S
  OBVIOUS

\* What is in a queue after a push.
LEMMA AppendSet ==
  ASSUME NEW S, NEW q \in Seq(S), NEW x \in S
  PROVE  /\ Append(q, x) \in Seq(S)
         /\ Len(Append(q, x)) = Len(q) + 1
         /\ ToSet(Append(q, x)) = ToSet(q) \cup {x}
         /\ IsInjective(q) /\ x \notin ToSet(q) => IsInjective(Append(q, x))
<1> DEFINE r == Append(q, x)
<1>1. /\ Len(q) \in Nat /\ DOMAIN q = 1..Len(q) /\ DOMAIN r = DOMAIN q \cup {Len(q) + 1}
      /\ \A i \in DOMAIN q : r[i] = q[i]
      /\ r[Len(q) + 1] = x
  BY AppendElements, LenProperties
<1>2. ToSet(r) = ToSet(q) \cup {x}
  BY <1>1 DEF ToSet
<1>3. IsInjective(q) /\ x \notin ToSet(q) => IsInjective(r)
  BY <1>1 DEF ToSet, IsInjective
<1> QED
  BY <1>2, <1>3, AppendElements

\* What is in a queue after a pop.
LEMMA TailSet ==
  ASSUME NEW S, NEW q \in Seq(S), q # <<>>
  PROVE  /\ Tail(q) \in Seq(S)
         /\ Len(Tail(q)) = Len(q) - 1
         /\ Head(q) \in ToSet(q) /\ ToSet(q) = ToSet(Tail(q)) \cup {Head(q)}
         /\ IsInjective(q) => IsInjective(Tail(q)) /\ Head(q) \notin ToSet(Tail(q))
<1> DEFINE r == Tail(q)
<1>1. /\ Len(q) \in Nat \ {0} /\ DOMAIN q = 1..Len(q) /\ DOMAIN r = 1..(Len(q) - 1)
      /\ \A i \in DOMAIN r : i + 1 \in DOMAIN q /\ r[i] = q[i + 1]
      /\ Head(q) = q[1] /\ 1 \in DOMAIN q
  BY TailElements, LenProperties
<1>2. \A i \in DOMAIN q : i = 1 \/ (i - 1 \in DOMAIN r /\ r[i - 1] = q[i])
  BY <1>1
<1>3. Head(q) \in ToSet(q) /\ ToSet(q) = ToSet(r) \cup {Head(q)}
  <2> HIDE DEF r
  <2>1. Head(q) \in ToSet(q)
    BY <1>1 DEF ToSet
  <2>2. ASSUME NEW i \in DOMAIN r PROVE r[i] \in ToSet(q)
    BY <1>1 DEF ToSet
  <2>3. ASSUME NEW i \in DOMAIN q PROVE q[i] \in ToSet(r) \cup {Head(q)}
    BY <1>1, <1>2 DEF ToSet
  <2>4. ToSet(q) \subseteq ToSet(r) \cup {Head(q)}
    BY <2>3 DEF ToSet
  <2>5. ToSet(r) \subseteq ToSet(q)
    BY <2>2 DEF ToSet
  <2> QED
    BY <2>1, <2>4, <2>5
<1>4. IsInjective(q) => IsInjective(r) /\ Head(q) \notin ToSet(r)
  BY <1>1 DEF ToSet, IsInjective
<1> QED
  BY <1>3, <1>4, TailElements

-----------------------------------------------------------------------------
(* Lists: an entry is unlinked wherever it is. *)

\* list_remove of one entry of a list without repetitions: RemoveFirst takes
\* out that entry and moves the ones behind it up by one.
LEMMA RemoveElements ==
  ASSUME NEW S, NEW q \in Seq(S), IsInjective(q), NEW k \in ToSet(q)
  PROVE  \E n \in DOMAIN q :
           /\ q[n] = k
           /\ RemoveFirst(q, k) \in Seq(S)
           /\ Len(RemoveFirst(q, k)) = Len(q) - 1
           /\ \A i \in 1..(n - 1) : RemoveFirst(q, k)[i] = q[i]
           /\ \A i \in n..(Len(q) - 1) : RemoveFirst(q, k)[i] = q[i + 1]
<1> DEFINE I == {i \in 1..Len(q) : q[i] = k}
           r == RemoveFirst(q, k)
<1>1. Len(q) \in Nat /\ DOMAIN q = 1..Len(q)
  BY LenProperties
<1>2. PICK n \in DOMAIN q : q[n] = k
  BY DEF ToSet
<1>3. I = {n}
  BY <1>1, <1>2 DEF IsInjective
<1>4. Min(I) = n
  BY <1>1, <1>2, <1>3 DEF Min
<1>5. r = SubSeq(q, 1, n - 1) \o SubSeq(q, n + 1, Len(q))
  BY <1>1, <1>2, <1>3, <1>4 DEF RemoveFirst, SelectInSeq, RemoveAt
<1> DEFINE a == SubSeq(q, 1, n - 1)
           b == SubSeq(q, n + 1, Len(q))
<1>6. /\ a \in Seq(S) /\ Len(a) = n - 1
      /\ \A i \in 1..(n - 1) : a[i] = q[i]
  BY <1>1, <1>2, SubSeqProperties
<1>7. /\ b \in Seq(S) /\ Len(b) = Len(q) - n
      /\ \A i \in 1..(Len(q) - n) : b[i] = q[n + i]
  BY <1>1, <1>2, SubSeqProperties
<1> HIDE DEF a, b
<1>8. /\ a \o b \in Seq(S) /\ Len(a \o b) = Len(q) - 1
      /\ \A i \in 1..(Len(q) - 1) : (a \o b)[i] = IF i <= n - 1 THEN a[i] ELSE b[i - (n - 1)]
  <2>1. /\ a \o b \in Seq(S) /\ Len(a \o b) = Len(a) + Len(b)
        /\ \A i \in 1..(Len(a) + Len(b)) : (a \o b)[i] = IF i <= Len(a) THEN a[i] ELSE b[i - Len(a)]
    BY <1>6, <1>7, ConcatProperties
  <2>2. Len(a) + Len(b) = Len(q) - 1
    BY <1>1, <1>2, <1>6, <1>7
  <2> QED
    BY <2>1, <2>2, <1>6
<1>9. \A i \in n..(Len(q) - 1) : (a \o b)[i] = q[i + 1]
  <2> SUFFICES ASSUME NEW i \in n..(Len(q) - 1) PROVE (a \o b)[i] = q[i + 1]
    OBVIOUS
  <2>1. i - (n - 1) \in 1..(Len(q) - n) /\ n + (i - (n - 1)) = i + 1 /\ ~(i <= n - 1) /\ i \in 1..(Len(q) - 1)
    BY <1>1, <1>2
  <2> QED
    BY <2>1, <1>7, <1>8
<1>10. \A i \in 1..(n - 1) : (a \o b)[i] = q[i]
  BY <1>1, <1>2, <1>6, <1>8
<1>11. r = a \o b
  BY <1>5 DEF a, b
<1> QED
  BY <1>2, <1>8, <1>9, <1>10, <1>11

\* What is in a list after an entry has been unlinked, whether it was there or
\* not.
LEMMA RemoveSet ==
  ASSUME NEW S, NEW q \in Seq(S), IsInjective(q), NEW k
  PROVE  /\ RemoveFirst(q, k) \in Seq(S)
         /\ ToSet(RemoveFirst(q, k)) = ToSet(q) \ {k}
         /\ IsInjective(RemoveFirst(q, k))
         /\ k \in ToSet(q) => Len(RemoveFirst(q, k)) = Len(q) - 1
         /\ k \notin ToSet(q) => RemoveFirst(q, k) = q
<1> DEFINE r == RemoveFirst(q, k)
<1>1. Len(q) \in Nat /\ DOMAIN q = 1..Len(q)
  BY LenProperties
<1>2. CASE k \notin ToSet(q)
  <2>1. r = q
    BY <1>1, <1>2 DEF RemoveFirst, ToSet
  <2> QED
    BY <1>2, <2>1
<1>3. CASE k \in ToSet(q)
  <2> HIDE DEF r
  <2>1. PICK n \in DOMAIN q :
           /\ q[n] = k
           /\ r \in Seq(S)
           /\ Len(r) = Len(q) - 1
           /\ \A i \in 1..(n - 1) : r[i] = q[i]
           /\ \A i \in n..(Len(q) - 1) : r[i] = q[i + 1]
    BY <1>3, RemoveElements DEF r
  <2>2. DOMAIN r = 1..(Len(q) - 1)
    BY <2>1, LenProperties
  <2>3. ASSUME NEW i \in DOMAIN r PROVE r[i] \in ToSet(q) \ {k}
    <3>1. CASE i < n
      <4>1. i \in 1..(n - 1) /\ i \in DOMAIN q /\ i # n
        BY <1>1, <2>1, <2>2, <3>1
      <4> QED
        BY <4>1, <2>1 DEF ToSet, IsInjective
    <3>2. CASE i >= n
      <4>1. i \in n..(Len(q) - 1) /\ i + 1 \in DOMAIN q /\ i + 1 # n
        BY <1>1, <2>1, <2>2, <3>2
      <4> QED
        BY <4>1, <2>1 DEF ToSet, IsInjective
    <3> QED
      BY <1>1, <2>1, <2>2, <3>1, <3>2
  <2>4. ASSUME NEW i \in DOMAIN q, i # n PROVE q[i] \in ToSet(r)
    <3>1. CASE i < n
      <4>1. i \in 1..(n - 1) /\ i \in DOMAIN r
        BY <1>1, <2>1, <2>2, <3>1
      <4> QED
        BY <4>1, <2>1 DEF ToSet
    <3>2. CASE i > n
      <4>1. i - 1 \in n..(Len(q) - 1) /\ i - 1 \in DOMAIN r /\ (i - 1) + 1 = i
        BY <1>1, <2>1, <2>2, <3>2
      <4>2. r[i - 1] = q[i]
        BY <4>1, <2>1
      <4> QED
        BY <4>1, <4>2 DEF ToSet
    <3> QED
      BY <1>1, <2>1, <2>4, <3>1, <3>2
  <2>5. ToSet(r) \subseteq ToSet(q) \ {k}
    BY <2>3 DEF ToSet
  <2>6. ToSet(q) \ {k} \subseteq ToSet(r)
    BY <2>1, <2>4 DEF ToSet
  <2>7. IsInjective(r)
    <3> SUFFICES ASSUME NEW i \in DOMAIN r, NEW j \in DOMAIN r, r[i] = r[j] PROVE i = j
      BY DEF IsInjective
    <3> DEFINE up(m) == IF m < n THEN m ELSE m + 1
    <3>1. \A m \in DOMAIN r : up(m) \in DOMAIN q /\ r[m] = q[up(m)]
      <4> SUFFICES ASSUME NEW m \in DOMAIN r PROVE up(m) \in DOMAIN q /\ r[m] = q[up(m)]
        OBVIOUS
      <4>1. CASE m < n
        BY <1>1, <2>1, <2>2, <4>1
      <4>2. CASE ~(m < n)
        <5>1. m \in n..(Len(q) - 1)
          BY <1>1, <2>1, <2>2, <4>2
        <5> QED
          BY <1>1, <2>1, <2>2, <4>2, <5>1
      <4> QED
        BY <4>1, <4>2
    <3>2. up(i) = up(j)
      BY <3>1 DEF IsInjective
    <3> QED
      BY <3>2, <1>1, <2>1, <2>2
  <2> QED
    BY <1>3, <2>1, <2>5, <2>6, <2>7 DEF r
<1> QED
  BY <1>2, <1>3

\* list_add at the head: the new entry comes first.
LEMMA PrependSet ==
  ASSUME NEW S, NEW q \in Seq(S), NEW x \in S
  PROVE  /\ <<x>> \o q \in Seq(S)
         /\ Len(<<x>> \o q) = Len(q) + 1
         /\ (<<x>> \o q)[1] = x
         /\ \A i \in 1..Len(q) : (<<x>> \o q)[i + 1] = q[i]
         /\ ToSet(<<x>> \o q) = ToSet(q) \cup {x}
         /\ IsInjective(q) /\ x \notin ToSet(q) => IsInjective(<<x>> \o q)
<1> DEFINE r == <<x>> \o q
<1>1. Len(q) \in Nat /\ DOMAIN q = 1..Len(q)
  BY LenProperties
<1>2. <<x>> \in Seq(S) /\ Len(<<x>>) = 1 /\ <<x>>[1] = x
  OBVIOUS
<1>3. /\ r \in Seq(S) /\ Len(r) = Len(q) + 1
      /\ \A i \in 1..(Len(q) + 1) : r[i] = IF i <= 1 THEN <<x>>[i] ELSE q[i - 1]
  BY <1>1, <1>2, ConcatProperties
<1> HIDE DEF r
<1>4. DOMAIN r = 1..(Len(q) + 1)
  BY <1>1, <1>3, LenProperties
<1>5. r[1] = x
  BY <1>1, <1>2, <1>3
<1>6. \A i \in 1..Len(q) : r[i + 1] = q[i]
  <2> SUFFICES ASSUME NEW i \in 1..Len(q) PROVE r[i + 1] = q[i]
    OBVIOUS
  <2>1. i + 1 \in 1..(Len(q) + 1) /\ ~(i + 1 <= 1) /\ (i + 1) - 1 = i
    BY <1>1
  <2> QED
    BY <2>1, <1>3
<1>7. \A i \in DOMAIN r : i = 1 \/ (i - 1 \in DOMAIN q /\ r[i] = q[i - 1])
  BY <1>1, <1>3, <1>4
<1>8. \A i \in DOMAIN q : i + 1 \in DOMAIN r /\ r[i + 1] = q[i]
  BY <1>1, <1>4, <1>6
<1>9. 1 \in DOMAIN r
  BY <1>1, <1>4
<1>10. ToSet(r) \subseteq ToSet(q) \cup {x}
  <2> SUFFICES ASSUME NEW i \in DOMAIN r PROVE r[i] \in ToSet(q) \cup {x}
    BY DEF ToSet
  <2> QED
    BY <1>5, <1>7 DEF ToSet
<1>11. ToSet(q) \cup {x} \subseteq ToSet(r)
  <2>1. x \in ToSet(r)
    BY <1>5, <1>9 DEF ToSet
  <2>2. ASSUME NEW i \in DOMAIN q PROVE q[i] \in ToSet(r)
    BY <1>8 DEF ToSet
  <2> QED
    BY <2>1, <2>2 DEF ToSet
<1>12. IsInjective(q) /\ x \notin ToSet(q) => IsInjective(r)
  <2> SUFFICES ASSUME IsInjective(q), x \notin ToSet(q),
                      NEW i \in DOMAIN r, NEW j \in DOMAIN r, r[i] = r[j]
               PROVE  i = j
    BY DEF IsInjective
  <2>1. CASE i = 1 /\ j = 1
    BY <2>1
  <2>2. CASE i # 1 /\ j # 1
    <3>1. i - 1 = j - 1
      BY <1>7, <2>2 DEF IsInjective
    <3> QED
      BY <3>1, <1>4, <1>1
  <2>3. CASE i = 1 /\ j # 1
    BY <1>5, <1>7, <2>3 DEF ToSet
  <2>4. CASE i # 1 /\ j = 1
    BY <1>5, <1>7, <2>4 DEF ToSet
  <2> QED
    BY <2>1, <2>2, <2>3, <2>4
<1> QED
  BY <1>3, <1>5, <1>6, <1>10, <1>11, <1>12 DEF r


-----------------------------------------------------------------------------
(* The kernel's list of ready descriptors. *)

\* The first entries of a list: what epoll_wait reports.
LEMMA PrefixSet ==
  ASSUME NEW S, NEW q \in Seq(S), IsInjective(q), NEW n \in 0..Len(q)
  PROVE  /\ SubSeq(q, 1, n) \in Seq(S)
         /\ ToSet(SubSeq(q, 1, n)) \subseteq ToSet(q)
         /\ IsInjective(SubSeq(q, 1, n))
<1> DEFINE r == SubSeq(q, 1, n)
<1>1. Len(q) \in Nat /\ DOMAIN q = 1..Len(q)
  BY LenProperties
<1>2. r \in Seq(S) /\ Len(r) = n /\ \A i \in 1..n : r[i] = q[i]
  BY <1>1, SubSeqProperties
<1> HIDE DEF r
<1>3. DOMAIN r = 1..n
  BY <1>2, LenProperties
<1>4. \A i \in DOMAIN r : i \in DOMAIN q /\ r[i] = q[i]
  BY <1>1, <1>2, <1>3
<1>5. ToSet(r) \subseteq ToSet(q)
  BY <1>4 DEF ToSet
<1>6. IsInjective(r)
  BY <1>4 DEF IsInjective
<1> QED
  BY <1>2, <1>5, <1>6 DEF r

\* Moving the first entries of a list to its end keeps its contents.
LEMMA RotationSet ==
  ASSUME NEW S, NEW q \in Seq(S), IsInjective(q), NEW n \in 0..Len(q)
  PROVE  /\ SubSeq(q, n + 1, Len(q)) \o SubSeq(q, 1, n) \in Seq(S)
         /\ ToSet(SubSeq(q, n + 1, Len(q)) \o SubSeq(q, 1, n)) = ToSet(q)
         /\ IsInjective(SubSeq(q, n + 1, Len(q)) \o SubSeq(q, 1, n))
<1> DEFINE a == SubSeq(q, n + 1, Len(q))
           b == SubSeq(q, 1, n)
           m == Len(q) - n
           r == a \o b
<1>1. Len(q) \in Nat /\ DOMAIN q = 1..Len(q) /\ n \in Nat /\ m \in Nat /\ m + n = Len(q)
  BY LenProperties
<1>2. a \in Seq(S) /\ Len(a) = m /\ \A i \in 1..m : a[i] = q[n + i]
  <2>1. n + 1 \in 1..(Len(q) + 1) /\ Len(q) \in (n + 1) - 1 .. Len(q)
    BY <1>1
  <2>2. /\ a \in Seq(S) /\ Len(a) = Len(q) - (n + 1) + 1
        /\ \A i \in 1..(Len(q) - (n + 1) + 1) : a[i] = q[(n + 1) + i - 1]
    BY <2>1, SubSeqProperties
  <2>3. Len(q) - (n + 1) + 1 = m
    BY <1>1
  <2>4. ASSUME NEW i \in 1..m PROVE a[i] = q[n + i]
    <3> HIDE DEF a
    <3>1. (n + 1) + i - 1 = n + i
      BY <1>1
    <3> QED
      BY <2>2, <2>3, <3>1
  <2> QED
    BY <2>2, <2>3, <2>4
<1>3. b \in Seq(S) /\ Len(b) = n /\ \A i \in 1..n : b[i] = q[i]
  BY <1>1, SubSeqProperties
<1> HIDE DEF a, b, m
<1>4. /\ r \in Seq(S) /\ Len(r) = Len(q)
      /\ \A i \in 1..Len(q) : r[i] = IF i <= m THEN a[i] ELSE b[i - m]
  <2>1. /\ a \o b \in Seq(S) /\ Len(a \o b) = Len(a) + Len(b)
        /\ \A i \in 1..(Len(a) + Len(b)) : (a \o b)[i] = IF i <= Len(a) THEN a[i] ELSE b[i - Len(a)]
    BY <1>2, <1>3, ConcatProperties
  <2>2. Len(a) + Len(b) = Len(q)
    BY <1>1, <1>2, <1>3
  <2> QED
    BY <2>1, <2>2, <1>2
<1> HIDE DEF r
<1>5. DOMAIN r = 1..Len(q)
  BY <1>4, LenProperties
<1>6. \A i \in 1..m : i \in DOMAIN r /\ n + i \in DOMAIN q /\ r[i] = q[n + i]
  BY <1>1, <1>2, <1>4, <1>5
<1>7. \A i \in 1..n : m + i \in DOMAIN r /\ i \in DOMAIN q /\ r[m + i] = q[i]
  <2> SUFFICES ASSUME NEW i \in 1..n PROVE m + i \in DOMAIN r /\ i \in DOMAIN q /\ r[m + i] = q[i]
    OBVIOUS
  <2>1. m + i \in 1..Len(q) /\ ~(m + i <= m) /\ (m + i) - m = i /\ i \in DOMAIN q
    BY <1>1
  <2> QED
    BY <2>1, <1>3, <1>4, <1>5
<1>8. \A i \in DOMAIN r : i \in 1..m \/ (i - m \in 1..n /\ m + (i - m) = i)
  BY <1>1, <1>5
<1>9. \A i \in DOMAIN q : i \in 1..n \/ (i - n \in 1..m /\ n + (i - n) = i)
  BY <1>1
<1>10. ToSet(r) \subseteq ToSet(q)
  <2> SUFFICES ASSUME NEW i \in DOMAIN r PROVE r[i] \in ToSet(q)
    BY DEF ToSet
  <2>1. CASE i \in 1..m
    BY <2>1, <1>6 DEF ToSet
  <2>2. CASE i - m \in 1..n /\ m + (i - m) = i
    <3>1. r[i] = q[i - m] /\ i - m \in DOMAIN q
      BY <2>2, <1>7
    <3> QED
      BY <3>1 DEF ToSet
  <2> QED
    BY <1>8, <2>1, <2>2
<1>11. ToSet(q) \subseteq ToSet(r)
  <2> SUFFICES ASSUME NEW i \in DOMAIN q PROVE q[i] \in ToSet(r)
    BY DEF ToSet
  <2>1. CASE i \in 1..n
    BY <2>1, <1>7 DEF ToSet
  <2>2. CASE i - n \in 1..m /\ n + (i - n) = i
    <3>1. q[i] = r[i - n] /\ i - n \in DOMAIN r
      BY <2>2, <1>6
    <3> QED
      BY <3>1 DEF ToSet
  <2> QED
    BY <1>9, <2>1, <2>2
<1>12. IsInjective(r)
  <2> SUFFICES ASSUME NEW i \in DOMAIN r, NEW j \in DOMAIN r, r[i] = r[j] PROVE i = j
    BY DEF IsInjective
  <2> DEFINE at(k) == IF k \in 1..m THEN n + k ELSE k - m
  <2>1. \A k \in DOMAIN r : at(k) \in DOMAIN q /\ r[k] = q[at(k)]
    <3> SUFFICES ASSUME NEW k \in DOMAIN r PROVE at(k) \in DOMAIN q /\ r[k] = q[at(k)]
      OBVIOUS
    <3>1. CASE k \in 1..m
      BY <3>1, <1>6
    <3>2. CASE k \notin 1..m
      <4>1. k - m \in 1..n /\ m + (k - m) = k
        BY <3>2, <1>8
      <4> QED
        BY <4>1, <3>2, <1>7
    <3> QED
      BY <3>1, <3>2
  <2>2. at(i) = at(j)
    <3> HIDE DEF at
    <3> QED
      BY <2>1 DEF IsInjective
  <2> QED
    BY <2>2, <1>1, <1>5
<1> QED
  BY <1>4, <1>10, <1>11, <1>12 DEF r, a, b


-----------------------------------------------------------------------------
(* The order of an LRU list. *)

\* The last entry, and what is in front of it.
LEMMA FrontSet ==
  ASSUME NEW S, NEW q \in Seq(S), q # <<>>
  PROVE  /\ Last(q) \in ToSet(q) /\ Last(q) = q[Len(q)] /\ Len(q) \in DOMAIN q
         /\ Front(q) \in Seq(S) /\ Len(Front(q)) = Len(q) - 1
         /\ \A i \in 1..(Len(q) - 1) : Front(q)[i] = q[i]
         /\ ToSet(q) = ToSet(Front(q)) \cup {Last(q)}
         /\ IsInjective(q) => IsInjective(Front(q)) /\ Last(q) \notin ToSet(Front(q))
<1> DEFINE n == Len(q)
           r == Front(q)
<1>1. n \in Nat \ {0} /\ DOMAIN q = 1..n /\ n \in DOMAIN q /\ q \in [1..n -> S]
  BY LenProperties
<1>2. Last(q) = q[n]
  BY DEF Last
<1>3. r = SubSeq(q, 1, n - 1)
  BY DEF Front
<1>4. r \in Seq(S) /\ Len(r) = n - 1 /\ \A i \in 1..(n - 1) : r[i] = q[i]
  BY <1>1, <1>3, SubSeqProperties
<1> HIDE DEF n, r
<1>5. DOMAIN r = 1..(n - 1)
  BY <1>4, LenProperties
<1>6. \A i \in DOMAIN q : i = n \/ (i \in DOMAIN r /\ r[i] = q[i])
  BY <1>1, <1>4, <1>5
<1>7. \A i \in DOMAIN r : i \in DOMAIN q /\ i # n /\ r[i] = q[i]
  BY <1>1, <1>4, <1>5
<1>8. ToSet(q) = ToSet(r) \cup {q[n]}
  <2>1. ASSUME NEW i \in DOMAIN q PROVE q[i] \in ToSet(r) \cup {q[n]}
    BY <1>6 DEF ToSet
  <2>2. ASSUME NEW i \in DOMAIN r PROVE r[i] \in ToSet(q)
    BY <1>7 DEF ToSet
  <2>3. q[n] \in ToSet(q)
    BY <1>1 DEF ToSet
  <2>4. ToSet(q) \subseteq ToSet(r) \cup {q[n]}
    BY <2>1 DEF ToSet
  <2>5. ToSet(r) \subseteq ToSet(q)
    BY <2>2 DEF ToSet
  <2> QED
    BY <2>3, <2>4, <2>5
<1>9. IsInjective(q) => IsInjective(r) /\ q[n] \notin ToSet(r)
  BY <1>1, <1>7 DEF IsInjective, ToSet
<1>10. q[n] \in ToSet(q)
  BY <1>1 DEF ToSet
<1> QED
  BY <1>1, <1>2, <1>4, <1>8, <1>9, <1>10 DEF n, r

\* Unlinking an entry keeps the order of the others.
LEMMA BeforeRemove ==
  ASSUME NEW S, NEW q \in Seq(S), IsInjective(q), NEW k, NEW x, NEW y,
         Before(RemoveFirst(q, k), x, y)
  PROVE  Before(q, x, y)
<1> DEFINE r == RemoveFirst(q, k)
<1>1. Len(q) \in Nat /\ DOMAIN q = 1..Len(q)
  BY LenProperties
<1>2. CASE k \notin ToSet(q)
  BY <1>2, RemoveSet
<1>3. CASE k \in ToSet(q)
  <2> HIDE DEF r
  <2>1. PICK n \in DOMAIN q :
           /\ q[n] = k
           /\ r \in Seq(S)
           /\ Len(r) = Len(q) - 1
           /\ \A i \in 1..(n - 1) : r[i] = q[i]
           /\ \A i \in n..(Len(q) - 1) : r[i] = q[i + 1]
    BY <1>3, RemoveElements DEF r
  <2>2. DOMAIN r = 1..(Len(q) - 1)
    BY <2>1, LenProperties
  <2> DEFINE up(m) == IF m < n THEN m ELSE m + 1
  <2>3. \A m \in DOMAIN r : up(m) \in DOMAIN q /\ r[m] = q[up(m)]
    <3> SUFFICES ASSUME NEW m \in DOMAIN r PROVE up(m) \in DOMAIN q /\ r[m] = q[up(m)]
      OBVIOUS
    <3>1. CASE m < n
      BY <1>1, <2>1, <2>2, <3>1
    <3>2. CASE ~(m < n)
      <4>1. m \in n..(Len(q) - 1)
        BY <1>1, <2>1, <2>2, <3>2
      <4> QED
        BY <1>1, <2>1, <2>2, <3>2, <4>1
    <3> QED
      BY <3>1, <3>2
  <2>4. PICK i \in DOMAIN r, j \in DOMAIN r : i < j /\ r[i] = x /\ r[j] = y
    BY DEF Before, r
  <2>5. up(i) < up(j)
    BY <1>1, <2>1, <2>2, <2>4
  <2>6. /\ up(i) \in DOMAIN q /\ up(j) \in DOMAIN q
        /\ q[up(i)] = x /\ q[up(j)] = y
    BY <2>3, <2>4
  <2> HIDE DEF up
  <2> QED
    BY <2>5, <2>6 DEF Before
<1> QED
  BY <1>2, <1>3

\* A new first entry comes before all others and changes their order in nothing.
LEMMA BeforePrepend ==
  ASSUME NEW S, NEW q \in Seq(S), NEW k \in S, NEW x, NEW y, Before(<<k>> \o q, x, y)
  PROVE  (x = k /\ y \in ToSet(q)) \/ Before(q, x, y)
<1> DEFINE r == <<k>> \o q
<1>1. Len(q) \in Nat /\ DOMAIN q = 1..Len(q)
  BY LenProperties
<1>2. /\ r \in Seq(S) /\ Len(r) = Len(q) + 1 /\ r[1] = k
      /\ \A i \in 1..Len(q) : r[i + 1] = q[i]
  BY PrependSet
<1>a. PICK i \in DOMAIN r, j \in DOMAIN r : i < j /\ r[i] = x /\ r[j] = y
  BY DEF Before
<1> HIDE DEF r
<1>3. DOMAIN r = 1..(Len(q) + 1)
  BY <1>1, <1>2, LenProperties
<1>4. \A m \in DOMAIN r : m = 1 \/ (m - 1 \in DOMAIN q /\ r[m] = q[m - 1])
  <2> SUFFICES ASSUME NEW m \in DOMAIN r, m # 1 PROVE m - 1 \in DOMAIN q /\ r[m] = q[m - 1]
    OBVIOUS
  <2>1. m - 1 \in 1..Len(q) /\ (m - 1) + 1 = m
    BY <1>1, <1>3
  <2> QED
    BY <1>1, <1>2, <2>1
<1>5. j # 1 /\ i \in Int /\ j \in Int
  BY <1>1, <1>3, <1>a
<1>6. j - 1 \in DOMAIN q /\ y = q[j - 1]
  BY <1>4, <1>5, <1>a
<1>7. CASE i = 1
  BY <1>2, <1>6, <1>7, <1>a DEF ToSet
<1>8. CASE i # 1
  <2>1. i - 1 \in DOMAIN q /\ x = q[i - 1] /\ i - 1 < j - 1
    BY <1>4, <1>5, <1>8, <1>a
  <2> QED
    BY <1>6, <2>1 DEF Before
<1> QED
  BY <1>7, <1>8

\* Every entry comes before the eldest.
LEMMA BeforeLast ==
  ASSUME NEW S, NEW q \in Seq(S), q # <<>>, NEW x \in ToSet(q), x # Last(q)
  PROVE  Before(q, x, Last(q))
<1>1. Len(q) \in Nat /\ DOMAIN q = 1..Len(q) /\ Last(q) = q[Len(q)] /\ Len(q) \in DOMAIN q
  BY FrontSet, LenProperties
<1>2. PICK i \in DOMAIN q : q[i] = x
  BY DEF ToSet
<1>3. i < Len(q)
  BY <1>1, <1>2
<1> QED
  BY <1>1, <1>2, <1>3 DEF Before


\* Only entries of a list come before one another.
LEMMA BeforeMembers ==
  ASSUME NEW q, NEW x, NEW y, Before(q, x, y)
  PROVE  x \in ToSet(q) /\ y \in ToSet(q)
  BY DEF Before, ToSet

\* A set that contains the images of all but one member of a full list, and
\* one more element, is as large as the list.
LEMMA ReplacedByOthers ==
  ASSUME NEW S, NEW q \in Seq(S), IsInjective(q), NEW v \in ToSet(q), NEW f,
         DOMAIN f = ToSet(q), IsInjective(f),
         NEW k, k \notin {f[x] : x \in ToSet(q)},
         NEW U, IsFiniteSet(U), k \in U, \A x \in ToSet(q) \ {v} : f[x] \in U
  PROVE  Cardinality(U) >= Len(q)
<1> DEFINE X == ToSet(q) \ {v}
           Y == {f[x] : x \in X}
           g == [x \in X |-> f[x]]
<1>1. IsFiniteSet(ToSet(q)) /\ Cardinality(ToSet(q)) = Len(q) /\ Len(q) \in Nat
  BY DistinctLength, LenProperties
<1>2. IsFiniteSet(X) /\ Cardinality(X) = Len(q) - 1
  BY <1>1, FS_RemoveElement
<1>3. g \in Surjection(X, Y)
  BY DEF Surjection
<1>4. g \in Injection(X, Y)
  BY DEF Injection, IsInjective
<1>5. ExistsBijection(X, Y)
  BY <1>3, <1>4 DEF ExistsBijection, Bijection
<1>6. IsFiniteSet(Y) /\ Cardinality(Y) = Len(q) - 1
  BY <1>2, <1>5, FS_Bijection
<1>7. k \notin Y /\ Y \cup {k} \in SUBSET U
  OBVIOUS
<1> HIDE DEF X, Y, g
<1>8. IsFiniteSet(Y \cup {k}) /\ Cardinality(Y \cup {k}) = (Len(q) - 1) + 1
  BY <1>6, <1>7, FS_AddElement
<1>9. Cardinality(Y \cup {k}) <= Cardinality(U)
  BY <1>7, FS_Subset
<1>10. Cardinality(U) \in Nat
  BY FS_CardinalityType
<1> QED
  BY <1>1, <1>8, <1>9, <1>10


-----------------------------------------------------------------------------
(* Sequences seen through a function. *)

\* The sequence of the values of f at the elements of q.
Mapped(f, q) == [i \in DOMAIN q |-> f[q[i]]]

\* f differs on different elements of A.
OneToOne(f, A) == \A x, y \in A : f[x] = f[y] => x = y

\* f maps S to V.
IsMap(f, S, V) == f \in [S -> V]

\* The elements of a mapped sequence.
LEMMA MappedElements ==
  ASSUME NEW S, NEW V, NEW q \in Seq(S), NEW f, IsMap(f, S, V)
  PROVE  /\ Mapped(f, q) \in Seq(V) /\ Len(Mapped(f, q)) = Len(q)
         /\ \A i \in 1..Len(q) : Mapped(f, q)[i] = f[q[i]]
<1> DEFINE m == Mapped(f, q)
<1>1. Len(q) \in Nat /\ DOMAIN q = 1..Len(q) /\ \A i \in 1..Len(q) : q[i] \in S
  BY LenProperties
<1>2. m = [i \in 1..Len(q) |-> f[q[i]]]
  BY <1>1 DEF Mapped
<1>3. m \in [1..Len(q) -> V] /\ \A i \in 1..Len(q) : m[i] = f[q[i]]
  BY <1>1, <1>2 DEF IsMap
<1>4. DOMAIN m = 1..Len(q)
  BY <1>2
<1> HIDE DEF m
<1>5. m \in Seq(V)
  BY <1>1, <1>3, SeqDef
<1>6. Len(m) = Len(q)
  BY <1>1, <1>4, <1>5, LenProperties
<1> QED
  BY <1>3, <1>5, <1>6 DEF m

\* The set of them.
LEMMA MappedSet ==
  ASSUME NEW q, NEW f
  PROVE  ToSet(Mapped(f, q)) = {f[x] : x \in ToSet(q)}
<1> DEFINE m == Mapped(f, q)
<1>1. DOMAIN m = DOMAIN q /\ \A i \in DOMAIN q : m[i] = f[q[i]]
  BY DEF Mapped
<1>2. ToSet(m) = {m[i] : i \in DOMAIN q} /\ ToSet(q) = {q[i] : i \in DOMAIN q}
  BY <1>1 DEF ToSet
<1> HIDE DEF m
<1>3. ToSet(m) = {f[x] : x \in ToSet(q)}
  BY <1>1, <1>2
<1> QED
  BY <1>3 DEF m

\* A function that differs on different elements gives a sequence without
\* repetitions.
LEMMA MappedInjective ==
  ASSUME NEW S, NEW q \in Seq(S), IsInjective(q), NEW f, OneToOne(f, ToSet(q))
  PROVE  IsInjective(Mapped(f, q))
<1>1. \A i \in DOMAIN q : q[i] \in ToSet(q)
  BY DEF ToSet
<1>2. DOMAIN Mapped(f, q) = DOMAIN q /\ \A i \in DOMAIN q : Mapped(f, q)[i] = f[q[i]]
  BY DEF Mapped
<1>3. \A i, j \in DOMAIN q : q[i] = q[j] => i = j
  BY DEF IsInjective
<1>4. \A i, j \in DOMAIN Mapped(f, q) : Mapped(f, q)[i] = Mapped(f, q)[j] => i = j
  BY <1>1, <1>2, <1>3 DEF OneToOne
<1> QED
  BY <1>4 DEF IsInjective

\* A new first element.
LEMMA MappedPrepend ==
  ASSUME NEW S, NEW V, NEW q \in Seq(S), NEW e \in S, NEW f, IsMap(f, S, V)
  PROVE  Mapped(f, Cons(e, q)) = Cons(f[e], Mapped(f, q))
<1> DEFINE m == Mapped(f, q)
           r == <<e>> \o q
           a == Mapped(f, r)
           b == <<f[e]>> \o m
<1>1. Len(q) \in Nat /\ f[e] \in V
  BY LenProperties DEF IsMap
<1>2. /\ r \in Seq(S) /\ Len(r) = Len(q) + 1 /\ r[1] = e
      /\ \A i \in 1..Len(q) : r[i + 1] = q[i]
  BY PrependSet
<1> HIDE DEF r
<1>3. a \in Seq(V) /\ Len(a) = Len(r) /\ \A i \in 1..Len(r) : a[i] = f[r[i]]
  BY <1>2, MappedElements
<1>4. m \in Seq(V) /\ Len(m) = Len(q) /\ \A i \in 1..Len(q) : m[i] = f[q[i]]
  BY MappedElements
<1> HIDE DEF m, a
<1>5. b \in Seq(V) /\ Len(b) = Len(m) + 1 /\ b[1] = f[e] /\ \A i \in 1..Len(m) : b[i + 1] = m[i]
  BY <1>1, <1>4, PrependSet
<1> HIDE DEF b
<1>6. ASSUME NEW i \in 1..Len(a) PROVE a[i] = b[i]
  <2>1. CASE i = 1
    BY <1>1, <1>2, <1>3, <1>5, <2>1
  <2>2. CASE i # 1
    <3>1. PICK j \in 1..Len(q) : i = j + 1
      BY <1>1, <1>2, <1>3, <2>2
    <3> QED
      BY <1>1, <1>2, <1>3, <1>4, <1>5, <3>1
  <2> QED
    BY <2>1, <2>2
<1>7. Len(a) = Len(b)
  BY <1>2, <1>3, <1>4, <1>5
<1>8. a = b
  BY <1>3, <1>5, <1>6, <1>7, SeqEqual
<1> QED
  BY <1>8 DEF a, b, m, r, Cons

\* A new last element.
LEMMA MappedAppend ==
  ASSUME NEW S, NEW V, NEW q \in Seq(S), NEW e \in S, NEW f, IsMap(f, S, V)
  PROVE  Mapped(f, Append(q, e)) = Append(Mapped(f, q), f[e])
<1> DEFINE m == Mapped(f, q)
           r == Append(q, e)
           a == Mapped(f, r)
           b == Append(m, f[e])
<1>1. Len(q) \in Nat /\ f[e] \in V
  BY LenProperties DEF IsMap
<1>2. /\ r \in Seq(S) /\ Len(r) = Len(q) + 1 /\ r[Len(q) + 1] = e
      /\ \A i \in 1..Len(q) : r[i] = q[i]
  BY AppendElements
<1> HIDE DEF r
<1>3. a \in Seq(V) /\ Len(a) = Len(r) /\ \A i \in 1..Len(r) : a[i] = f[r[i]]
  BY <1>2, MappedElements
<1>4. m \in Seq(V) /\ Len(m) = Len(q) /\ \A i \in 1..Len(q) : m[i] = f[q[i]]
  BY MappedElements
<1> HIDE DEF m, a
<1>5. b \in Seq(V) /\ Len(b) = Len(m) + 1 /\ b[Len(m) + 1] = f[e] /\ \A i \in 1..Len(m) : b[i] = m[i]
  BY <1>1, <1>4, AppendElements
<1> HIDE DEF b
<1>6. ASSUME NEW i \in 1..Len(a) PROVE a[i] = b[i]
  <2>1. CASE i = Len(q) + 1
    BY <1>1, <1>2, <1>3, <1>4, <1>5, <2>1
  <2>2. CASE i # Len(q) + 1
    <3>1. i \in 1..Len(q)
      BY <1>1, <1>2, <1>3, <2>2
    <3> QED
      BY <1>1, <1>2, <1>3, <1>4, <1>5, <3>1
  <2> QED
    BY <2>1, <2>2
<1>7. Len(a) = Len(b)
  BY <1>2, <1>3, <1>4, <1>5
<1>8. a = b
  BY <1>3, <1>5, <1>6, <1>7, SeqEqual
<1> QED
  BY <1>8 DEF a, b, m, r

\* An element is removed.
LEMMA MappedRemove ==
  ASSUME NEW S, NEW V, NEW q \in Seq(S), IsInjective(q), NEW e \in ToSet(q),
         NEW f, IsMap(f, S, V), OneToOne(f, ToSet(q))
  PROVE  Mapped(f, RemoveFirst(q, e)) = RemoveFirst(Mapped(f, q), f[e])
<1> DEFINE m == Mapped(f, q)
           r == RemoveFirst(q, e)
           a == Mapped(f, r)
           b == RemoveFirst(m, f[e])
<1>1. Len(q) \in Nat /\ DOMAIN q = 1..Len(q)
  BY LenProperties
<1>2. PICK n \in DOMAIN q :
           /\ q[n] = e
           /\ r \in Seq(S)
           /\ Len(r) = Len(q) - 1
           /\ \A i \in 1..(n - 1) : r[i] = q[i]
           /\ \A i \in n..(Len(q) - 1) : r[i] = q[i + 1]
  BY RemoveElements
<1> HIDE DEF r
<1>3. a \in Seq(V) /\ Len(a) = Len(r) /\ \A i \in 1..Len(r) : a[i] = f[r[i]]
  BY <1>2, MappedElements
<1>4. m \in Seq(V) /\ Len(m) = Len(q) /\ \A i \in 1..Len(q) : m[i] = f[q[i]]
  BY MappedElements
<1>5. IsInjective(m)
  BY MappedInjective
<1> HIDE DEF m, a
<1>6. DOMAIN m = 1..Len(q) /\ m[n] = f[e]
  BY <1>1, <1>2, <1>4, LenProperties
<1>7. PICK k \in DOMAIN m :
           /\ m[k] = f[e]
           /\ b \in Seq(V)
           /\ Len(b) = Len(m) - 1
           /\ \A i \in 1..(k - 1) : b[i] = m[i]
           /\ \A i \in k..(Len(m) - 1) : b[i] = m[i + 1]
  <2> DEFINE g == f[e]
  <2>1. g \in ToSet(m)
    BY <1>1, <1>6 DEF ToSet
  <2>2. m \in Seq(V)
    BY <1>4
  <2> HIDE DEF g
  <2>3. \E k \in DOMAIN m :
           /\ m[k] = g
           /\ RemoveFirst(m, g) \in Seq(V)
           /\ Len(RemoveFirst(m, g)) = Len(m) - 1
           /\ \A i \in 1..(k - 1) : RemoveFirst(m, g)[i] = m[i]
           /\ \A i \in k..(Len(m) - 1) : RemoveFirst(m, g)[i] = m[i + 1]
    BY <1>5, <2>1, <2>2, RemoveElements
  <2> QED
    BY <2>3 DEF g
<1> HIDE DEF b
<1>8. k = n
  BY <1>1, <1>2, <1>5, <1>6, <1>7 DEF IsInjective
<1>9. ASSUME NEW i \in 1..Len(a) PROVE a[i] = b[i]
  <2>1. CASE i < n
    <3>1. i \in 1..(n - 1) /\ i \in 1..Len(q) /\ i \in 1..Len(r)
      BY <1>1, <1>2, <1>3, <2>1
    <3>2. a[i] = f[q[i]]
      BY <1>2, <1>3, <3>1
    <3>3. b[i] = m[i]
      BY <1>7, <1>8, <3>1
    <3> QED
      BY <1>4, <3>1, <3>2, <3>3
  <2>2. CASE ~(i < n)
    <3>1. i \in n..(Len(q) - 1) /\ i + 1 \in 1..Len(q) /\ i \in 1..Len(r)
      BY <1>1, <1>2, <1>3, <2>2
    <3>2. a[i] = f[q[i + 1]]
      BY <1>2, <1>3, <3>1
    <3>3. b[i] = m[i + 1]
      BY <1>4, <1>7, <1>8, <3>1
    <3> QED
      BY <1>4, <3>1, <3>2, <3>3
  <2> QED
    BY <2>1, <2>2
<1>10. Len(a) = Len(b)
  BY <1>2, <1>3, <1>4, <1>7
<1>11. a = b
  BY <1>3, <1>7, <1>9, <1>10, SeqEqual
<1> QED
  BY <1>11 DEF a, b, m, r
=============================================================================

------------------------- MODULE CollectionsProofs --------------------------
(***************************************************************************)
(* The index of the hash map is correct for every hash function, number of *)
(* keys and growth: probing, the rebuild, and the shift of a removal. The  *)
(* sets above it are correct for all keys, for all ways to compare and to  *)
(* own them, and for any number of sets.                                   *)
(*                                                                         *)
(* The operators of the first part take the hash function h, the number n  *)
(* of buckets, the buckets bs and the entries es as arguments, to be used  *)
(* of the state before a step and of the state after it.                   *)
(***************************************************************************)
EXTENDS HashMap, Sets, FiniteSetTheorems, FunctionTheorems, SequenceTheorems,
        WellFoundedInduction, TLAPS

Home(h, n, k) == h[k] % n
Distance(n, a, b) == (b - a) % n

\* Where a probe for the key of the entry that bucket b names starts.
Ideal(h, n, bs, es, b) == Home(h, n, es[bs[b]].key)

\* Bucket b is reached: the probe for its entry meets no empty bucket before.
Reached(h, n, bs, es, b) ==
    \A c \in 0 .. n - 1 :
        Distance(n, Ideal(h, n, bs, es, b), c) < Distance(n, Ideal(h, n, bs, es, b), b)
            => bs[c] # 0

\* The buckets, without those of the set `out`, name exactly the entries I,
\* once each, and every one of them is reached.
Indexes(h, n, bs, es, I, out) ==
    /\ \A b \in (0 .. n - 1) \ out :
           bs[b] # 0 => bs[b] \in I /\ Reached(h, n, bs, es, b)
    /\ \A b, c \in (0 .. n - 1) \ out : bs[b] # 0 /\ bs[b] = bs[c] => b = c
    /\ \A i \in I : \E b \in (0 .. n - 1) \ out : bs[b] = i

\* The state of the loop of lor_map__erase_bucket with the hole at o and the
\* cursor at u: the hole still holds a stale name, nothing is empty from there
\* to the cursor, and no entry passed so far needs the hole to be reached.
Shifting(h, n, bs, es, o, u) ==
    \A b \in 0 .. n - 1 :
        Distance(n, o, b) < Distance(n, o, u) =>
            /\ bs[b] # 0
            /\ b # o => Distance(n, Ideal(h, n, bs, es, b), b)
                            <= Distance(n, Ideal(h, n, bs, es, b), o)

UniqueKeys(es) == \A i, j \in DOMAIN es : es[i].key = es[j].key => i = j

\* The entries that are in the index outside a removal.
Indexed == IF pc = "fill" THEN 1 .. cursor - 1 ELSE 1 .. Len(entries)

Roomy ==
    /\ bucket_capacity = 0 \/ capacity < bucket_capacity
    /\ UniqueKeys(entries)
    /\ pc = "fill" /\ pending # <<>> =>
           /\ Len(entries) < capacity
           /\ \A i \in DOMAIN entries : entries[i].key # pending[1].key

IndexOK ==
    pc # "erase" => Indexes(hash, bucket_capacity, buckets, entries, Indexed, {})

EraseOK ==
    pc = "erase" =>
        /\ hole # cursor
        /\ Indexes(hash, bucket_capacity, buckets, entries,
                   (1 .. Len(entries)) \ {doomed}, {hole})
        /\ Shifting(hash, bucket_capacity, buckets, entries, hole, cursor)

IndexInv == TypeOK /\ Roomy /\ ProbeEnds /\ IndexOK /\ EraseOK
----------------------------------------------------------------------------
\* Distances around a table of n buckets.
LEMMA DistanceValue ==
  ASSUME NEW n \in Nat \ {0}, NEW a \in 0 .. n - 1, NEW b \in 0 .. n - 1
  PROVE  Distance(n, a, b) = IF b >= a THEN b - a ELSE b - a + n
  BY DEF Distance

LEMMA DistanceType ==
  ASSUME NEW n \in Nat \ {0}, NEW a \in 0 .. n - 1
  PROVE  \A b \in 0 .. n - 1 : Distance(n, a, b) \in 0 .. n - 1
  BY DistanceValue

\* A bucket is nearer to itself than any other.
LEMMA DistanceSelf ==
  ASSUME NEW n \in Nat \ {0}, NEW a \in 0 .. n - 1, NEW b \in 0 .. n - 1, a # b
  PROVE  Distance(n, a, a) < Distance(n, a, b)
  BY DistanceValue

LEMMA DistanceOrder ==
  ASSUME NEW n \in Nat \ {0}, NEW a \in 0 .. n - 1
  PROVE  /\ \A b \in 0 .. n - 1 : Distance(n, a, b) \in 0 .. n - 1
         /\ \A b, c \in 0 .. n - 1 : Distance(n, a, b) = Distance(n, a, c) => b = c
  BY DistanceValue

LEMMA NextBucket ==
  ASSUME NEW n \in Nat \ {0}, NEW a \in 0 .. n - 1
  PROVE  (a + 1) % n = IF a + 1 = n THEN 0 ELSE a + 1
  OBVIOUS

LEMMA HomeType ==
  ASSUME NEW n \in Nat \ {0}, NEW h \in [Keys -> Hashes], NEW k \in Keys
  PROVE  Home(h, n, k) \in 0 .. n - 1
<1>1. h[k] \in Nat
  BY HashMapAssumption DEF HashMapAssumption
<1> QED
  BY <1>1 DEF Home

\* A probe stops somewhere if there is a stop: at the nearest.
LEMMA Nearest ==
  ASSUME bucket_capacity \in Nat \ {0}, hash \in [Keys -> Hashes], NEW k \in Keys,
         NEW T \in SUBSET Buckets, T # {}
  PROVE  /\ FirstOf(T, k) \in T
         /\ \A c \in T : Distance(bucket_capacity, Home(hash, bucket_capacity, k), FirstOf(T, k))
                             <= Distance(bucket_capacity, Home(hash, bucket_capacity, k), c)
<1> DEFINE D(c) == Distance(bucket_capacity, Home(hash, bucket_capacity, k), c)
           Ds == {D(c) : c \in T}
<1>1. \A c \in Buckets : D(c) \in Nat
  <2>1. Home(hash, bucket_capacity, k) \in 0 .. bucket_capacity - 1
    BY HomeType
  <2>2. ASSUME NEW c \in Buckets PROVE D(c) \in 0 .. bucket_capacity - 1
    BY <2>1, DistanceType DEF Buckets
  <2> QED
    BY <2>2
<1>2. Ds \subseteq Nat /\ Ds # {}
  BY <1>1
<1>3. PICK d \in Ds : \A e \in Ds : ~(<<e, d>> \in OpToRel(<, Nat))
  <2> HIDE DEF Ds
  <2> QED
    BY <1>2, NatLessThanWellFounded, WFMin
<1>4. \A e \in Ds : d <= e
  <2> HIDE DEF Ds
  <2>1. ASSUME NEW e \in Ds PROVE ~(e < d)
    BY <1>2, <1>3 DEF OpToRel
  <2> QED
    BY <1>2, <2>1
<1>5. \E b \in T : \A c \in T : D(b) <= D(c)
  BY <1>4
<1>6. FirstOf(T, k) = CHOOSE b \in T : \A c \in T : D(b) <= D(c)
  BY DEF FirstOf, Steps, BucketFor, Home, Distance
<1> QED
  BY <1>5, <1>6

----------------------------------------------------------------------------
\* lor_map__find_bucket returns the bucket of a key's entry if that bucket is
\* reached and no other bucket names an entry with the key.
LEMMA LookupFinds ==
  ASSUME bucket_capacity \in Nat \ {0}, hash \in [Keys -> Hashes], NEW k \in Keys,
         NEW bs \in [Buckets -> Nat], NEW es, NEW b \in Buckets,
         bs[b] # 0, es[bs[b]].key = k,
         Reached(hash, bucket_capacity, bs, es, b),
         \A c \in Buckets : bs[c] # 0 /\ es[bs[c]].key = k => c = b
  PROVE  FindBucket(bs, es, k) = b
<1> DEFINE home == Home(hash, bucket_capacity, k)
           T == Stops(bs, es, k)
           stop == FirstOf(T, k)
<1>1. T \in SUBSET Buckets /\ b \in T
  BY DEF Stops
<1>2. /\ stop \in T
      /\ Distance(bucket_capacity, home, stop) <= Distance(bucket_capacity, home, b)
  BY <1>1, Nearest
<1>3. home \in Buckets
  BY HomeType DEF Buckets
<1>4. stop = b
  <2> SUFFICES ASSUME stop # b PROVE FALSE
    OBVIOUS
  <2>1. Distance(bucket_capacity, home, stop) < Distance(bucket_capacity, home, b)
    <3>1. /\ Distance(bucket_capacity, home, stop) \in Int
          /\ Distance(bucket_capacity, home, b) \in Int
          /\ Distance(bucket_capacity, home, stop) # Distance(bucket_capacity, home, b)
      <4> HIDE DEF home, stop
      <4> QED
        BY <1>1, <1>2, <1>3, DistanceOrder DEF Buckets
    <3> QED
      BY <1>2, <3>1
  <2>2. bs[stop] # 0
    BY <1>1, <1>2, <2>1 DEF Reached, Ideal, Buckets
  <2>3. es[bs[stop]].key = k
    BY <1>2, <2>2 DEF Stops
  <2> QED
    BY <1>1, <1>2, <2>2, <2>3
<1> QED
  BY <1>4 DEF FindBucket

\* What lor_map__find_bucket returns is the bucket of an entry with the key,
\* provided that the probe ends.
LEMMA LookupSound ==
  ASSUME bucket_capacity \in Nat \ {0}, hash \in [Keys -> Hashes], NEW k \in Keys,
         NEW bs \in [Buckets -> Nat], NEW es,
         \E b \in Buckets : bs[b] = 0,
         FindBucket(bs, es, k) # NoBucket
  PROVE  /\ FindBucket(bs, es, k) \in Buckets
         /\ bs[FindBucket(bs, es, k)] # 0
         /\ es[bs[FindBucket(bs, es, k)]].key = k
<1> DEFINE T == Stops(bs, es, k)
           stop == FirstOf(T, k)
<1>1. T \in SUBSET Buckets /\ T # {}
  BY DEF Stops
<1>2. stop \in T
  BY <1>1, Nearest
<1>3. FindBucket(bs, es, k) = stop /\ bs[stop] # 0
  BY DEF FindBucket
<1> QED
  BY <1>1, <1>2, <1>3 DEF Stops

\* Lookups in an index of all entries.
LEMMA LookupIndexed ==
  ASSUME bucket_capacity \in Nat \ {0}, hash \in [Keys -> Hashes],
         NEW bs \in [Buckets -> Nat], NEW es, NEW I,
         \A i \in I : es[i].key \in Keys,
         \A i, j \in I : es[i].key = es[j].key => i = j,
         Indexes(hash, bucket_capacity, bs, es, I, {}),
         NEW b \in Buckets, bs[b] # 0
  PROVE  FindBucket(bs, es, es[bs[b]].key) = b
<1>1. bs[b] \in I /\ Reached(hash, bucket_capacity, bs, es, b)
  BY DEF Indexes, Buckets
<1>2. ASSUME NEW c \in Buckets, bs[c] # 0, es[bs[c]].key = es[bs[b]].key PROVE c = b
  <2>1. bs[c] \in I
    BY <1>2 DEF Indexes, Buckets
  <2>2. bs[c] = bs[b]
    BY <1>1, <1>2, <2>1
  <2> QED
    BY <1>2, <2>2 DEF Indexes, Buckets
<1> QED
  BY <1>1, <1>2, LookupFinds

\* lor_map__insert_bucket adds an entry to the index.
LEMMA InsertIndexes ==
  ASSUME bucket_capacity \in Nat \ {0}, hash \in [Keys -> Hashes],
         NEW bs \in [Buckets -> Nat], NEW es, NEW I,
         Indexes(hash, bucket_capacity, bs, es, I, {}),
         \E b \in Buckets : bs[b] = 0,
         0 \notin I, NEW i \in Nat \ {0}, i \notin I, es[i].key \in Keys
  PROVE  /\ InsertBucket(bs, es[i].key, i) \in [Buckets -> Nat]
         /\ Indexes(hash, bucket_capacity, InsertBucket(bs, es[i].key, i), es, I \cup {i}, {})
<1> DEFINE n == bucket_capacity
           k == es[i].key
           T == {b \in Buckets : bs[b] = 0}
           free == FirstOf(T, k)
           new == [bs EXCEPT ![free] = i]
<1>1. T \in SUBSET Buckets /\ T # {}
  OBVIOUS
<1>2. /\ free \in T
      /\ \A c \in T : Distance(n, Home(hash, n, k), free) <= Distance(n, Home(hash, n, k), c)
  BY <1>1, Nearest
<1>3. InsertBucket(bs, k, i) = new
  BY DEF InsertBucket
<1>4. /\ new \in [Buckets -> Nat] /\ new[free] = i
      /\ \A c \in Buckets : c # free => new[c] = bs[c]
      /\ bs[free] = 0 /\ free \in Buckets
  BY <1>2
<1> HIDE DEF new, free, T
<1>5. Reached(hash, n, new, es, free)
  <2> SUFFICES ASSUME NEW c \in Buckets,
                      Distance(n, Home(hash, n, k), c) < Distance(n, Home(hash, n, k), free)
               PROVE  new[c] # 0
    BY <1>4 DEF Reached, Ideal, Buckets
  <2>1. Home(hash, n, k) \in 0 .. n - 1
    BY HomeType
  <2>2. c \notin T
    <3>1. /\ Distance(n, Home(hash, n, k), c) \in Int
          /\ Distance(n, Home(hash, n, k), free) \in Int
      BY <1>4, <2>1, DistanceType DEF Buckets
    <3> QED
      BY <1>2, <3>1
  <2> QED
    BY <1>4, <2>2 DEF T
<1>6. ASSUME NEW b \in Buckets, b # free, bs[b] # 0 PROVE Reached(hash, n, new, es, b)
  <2>1. Reached(hash, n, bs, es, b)
    BY <1>6 DEF Indexes, Buckets
  <2>2. Ideal(hash, n, new, es, b) = Ideal(hash, n, bs, es, b)
    BY <1>4, <1>6 DEF Ideal
  <2>3. \A c \in Buckets : bs[c] # 0 => new[c] # 0
    BY <1>4
  <2> QED
    BY <2>1, <2>2, <2>3 DEF Reached, Buckets
<1>7. Indexes(hash, n, new, es, I \cup {i}, {})
  <2>1. ASSUME NEW b \in Buckets, new[b] # 0
        PROVE  new[b] \in I \cup {i} /\ Reached(hash, n, new, es, b)
    BY <1>4, <1>5, <1>6, <2>1 DEF Indexes, Buckets
  <2>2. ASSUME NEW b \in Buckets, NEW c \in Buckets, new[b] # 0, new[b] = new[c]
        PROVE  b = c
    <3>1. \A x \in Buckets : bs[x] # 0 => bs[x] # i
      BY DEF Indexes, Buckets
    <3>2. bs[b] # 0 /\ bs[b] = bs[c] => b = c
      BY DEF Indexes, Buckets
    <3> QED
      BY <1>4, <2>2, <3>1, <3>2
  <2>3. ASSUME NEW j \in I \cup {i} PROVE \E b \in Buckets : new[b] = j
    <3>1. CASE j = i
      BY <1>4, <3>1
    <3>2. CASE j \in I /\ j # 0
      <4>1. PICK b \in Buckets : bs[b] = j
        BY <3>2 DEF Indexes, Buckets
      <4> QED
        BY <1>4, <3>2, <4>1
    <3> QED
      BY <3>1, <3>2
  <2> QED
    BY <2>1, <2>2, <2>3 DEF Indexes, Buckets
<1> QED
  BY <1>3, <1>4, <1>7

\* An index of n entries, fewer than its buckets, has an empty bucket.
LEMMA EmptyBucket ==
  ASSUME NEW n \in Nat, NEW h, NEW bs \in [0 .. n - 1 -> Nat], NEW es, NEW m \in Nat, m < n,
         Indexes(h, n, bs, es, 1 .. m, {})
  PROVE  \E b \in 0 .. n - 1 : bs[b] = 0
<1> SUFFICES ASSUME \A b \in 0 .. n - 1 : bs[b] # 0 PROVE FALSE
  OBVIOUS
<1>1. bs \in [0 .. n - 1 -> 1 .. m]
  BY DEF Indexes
<1>2. /\ IsFiniteSet(0 .. n - 1) /\ Cardinality(0 .. n - 1) = n
      /\ IsFiniteSet(1 .. m) /\ Cardinality(1 .. m) = m
  <2>1. IsFiniteSet(0 .. n - 1) /\ Cardinality(0 .. n - 1) = n
    <3>1. 0 \in Int /\ n - 1 \in Int /\ ~(0 > n - 1) /\ n - 1 - 0 + 1 = n
      OBVIOUS
    <3> QED
      BY <3>1, FS_Interval
  <2>2. IsFiniteSet(1 .. m) /\ Cardinality(1 .. m) = m
    BY FS_Interval
  <2> QED
    BY <2>1, <2>2
<1>3. \E b, c \in 0 .. n - 1 : b # c /\ bs[b] = bs[c]
  BY <1>1, <1>2, FS_PigeonHole
<1> QED
  BY <1>3 DEF Indexes

\* An index only depends on the keys of the entries it names.
LEMMA SameKeys ==
  ASSUME NEW h, NEW n, NEW bs, NEW es, NEW new, NEW I, NEW out,
         \A i \in I : new[i].key = es[i].key,
         Indexes(h, n, bs, es, I, out)
  PROVE  Indexes(h, n, bs, new, I, out)
<1>1. ASSUME NEW b \in (0 .. n - 1) \ out, bs[b] # 0 PROVE Reached(h, n, bs, new, b)
  BY <1>1 DEF Indexes, Reached, Ideal
<1> QED
  BY <1>1 DEF Indexes

----------------------------------------------------------------------------
(* The loop of lor_map__erase_bucket.                                       *)

LEMMA Between ==
  ASSUME NEW n \in Nat \ {0}, NEW i \in 0 .. n - 1, NEW o \in 0 .. n - 1,
         NEW u \in 0 .. n - 1, NEW b \in 0 .. n - 1,
         Distance(n, i, o) < Distance(n, i, b), Distance(n, o, u) < Distance(n, o, b)
  PROVE  Distance(n, i, u) < Distance(n, i, b)
<1>1. /\ Distance(n, i, o) = IF o >= i THEN o - i ELSE o - i + n
      /\ Distance(n, i, b) = IF b >= i THEN b - i ELSE b - i + n
      /\ Distance(n, i, u) = IF u >= i THEN u - i ELSE u - i + n
      /\ Distance(n, o, u) = IF u >= o THEN u - o ELSE u - o + n
      /\ Distance(n, o, b) = IF b >= o THEN b - o ELSE b - o + n
  BY DistanceValue
<1> QED
  BY <1>1

\* A step of the cursor adds one bucket, unless it comes back to the hole.
LEMMA CursorStep ==
  ASSUME NEW n \in Nat \ {0}, NEW o \in 0 .. n - 1, NEW u \in 0 .. n - 1,
         NEW b \in 0 .. n - 1
  PROVE  /\ (u + 1) % n \in 0 .. n - 1
         /\ (u + 1) % n # o /\ Distance(n, o, b) < Distance(n, o, (u + 1) % n)
                => b = u \/ Distance(n, o, b) < Distance(n, o, u)
         /\ (u + 1) % n = o => b = u \/ Distance(n, o, b) < Distance(n, o, u)
<1> DEFINE v == (u + 1) % n
<1>1. v = IF u + 1 = n THEN 0 ELSE u + 1
  BY NextBucket
<1> HIDE DEF v
<1>2. v \in 0 .. n - 1
  BY <1>1
<1>3. /\ Distance(n, o, b) = IF b >= o THEN b - o ELSE b - o + n
      /\ Distance(n, o, u) = IF u >= o THEN u - o ELSE u - o + n
      /\ Distance(n, o, v) = IF v >= o THEN v - o ELSE v - o + n
  BY <1>2, DistanceValue
<1>4. v # o /\ Distance(n, o, b) < Distance(n, o, v)
          => b = u \/ Distance(n, o, b) < Distance(n, o, u)
  BY <1>1, <1>3
<1>5. v = o => b = u \/ Distance(n, o, b) < Distance(n, o, u)
  BY <1>1, <1>3
<1> QED
  BY <1>2, <1>4, <1>5 DEF v

\* With two buckets or more, the one after the hole is another, and nothing is
\* between the two.
LEMMA CursorStart ==
  ASSUME NEW n \in Nat \ {0}, NEW o \in 0 .. n - 1, NEW b \in 0 .. n - 1, b # o
  PROVE  /\ (o + 1) % n \in 0 .. n - 1 /\ (o + 1) % n # o
         /\ ~(Distance(n, o, b) < Distance(n, o, (o + 1) % n))
<1> DEFINE v == (o + 1) % n
<1>1. v = IF o + 1 = n THEN 0 ELSE o + 1
  BY NextBucket
<1> HIDE DEF v
<1>2. v \in 0 .. n - 1 /\ v # o
  BY <1>1
<1>3. /\ Distance(n, o, b) = IF b >= o THEN b - o ELSE b - o + n
      /\ Distance(n, o, v) = IF v >= o THEN v - o ELSE v - o + n
  BY <1>2, DistanceValue
<1>4. ~(Distance(n, o, b) < Distance(n, o, v))
  BY <1>1, <1>2, <1>3
<1> QED
  BY <1>2, <1>4 DEF v

LEMMA ShiftStart ==
  ASSUME NEW n \in Nat \ {0}, NEW h, NEW bs, NEW es, NEW I,
         Indexes(h, n, bs, es, I, {}), NEW o \in 0 .. n - 1, bs[o] # 0,
         \E b \in 0 .. n - 1 : bs[b] = 0
  PROVE  /\ (o + 1) % n # o
         /\ Indexes(h, n, bs, es, I \ {bs[o]}, {o})
         /\ Shifting(h, n, bs, es, o, (o + 1) % n)
<1>1. (o + 1) % n # o /\ (o + 1) % n \in 0 .. n - 1
  BY CursorStart
<1>2. ASSUME NEW b \in 0 .. n - 1, Distance(n, o, b) < Distance(n, o, (o + 1) % n)
      PROVE  b = o
  BY <1>2, CursorStart
<1>3. Indexes(h, n, bs, es, I \ {bs[o]}, {o})
  BY DEF Indexes
<1> QED
  BY <1>1, <1>2, <1>3 DEF Shifting

LEMMA ShiftSkip ==
  ASSUME NEW n \in Nat \ {0}, NEW h, NEW bs, NEW es,
         NEW o \in 0 .. n - 1, NEW u \in 0 .. n - 1,
         Shifting(h, n, bs, es, o, u), bs[u] # 0,
         Distance(n, Ideal(h, n, bs, es, u), u) <= Distance(n, Ideal(h, n, bs, es, u), o),
         \E b \in 0 .. n - 1 : bs[b] = 0
  PROVE  (u + 1) % n # o /\ Shifting(h, n, bs, es, o, (u + 1) % n)
<1>1. (u + 1) % n # o
  BY CursorStep DEF Shifting
<1>2. ASSUME NEW b \in 0 .. n - 1, Distance(n, o, b) < Distance(n, o, (u + 1) % n)
      PROVE  b = u \/ Distance(n, o, b) < Distance(n, o, u)
  BY <1>1, <1>2, CursorStep
<1> QED
  BY <1>1, <1>2 DEF Shifting

LEMMA ShiftMove ==
  ASSUME NEW n \in Nat \ {0}, NEW h, NEW bs \in [0 .. n - 1 -> Nat], NEW es, NEW I,
         NEW o \in 0 .. n - 1, NEW u \in 0 .. n - 1, o # u, bs[o] # 0, bs[u] # 0,
         Indexes(h, n, bs, es, I, {o}),
         Ideal(h, n, bs, es, u) \in 0 .. n - 1,
         Distance(n, Ideal(h, n, bs, es, u), u) > Distance(n, Ideal(h, n, bs, es, u), o)
  PROVE  /\ (u + 1) % n # u
         /\ Indexes(h, n, [bs EXCEPT ![o] = bs[u]], es, I, {u})
         /\ Shifting(h, n, [bs EXCEPT ![o] = bs[u]], es, u, (u + 1) % n)
<1> DEFINE new == [bs EXCEPT ![o] = bs[u]]
<1>1. /\ new[o] = bs[u] /\ new[u] = bs[u]
      /\ \A c \in 0 .. n - 1 : (c # o => new[c] = bs[c]) /\ (bs[c] # 0 <=> new[c] # 0)
  OBVIOUS
<1> HIDE DEF new
<1>2. (u + 1) % n # u /\ (u + 1) % n \in 0 .. n - 1
  BY CursorStart
<1>3. ASSUME NEW b \in 0 .. n - 1, Distance(n, u, b) < Distance(n, u, (u + 1) % n)
      PROVE  b = u
  BY <1>3, CursorStart
<1>4. Shifting(h, n, new, es, u, (u + 1) % n)
  BY <1>1, <1>3 DEF Shifting
<1>5. Reached(h, n, new, es, o)
  <2>1. Ideal(h, n, new, es, o) = Ideal(h, n, bs, es, u)
    BY <1>1 DEF Ideal
  <2>2. Reached(h, n, bs, es, u)
    BY DEF Indexes
  <2>3. ASSUME NEW c \in 0 .. n - 1,
               Distance(n, Ideal(h, n, bs, es, u), c) < Distance(n, Ideal(h, n, bs, es, u), o)
        PROVE  Distance(n, Ideal(h, n, bs, es, u), c) < Distance(n, Ideal(h, n, bs, es, u), u)
    <3> DEFINE D(x) == Distance(n, Ideal(h, n, bs, es, u), x)
    <3>1. \A x \in 0 .. n - 1 : D(x) \in 0 .. n - 1
      BY DistanceOrder
    <3>2. D(c) < D(o) /\ D(o) < D(u)
      BY <2>3
    <3> HIDE DEF D
    <3>3. D(c) < D(u)
      BY <3>1, <3>2
    <3> QED
      BY <3>3 DEF D
  <2> QED
    BY <1>1, <2>1, <2>2, <2>3 DEF Reached
<1>6. ASSUME NEW b \in (0 .. n - 1) \ {o}, bs[b] # 0 PROVE Reached(h, n, new, es, b)
  <2>1. Ideal(h, n, new, es, b) = Ideal(h, n, bs, es, b)
    BY <1>1 DEF Ideal
  <2>2. Reached(h, n, bs, es, b)
    BY <1>6 DEF Indexes
  <2> QED
    BY <1>1, <2>1, <2>2 DEF Reached
<1>7. Indexes(h, n, new, es, I, {u})
  <2>1. ASSUME NEW b \in (0 .. n - 1) \ {u}, new[b] # 0
        PROVE  new[b] \in I /\ Reached(h, n, new, es, b)
    BY <1>1, <1>5, <1>6, <2>1 DEF Indexes
  <2>2. ASSUME NEW b \in (0 .. n - 1) \ {u}, NEW c \in (0 .. n - 1) \ {u},
               new[b] # 0, new[b] = new[c]
        PROVE  b = c
    <3> DEFINE old(x) == IF x = o THEN u ELSE x
    <3>1. \A x \in (0 .. n - 1) \ {u} : old(x) \in (0 .. n - 1) \ {o} /\ new[x] = bs[old(x)]
      BY <1>1
    <3>2. old(b) = old(c)
      <4>1. /\ old(b) \in (0 .. n - 1) \ {o} /\ new[b] = bs[old(b)]
            /\ old(c) \in (0 .. n - 1) \ {o} /\ new[c] = bs[old(c)]
        BY <3>1
      <4>2. \A x, y \in (0 .. n - 1) \ {o} : bs[x] # 0 /\ bs[x] = bs[y] => x = y
        BY DEF Indexes
      <4> HIDE DEF old
      <4> QED
        BY <2>2, <4>1, <4>2
    <3> QED
      BY <2>2, <3>2
  <2>3. ASSUME NEW i \in I PROVE \E b \in (0 .. n - 1) \ {u} : new[b] = i
    <3>1. PICK b \in (0 .. n - 1) \ {o} : bs[b] = i
      BY DEF Indexes
    <3> QED
      BY <1>1, <3>1
  <2> QED
    BY <2>1, <2>2, <2>3 DEF Indexes
<1> QED
  BY <1>2, <1>4, <1>7 DEF new

LEMMA ShiftEnd ==
  ASSUME NEW n \in Nat \ {0}, NEW h, NEW bs \in [0 .. n - 1 -> Nat], NEW es, NEW I, 0 \notin I,
         NEW o \in 0 .. n - 1, NEW u \in 0 .. n - 1, bs[u] = 0,
         \A b \in 0 .. n - 1 : b # o /\ bs[b] # 0 => Ideal(h, n, bs, es, b) \in 0 .. n - 1,
         Indexes(h, n, bs, es, I, {o}), Shifting(h, n, bs, es, o, u)
  PROVE  Indexes(h, n, [bs EXCEPT ![o] = 0], es, I, {})
<1> DEFINE new == [bs EXCEPT ![o] = 0]
<1>1. new[o] = 0 /\ \A c \in 0 .. n - 1 : c # o => new[c] = bs[c]
  OBVIOUS
<1> HIDE DEF new
<1>2. ASSUME NEW b \in 0 .. n - 1, new[b] # 0 PROVE new[b] \in I /\ Reached(h, n, new, es, b)
  <2> DEFINE D(c) == Distance(n, Ideal(h, n, bs, es, b), c)
  <2>1. /\ b # o /\ bs[b] # 0 /\ new[b] = bs[b] /\ bs[b] \in I
        /\ Reached(h, n, bs, es, b) /\ Ideal(h, n, bs, es, b) \in 0 .. n - 1
    BY <1>1, <1>2 DEF Indexes
  <2>2. Ideal(h, n, new, es, b) = Ideal(h, n, bs, es, b)
    BY <2>1 DEF Ideal
  <2>3. ~(D(o) < D(b))
    <3> SUFFICES ASSUME D(o) < D(b) PROVE FALSE
      OBVIOUS
    <3>1. D(o) \in Int /\ D(b) \in Int
      BY <2>1, DistanceOrder
    <3>2. ~(Distance(n, o, b) < Distance(n, o, u))
      BY <2>1, <3>1 DEF Shifting
    <3>3. Distance(n, o, u) < Distance(n, o, b)
      <4>1. u # b
        BY <2>1
      <4>2. /\ Distance(n, o, u) \in Int /\ Distance(n, o, b) \in Int
            /\ Distance(n, o, u) # Distance(n, o, b)
        BY <4>1, DistanceOrder
      <4> QED
        BY <3>2, <4>2
    <3>4. D(u) < D(b)
      BY <2>1, <3>3, Between
    <3> QED
      BY <2>1, <3>4 DEF Reached
  <2> QED
    BY <1>1, <2>1, <2>2, <2>3 DEF Reached
<1>3. ASSUME NEW b \in 0 .. n - 1, NEW c \in 0 .. n - 1, new[b] # 0, new[b] = new[c]
      PROVE  b = c
  BY <1>1, <1>3 DEF Indexes
<1>4. ASSUME NEW i \in I PROVE \E b \in 0 .. n - 1 : new[b] = i
  BY <1>1 DEF Indexes
<1>5. Indexes(h, n, new, es, I, {})
  BY <1>2, <1>3, <1>4 DEF Indexes
<1> QED
  BY <1>5 DEF new

\* A bucket is given the new number of the entry it names.
LEMMA Rename ==
  ASSUME NEW n \in Nat \ {0}, NEW h, NEW bs \in [0 .. n - 1 -> Nat], NEW es, NEW I,
         Indexes(h, n, bs, es, I, {}), 0 \notin I,
         NEW b \in 0 .. n - 1, bs[b] # 0, NEW d \in Nat \ {0}, d \notin I,
         NEW new, new[d].key = es[bs[b]].key,
         \A i \in I \ {bs[b]} : new[i].key = es[i].key
  PROVE  Indexes(h, n, [bs EXCEPT ![b] = d], new, (I \ {bs[b]}) \cup {d}, {})
<1> DEFINE named == [bs EXCEPT ![b] = d]
<1>1. /\ named[b] = d
      /\ \A c \in 0 .. n - 1 : (c # b => named[c] = bs[c]) /\ (bs[c] # 0 <=> named[c] # 0)
  OBVIOUS
<1> HIDE DEF named
<1>2. ASSUME NEW c \in 0 .. n - 1, named[c] # 0
      PROVE  named[c] \in (I \ {bs[b]}) \cup {d} /\ Reached(h, n, named, new, c)
  <2>1. bs[c] # 0 /\ bs[c] \in I /\ Reached(h, n, bs, es, c)
    BY <1>1, <1>2 DEF Indexes
  <2>2. named[c] \in (I \ {bs[b]}) \cup {d} /\ new[named[c]].key = es[bs[c]].key
    BY <1>1, <2>1 DEF Indexes
  <2>3. Ideal(h, n, named, new, c) = Ideal(h, n, bs, es, c)
    BY <2>2 DEF Ideal
  <2> QED
    BY <1>1, <2>1, <2>2, <2>3 DEF Reached
<1>3. ASSUME NEW c \in 0 .. n - 1, NEW e \in 0 .. n - 1, named[c] # 0, named[c] = named[e]
      PROVE  c = e
  <2>1. bs[b] \in I /\ bs[c] \in I /\ bs[e] \in I
    BY <1>1, <1>3 DEF Indexes
  <2>2. bs[c] = bs[e] => c = e
    BY <2>1, <1>1, <1>3 DEF Indexes
  <2>3. CASE c = b \/ e = b
    BY <1>1, <1>3, <2>1, <2>3
  <2>4. CASE c # b /\ e # b
    BY <1>1, <1>3, <2>2, <2>4
  <2> QED
    BY <2>3, <2>4
<1>4. ASSUME NEW i \in (I \ {bs[b]}) \cup {d} PROVE \E c \in 0 .. n - 1 : named[c] = i
  <2>1. CASE i = d
    BY <1>1, <2>1
  <2>2. CASE i \in I /\ i # bs[b]
    <3>1. PICK c \in 0 .. n - 1 : bs[c] = i
      BY <2>2 DEF Indexes
    <3> QED
      BY <1>1, <2>2, <3>1
  <2> QED
    BY <1>4, <2>1, <2>2
<1>5. Indexes(h, n, named, new, (I \ {bs[b]}) \cup {d}, {})
  BY <1>2, <1>3, <1>4 DEF Indexes
<1> QED
  BY <1>5 DEF named

----------------------------------------------------------------------------
(* The invariant is kept by every step.                                     *)

CloneCounts == [Keys -> [Copies -> Int]]
Results == Values \cup {"OK", "FAILED", "ABSENT"}

LEMMA CloneTypes ==
  ASSUME NEW cs \in CloneCounts, NEW e \in Entries
  PROVE  Cloned(cs, e) \in CloneCounts /\ Dropped(cs, e) \in CloneCounts
  BY DEF Cloned, Dropped, CloneCounts, Entries, Copies

LEMMA PreparedType ==
  ASSUME NEW k \in Keys, NEW v \in Values
  PROVE  Prepared(k, v) \in Entries /\ Prepared(k, v).key = k
  BY DEF Prepared, Entries, Copies

LEMMA DroppedAllType ==
  ASSUME TypeOK
  PROVE  DroppedAll \in CloneCounts
<1>1. ASSUME NEW k \in Keys, NEW c \in Copies PROVE Holders(entries, k, c) \in Int
  <2> DEFINE H == {i \in DOMAIN entries : entries[i].key = k /\ entries[i].copy = c}
  <2>1. IsFiniteSet(DOMAIN entries)
    <3>1. DOMAIN entries = 1 .. Len(entries) /\ Len(entries) \in Nat
      BY DEF TypeOK
    <3> QED
      BY <3>1, FS_Interval
  <2>2. IsFiniteSet(H)
    BY <2>1, FS_Subset
  <2> QED
    BY <2>2, FS_CardinalityType DEF Holders
<1>2. \A k \in Keys, c \in Copies : clones[k][c] - Holders(entries, k, c) \in Int
  BY <1>1 DEF TypeOK
<1> QED
  BY <1>2 DEF DroppedAll, CloneCounts, TypeOK

\* A lookup that finds something finds an entry with the key.
LEMMA LookupEntry ==
  ASSUME IndexInv, Idle, NEW k \in Keys, Present(k)
  PROVE  /\ bucket_capacity \in Nat \ {0} /\ Bucket(k) \in Buckets
         /\ buckets[Bucket(k)] = IndexOf(k)
         /\ IndexOf(k) \in 1 .. Len(entries) /\ entries[IndexOf(k)].key = k
<1>1. bucket_capacity \in Nat \ {0}
  BY DEF Present, Bucket, FindBucket, IndexInv, TypeOK
<1>2. /\ Bucket(k) \in Buckets /\ buckets[Bucket(k)] # 0
      /\ entries[buckets[Bucket(k)]].key = k
  <2>1. hash \in [Keys -> Hashes] /\ buckets \in [Buckets -> Nat]
    BY DEF IndexInv, TypeOK
  <2>2. \E b \in Buckets : buckets[b] = 0
    BY <1>1 DEF IndexInv, ProbeEnds
  <2>3. FindBucket(buckets, entries, k) # NoBucket
    BY DEF Present, Bucket
  <2> QED
    BY <1>1, <2>1, <2>2, <2>3, LookupSound DEF Bucket
<1>3. IndexOf(k) \in 1 .. Len(entries)
  BY <1>2 DEF IndexInv, IndexOK, Idle, Indexed, Indexes, IndexOf, Buckets
<1> QED
  BY <1>1, <1>2, <1>3 DEF IndexOf

\* Every entry is found by its key.
LEMMA EntryFound ==
  ASSUME IndexInv, Idle, NEW i \in 1 .. Len(entries)
  PROVE  Present(entries[i].key) /\ IndexOf(entries[i].key) = i
<1>1. bucket_capacity \in Nat \ {0}
  BY DEF IndexInv, TypeOK
<1>2. Indexes(hash, bucket_capacity, buckets, entries, 1 .. Len(entries), {})
  BY DEF IndexInv, IndexOK, Idle, Indexed
<1>3. PICK b \in Buckets : buckets[b] = i
  BY <1>2 DEF Indexes, Buckets
<1>4. \A j \in 1 .. Len(entries) : entries[j].key \in Keys
  <2>1. \A j \in 1 .. Len(entries) : entries[j] \in Entries
    BY DEF IndexInv, TypeOK
  <2> QED
    BY <2>1 DEF Entries
<1>5. \A j, l \in 1 .. Len(entries) : entries[j].key = entries[l].key => j = l
  BY DEF IndexInv, Roomy, UniqueKeys, TypeOK
<1>6. FindBucket(buckets, entries, entries[buckets[b]].key) = b
  <2>1. hash \in [Keys -> Hashes] /\ buckets \in [Buckets -> Nat] /\ buckets[b] # 0
    BY <1>3 DEF IndexInv, TypeOK
  <2> QED
    BY <1>1, <1>2, <1>4, <1>5, <2>1, LookupIndexed
<1> QED
  BY <1>3, <1>6 DEF Present, Bucket, IndexOf, NoBucket, Buckets

LEMMA KeyAbsent ==
  ASSUME IndexInv, Idle, NEW k \in Keys, ~Present(k)
  PROVE  \A i \in DOMAIN entries : entries[i].key # k
<1>1. DOMAIN entries = 1 .. Len(entries)
  BY DEF IndexInv, TypeOK
<1> QED
  BY <1>1, EntryFound

\* A call that returns without touching the index or the entries.
LEMMA QuietStep ==
  ASSUME IndexInv, pc = "idle" \/ (pc = "fill" /\ cursor > Len(entries)),
         NEW r \in Results, Return(r), config' \in {"null", "bytes", "owning"},
         clones' \in CloneCounts, UNCHANGED <<hash, entries, index>>
  PROVE  IndexInv'
<1>1. TypeOK'
  BY DEF IndexInv, TypeOK, Return, index, Results, CloneCounts, Buckets
<1>2. Indexed' = Indexed
  BY DEF Indexed, Return, IndexInv, TypeOK
<1>3. Roomy' /\ ProbeEnds' /\ EraseOK'
  BY DEF IndexInv, Roomy, ProbeEnds, EraseOK, Return, index, Buckets
<1>4. IndexOK'
  BY <1>2 DEF IndexInv, IndexOK, index
<1> QED
  BY <1>1, <1>3, <1>4 DEF IndexInv

LEMMA InitIndex == Init => IndexInv
<1> SUFFICES ASSUME Init PROVE IndexInv
  OBVIOUS
<1>1. TypeOK
  BY DEF Init, TypeOK, Buckets, Copies
<1>2. Roomy /\ ProbeEnds /\ EraseOK
  BY DEF Init, Roomy, UniqueKeys, ProbeEnds, EraseOK
<1>3. IndexOK
  BY DEF Init, IndexOK, Indexed, Indexes
<1> QED
  BY <1>1, <1>2, <1>3 DEF IndexInv

\* The start of a growth: an empty index for no entries yet.
LEMMA GrowthStep ==
  ASSUME IndexInv, Idle, NEW required \in Nat, required > capacity,
         NEW prepared \in Seq(Entries), Len(prepared) <= 1,
         prepared # <<>> => /\ required = Len(entries) + 1
                            /\ \A i \in DOMAIN entries : entries[i].key # prepared[1].key,
         StartGrowth(required, prepared), clones' \in CloneCounts
  PROVE  IndexInv'
<1>0. PICK n \in EntryCapacity(required) : \E b \in BucketCapacity(n) :
          /\ capacity' = n /\ bucket_capacity' = b
          /\ buckets' = [x \in 0 .. b - 1 |-> 0]
  BY DEF StartGrowth
<1>1. PICK m \in BucketCapacity(n) :
          /\ capacity' = n /\ bucket_capacity' = m
          /\ buckets' = [x \in 0 .. m - 1 |-> 0]
  BY <1>0
<1>2. n \in Nat /\ n >= required
  BY HashMapAssumption
  DEF EntryCapacity, DoubledUntil, HashMapAssumption, IndexInv, TypeOK
<1>3. m \in Nat /\ m > n
  <2>1. n \div 3 \in Nat
    BY <1>2
  <2>2. m \in Int /\ m >= RequiredBuckets(n)
    BY HashMapAssumption, <1>2, <2>1
    DEF BucketCapacity, DoubledUntil, RequiredBuckets, HashMapAssumption
  <2> QED
    BY <1>2, <2>1, <2>2 DEF RequiredBuckets
<1>4. capacity \in Nat /\ Len(entries) \in Nat /\ Len(entries) <= capacity
  BY DEF IndexInv, TypeOK
<1>5. TypeOK'
  <2>1. /\ UNCHANGED <<hash, entries, hole, doomed, result>>
        /\ pc' = "fill" /\ cursor' = 1 /\ pending' = prepared
        /\ config' \in {"null", "bytes", "owning"}
    BY DEF StartGrowth, IndexInv, TypeOK
  <2>2. buckets' \in [Buckets' -> Nat]
    BY <1>1 DEF Buckets
  <2> QED
    BY <1>1, <1>2, <1>3, <1>4, <2>1, <2>2 DEF IndexInv, TypeOK, CloneCounts
<1>6. Roomy'
  BY <1>1, <1>2, <1>3, <1>4 DEF IndexInv, Roomy, StartGrowth
<1>7. ProbeEnds'
  BY <1>1, <1>2, <1>3 DEF ProbeEnds, Buckets
<1>8. IndexOK' /\ EraseOK'
  BY <1>1 DEF StartGrowth, IndexOK, EraseOK, Indexed, Indexes
<1> QED
  BY <1>5, <1>6, <1>7, <1>8 DEF IndexInv

\* What the index, outside a removal, says of the number of entries in it.
LEMMA IndexFacts ==
  ASSUME IndexInv, pc # "erase", bucket_capacity # 0
  PROVE  /\ bucket_capacity \in Nat \ {0} /\ Buckets = 0 .. bucket_capacity - 1
         /\ hash \in [Keys -> Hashes] /\ buckets \in [Buckets -> Nat]
         /\ Indexes(hash, bucket_capacity, buckets, entries, Indexed, {})
         /\ \E b \in Buckets : buckets[b] = 0
         /\ Len(entries) \in Nat /\ DOMAIN entries = 1 .. Len(entries)
         /\ \A i \in 1 .. Len(entries) : entries[i].key \in Keys
         /\ Len(entries) <= capacity /\ capacity < bucket_capacity /\ capacity \in Nat
<1>1. \A i \in 1 .. Len(entries) : entries[i] \in Entries
  BY DEF IndexInv, TypeOK
<1>2. \A i \in 1 .. Len(entries) : entries[i].key \in Keys
  BY <1>1 DEF Entries
<1> QED
  BY <1>2 DEF IndexInv, TypeOK, Buckets, IndexOK, ProbeEnds, Roomy

LEMMA FillStepIndex ==
  ASSUME IndexInv, FillStep
  PROVE  IndexInv'
<1>1. /\ pc = "fill" /\ cursor \in 1 .. Len(entries) /\ bucket_capacity # 0
      /\ Indexed = 1 .. cursor - 1 /\ Indexed' = 1 .. cursor
  BY DEF FillStep, IndexInv, TypeOK, Indexed
<1>2. /\ buckets' \in [Buckets -> Nat]
      /\ Indexes(hash, bucket_capacity, buckets', entries, (1 .. cursor - 1) \cup {cursor}, {})
  <2>1. Indexes(hash, bucket_capacity, buckets, entries, 1 .. cursor - 1, {})
    BY <1>1, IndexFacts
  <2>2. 0 \notin 1 .. cursor - 1 /\ cursor \notin 1 .. cursor - 1 /\ cursor \in Nat \ {0}
    BY <1>1, IndexFacts
  <2>3. entries[cursor].key \in Keys
    BY <1>1, IndexFacts
  <2>4. buckets' = InsertBucket(buckets, entries[cursor].key, cursor)
    BY DEF FillStep
  <2> QED
    BY <1>1, <2>1, <2>2, <2>3, <2>4, IndexFacts, InsertIndexes
<1>3. (1 .. cursor - 1) \cup {cursor} = 1 .. cursor
  BY <1>1
<1>4. \E b \in Buckets : buckets'[b] = 0
  <2>1. cursor \in Nat /\ cursor < bucket_capacity
    BY <1>1, IndexFacts
  <2> QED
    <3>1. /\ bucket_capacity \in Nat /\ Buckets = 0 .. bucket_capacity - 1
          /\ Indexes(hash, bucket_capacity, buckets', entries, 1 .. cursor, {})
      BY <1>1, <1>2, <1>3, IndexFacts
    <3> QED
      BY <1>2, <2>1, <3>1, EmptyBucket
<1>5. TypeOK'
  BY <1>1, <1>2 DEF FillStep, IndexInv, TypeOK, Buckets
<1>6. Roomy' /\ ProbeEnds' /\ EraseOK'
  BY <1>1, <1>4 DEF FillStep, IndexInv, Roomy, ProbeEnds, EraseOK, Buckets
<1>7. IndexOK'
  BY <1>1, <1>2, <1>3 DEF FillStep, IndexOK
<1> QED
  BY <1>5, <1>6, <1>7 DEF IndexInv

\* The entry at the end of an insertion has a key that is not in the map.
LEMMA AppendStep ==
  ASSUME IndexInv, pc = "idle" \/ (pc = "fill" /\ cursor > Len(entries)),
         NEW e \in Entries, \A i \in DOMAIN entries : entries[i].key # e.key,
         Len(entries) < capacity, AppendEntry(e), clones' \in CloneCounts
  PROVE  IndexInv'
<1> DEFINE m == Len(entries) + 1
<1>1. bucket_capacity # 0 /\ pc # "erase"
  BY DEF IndexInv, TypeOK
<1>2. Indexed = 1 .. Len(entries) /\ m \in Nat \ {0} /\ m <= capacity
  BY DEF Indexed, IndexInv, TypeOK
<1>3. /\ entries' \in Seq(Entries) /\ Len(entries') = m /\ DOMAIN entries' = 1 .. m
      /\ \A i \in 1 .. Len(entries) : entries'[i] = entries[i]
      /\ entries'[m] = e
  BY <1>2 DEF AppendEntry, IndexInv, TypeOK
<1>4. UNCHANGED <<config, hash, capacity, bucket_capacity>> /\ pc' = "idle" /\ pending' = <<>>
      /\ cursor' = 0 /\ hole' = 0 /\ doomed' = 0 /\ result' = "OK"
      /\ buckets' = InsertBucket(buckets, e.key, m)
  BY DEF AppendEntry, Return
<1>5. Indexes(hash, bucket_capacity, buckets, entries', 1 .. Len(entries), {})
  BY <1>1, <1>2, <1>3, IndexFacts, SameKeys
<1>6. /\ buckets' \in [Buckets -> Nat]
      /\ Indexes(hash, bucket_capacity, buckets', entries', (1 .. Len(entries)) \cup {m}, {})
  <2>1. entries'[m].key = e.key /\ e.key \in Keys
    BY <1>3 DEF Entries
  <2>2. 0 \notin 1 .. Len(entries) /\ m \notin 1 .. Len(entries)
    BY <1>2
  <2> QED
    BY <1>1, <1>2, <1>4, <1>5, <2>1, <2>2, IndexFacts, InsertIndexes
<1>7. (1 .. Len(entries)) \cup {m} = 1 .. m /\ Indexed' = 1 .. m
  BY <1>2, <1>3, <1>4 DEF Indexed
<1>8. \E b \in Buckets : buckets'[b] = 0
  <2>1. m \in Nat /\ m < bucket_capacity
    BY <1>1, <1>2, IndexFacts
  <2> QED
    <3>1. /\ bucket_capacity \in Nat /\ Buckets = 0 .. bucket_capacity - 1
          /\ Indexes(hash, bucket_capacity, buckets', entries', 1 .. m, {})
      BY <1>1, <1>6, <1>7, IndexFacts
    <3> HIDE DEF m
    <3> QED
      BY <1>6, <2>1, <3>1, EmptyBucket
<1>9. TypeOK'
  BY <1>2, <1>3, <1>4, <1>6 DEF IndexInv, TypeOK, Buckets, CloneCounts
<1>10. UniqueKeys(entries')
  <2> SUFFICES ASSUME NEW i \in 1 .. m, NEW j \in 1 .. m, entries'[i].key = entries'[j].key
               PROVE  i = j
    BY <1>3 DEF UniqueKeys
  <2>1. DOMAIN entries = 1 .. Len(entries)
    BY DEF IndexInv, TypeOK
  <2>2. CASE i = m /\ j = m
    BY <2>2
  <2>3. CASE i # m /\ j # m
    BY <1>2, <1>3, <2>1, <2>3 DEF IndexInv, Roomy, UniqueKeys
  <2>4. CASE i = m /\ j # m
    BY <1>2, <1>3, <2>1, <2>4
  <2>5. CASE i # m /\ j = m
    BY <1>2, <1>3, <2>1, <2>5
  <2> QED
    BY <2>2, <2>3, <2>4, <2>5
<1>11. Roomy' /\ ProbeEnds' /\ EraseOK'
  BY <1>4, <1>8, <1>10 DEF IndexInv, Roomy, ProbeEnds, EraseOK, Buckets
<1>12. IndexOK'
  BY <1>4, <1>6, <1>7 DEF IndexOK
<1> QED
  BY <1>9, <1>11, <1>12 DEF IndexInv

LEMMA SetReplaceIndex ==
  ASSUME IndexInv, NEW k \in Keys, NEW v \in Values, SetReplace(k, v)
  PROVE  IndexInv'
<1> DEFINE e == Prepared(k, v)
           p == IndexOf(k)
<1>1. /\ Idle /\ Present(k) /\ entries' = [entries EXCEPT ![p] = e]
      /\ clones' = Dropped(Cloned(clones, e), entries[p]) /\ Return("OK")
      /\ UNCHANGED <<config, hash, index>>
  BY DEF SetReplace
<1>2. /\ bucket_capacity # 0 /\ pc # "erase" /\ Indexed = 1 .. Len(entries)
      /\ p \in 1 .. Len(entries) /\ entries[p].key = k
  BY <1>1, LookupEntry DEF Idle, Indexed
<1>3. e \in Entries /\ e.key = k
  BY PreparedType
<1>4. clones' \in CloneCounts
  <2>1. clones \in CloneCounts /\ entries[p] \in Entries
    BY <1>2 DEF IndexInv, TypeOK, CloneCounts
  <2> QED
    BY <1>1, <1>3, <2>1, CloneTypes
<1> HIDE DEF e, p
<1>5. /\ entries' \in Seq(Entries) /\ Len(entries') = Len(entries)
      /\ \A i \in 1 .. Len(entries) : entries'[i].key = entries[i].key
      /\ DOMAIN entries' = 1 .. Len(entries)
  BY <1>1, <1>2, <1>3 DEF IndexInv, TypeOK
<1>6. Indexes(hash, bucket_capacity, buckets, entries', 1 .. Len(entries), {})
  BY <1>2, <1>5, IndexFacts, SameKeys
<1>7. TypeOK'
  BY <1>1, <1>4, <1>5 DEF IndexInv, TypeOK, Return, index, CloneCounts, Buckets
<1>8. UniqueKeys(entries')
  BY <1>2, <1>5, IndexFacts DEF IndexInv, Roomy, UniqueKeys
<1>9. Roomy' /\ ProbeEnds' /\ EraseOK'
  BY <1>1, <1>8 DEF IndexInv, Roomy, ProbeEnds, EraseOK, Return, index, Buckets
<1>10. IndexOK'
  BY <1>1, <1>5, <1>6 DEF IndexOK, Indexed, Return, index
<1> QED
  BY <1>7, <1>9, <1>10 DEF IndexInv

LEMMA RemoveIndex ==
  ASSUME IndexInv, NEW k \in Keys, Remove(k)
  PROVE  IndexInv'
<1>1. /\ Idle /\ Present(k) /\ pc' = "erase" /\ hole' = Bucket(k) /\ doomed' = IndexOf(k)
      /\ cursor' = (hole' + 1) % bucket_capacity
      /\ UNCHANGED <<config, hash, entries, capacity, buckets, bucket_capacity, clones, pending,
                     result>>
  BY DEF Remove, index
<1>2. /\ bucket_capacity # 0 /\ pc # "erase" /\ Indexed = 1 .. Len(entries)
      /\ hole' \in Buckets /\ buckets[hole'] = doomed' /\ doomed' \in 1 .. Len(entries)
  BY <1>1, LookupEntry DEF Idle, Indexed
<1>3. /\ cursor' # hole'
      /\ Indexes(hash, bucket_capacity, buckets, entries, (1 .. Len(entries)) \ {doomed'}, {hole'})
      /\ Shifting(hash, bucket_capacity, buckets, entries, hole', cursor')
  <2>1. /\ bucket_capacity \in Nat \ {0} /\ Buckets = 0 .. bucket_capacity - 1
        /\ Indexes(hash, bucket_capacity, buckets, entries, 1 .. Len(entries), {})
        /\ \E b \in 0 .. bucket_capacity - 1 : buckets[b] = 0
    BY <1>2, IndexFacts
  <2>2. hole' \in 0 .. bucket_capacity - 1 /\ buckets[hole'] # 0
    BY <1>2, <2>1
  <2> QED
    BY <1>1, <1>2, <2>1, <2>2, ShiftStart
<1>4. cursor' \in Buckets
  BY <1>1, <1>2, IndexFacts, CursorStep
<1>5. TypeOK'
  <2>1. /\ cursor' \in Nat /\ hole' \in Nat /\ doomed' \in Nat /\ bucket_capacity > 0
        /\ Buckets' = Buckets
    BY <1>1, <1>2, <1>4, IndexFacts DEF Buckets
  <2> QED
    BY <1>1, <1>2, <1>4, <2>1 DEF IndexInv, TypeOK
<1>6. Roomy' /\ ProbeEnds' /\ IndexOK'
  BY <1>1 DEF IndexInv, Roomy, ProbeEnds, IndexOK, Buckets
<1>7. EraseOK'
  BY <1>1, <1>3 DEF EraseOK
<1> QED
  BY <1>5, <1>6, <1>7 DEF IndexInv

\* What is known in the loop of lor_map__erase_bucket.
LEMMA EraseFacts ==
  ASSUME IndexInv, pc = "erase"
  PROVE  /\ bucket_capacity \in Nat \ {0} /\ Buckets = 0 .. bucket_capacity - 1
         /\ hash \in [Keys -> Hashes] /\ buckets \in [Buckets -> Nat]
         /\ hole \in Buckets /\ cursor \in Buckets /\ hole # cursor
         /\ doomed \in 1 .. Len(entries)
         /\ Len(entries) \in Nat /\ DOMAIN entries = 1 .. Len(entries)
         /\ \A i \in 1 .. Len(entries) : entries[i].key \in Keys
         /\ \E b \in Buckets : buckets[b] = 0
         /\ Indexes(hash, bucket_capacity, buckets, entries,
                    (1 .. Len(entries)) \ {doomed}, {hole})
         /\ Shifting(hash, bucket_capacity, buckets, entries, hole, cursor)
         /\ \A b \in Buckets : b # hole /\ buckets[b] # 0 =>
                /\ buckets[b] \in 1 .. Len(entries)
                /\ Ideal(hash, bucket_capacity, buckets, entries, b) \in Buckets
<1>1. /\ bucket_capacity \in Nat \ {0} /\ Buckets = 0 .. bucket_capacity - 1
      /\ hash \in [Keys -> Hashes] /\ buckets \in [Buckets -> Nat]
      /\ hole \in Buckets /\ cursor \in Buckets /\ hole # cursor
      /\ doomed \in 1 .. Len(entries)
      /\ Len(entries) \in Nat /\ DOMAIN entries = 1 .. Len(entries)
  <2>1. /\ bucket_capacity \in Nat /\ bucket_capacity > 0 /\ entries \in Seq(Entries)
        /\ hash \in [Keys -> Hashes] /\ buckets \in [Buckets -> Nat]
        /\ hole \in Buckets /\ cursor \in Buckets /\ doomed \in 1 .. Len(entries)
    BY DEF IndexInv, TypeOK
  <2>2. hole # cursor
    BY DEF IndexInv, EraseOK
  <2>3. Len(entries) \in Nat /\ DOMAIN entries = 1 .. Len(entries)
    BY <2>1
  <2> QED
    BY <2>1, <2>2, <2>3 DEF Buckets
<1>2. \A i \in 1 .. Len(entries) : entries[i].key \in Keys
  <2>1. \A i \in 1 .. Len(entries) : entries[i] \in Entries
    BY DEF IndexInv, TypeOK
  <2> QED
    BY <2>1 DEF Entries
<1>3. /\ Indexes(hash, bucket_capacity, buckets, entries,
                 (1 .. Len(entries)) \ {doomed}, {hole})
      /\ Shifting(hash, bucket_capacity, buckets, entries, hole, cursor)
  BY DEF IndexInv, EraseOK
<1>4. \E b \in Buckets : buckets[b] = 0
  BY <1>1 DEF IndexInv, ProbeEnds
<1>5. ASSUME NEW b \in Buckets, b # hole, buckets[b] # 0
      PROVE  /\ buckets[b] \in 1 .. Len(entries)
             /\ Ideal(hash, bucket_capacity, buckets, entries, b) \in Buckets
  <2>1. buckets[b] \in 1 .. Len(entries)
    BY <1>1, <1>3, <1>5 DEF Indexes
  <2> QED
    BY <1>1, <1>2, <2>1, HomeType DEF Ideal
<1> QED
  BY <1>1, <1>2, <1>3, <1>4, <1>5

LEMMA EraseStepIndex ==
  ASSUME IndexInv, EraseStep
  PROVE  IndexInv'
<1> DEFINE ideal == Ideal(hash, bucket_capacity, buckets, entries, cursor)
           next == (cursor + 1) % bucket_capacity
           shifted == [buckets EXCEPT ![hole] = buckets[cursor]]
           I == (1 .. Len(entries)) \ {doomed}
<1>1. /\ pc = "erase" /\ buckets[cursor] # 0 /\ cursor' = next
      /\ UNCHANGED <<config, hash, entries, capacity, bucket_capacity, clones, pc, doomed,
                     pending, result>>
  BY DEF EraseStep
<1>2. ideal \in Buckets /\ next \in Buckets
  BY <1>1, EraseFacts, CursorStep
<1>3. PassedHole <=>
          Distance(bucket_capacity, ideal, cursor) > Distance(bucket_capacity, ideal, hole)
  BY DEF PassedHole, ProbeDistance, Steps, BucketFor, Distance, Ideal, Home
<1>4. buckets[hole] # 0
  <2>1. Distance(bucket_capacity, hole, hole) < Distance(bucket_capacity, hole, cursor)
    <3>1. /\ bucket_capacity \in Nat \ {0} /\ hole # cursor
          /\ hole \in 0 .. bucket_capacity - 1 /\ cursor \in 0 .. bucket_capacity - 1
      BY <1>1, EraseFacts
    <3> QED
      BY <3>1, DistanceSelf
  <2> QED
    BY <1>1, <2>1, EraseFacts DEF Shifting
<1>5. CASE PassedHole
  <2>1. buckets' = shifted /\ hole' = cursor
    BY <1>5 DEF EraseStep
  <2>2. /\ next # cursor
        /\ Indexes(hash, bucket_capacity, shifted, entries, I, {cursor})
        /\ Shifting(hash, bucket_capacity, shifted, entries, cursor, next)
    BY <1>1, <1>2, <1>3, <1>4, <1>5, EraseFacts, ShiftMove
  <2>3. /\ buckets' \in [Buckets -> Nat]
        /\ \E b \in Buckets : buckets'[b] = 0
    BY <1>1, <1>4, <2>1, EraseFacts
  <2>4. TypeOK'
    <3>1. cursor \in Buckets /\ Buckets' = Buckets /\ Buckets \in SUBSET Nat
      BY <1>1, EraseFacts DEF Buckets
    <3>2. cursor' \in Buckets /\ hole' \in Buckets
      BY <1>1, <1>2, <2>1, <3>1
    <3> QED
      BY <1>1, <2>3, <3>1, <3>2 DEF IndexInv, TypeOK
  <2>5. Roomy' /\ ProbeEnds' /\ IndexOK'
    BY <1>1, <2>3 DEF IndexInv, Roomy, ProbeEnds, IndexOK, Buckets
  <2>6. EraseOK'
    BY <1>1, <2>1, <2>2 DEF EraseOK
  <2> QED
    BY <2>4, <2>5, <2>6 DEF IndexInv
<1>6. CASE ~PassedHole
  <2>1. buckets' = buckets /\ hole' = hole
    BY <1>6 DEF EraseStep
  <2>2. Distance(bucket_capacity, ideal, cursor) <= Distance(bucket_capacity, ideal, hole)
    <3>1. \A b \in Buckets : Distance(bucket_capacity, ideal, b) \in Int
      <4>1. /\ bucket_capacity \in Nat \ {0} /\ Buckets = 0 .. bucket_capacity - 1
            /\ ideal \in Buckets
        BY <1>1, <1>2, EraseFacts
      <4> HIDE DEF ideal
      <4> QED
        BY <4>1, DistanceOrder
    <3> QED
      BY <1>1, <1>3, <1>6, <3>1, EraseFacts
  <2>3. next # hole /\ Shifting(hash, bucket_capacity, buckets, entries, hole, next)
    BY <1>1, <2>2, EraseFacts, ShiftSkip
  <2>4. TypeOK'
    BY <1>1, <1>2, <2>1 DEF IndexInv, TypeOK, Buckets
  <2>5. Roomy' /\ ProbeEnds' /\ IndexOK'
    BY <1>1, <2>1 DEF IndexInv, Roomy, ProbeEnds, IndexOK, Buckets
  <2>6. EraseOK'
    BY <1>1, <2>1, <2>3 DEF EraseOK, IndexInv
  <2> QED
    BY <2>4, <2>5, <2>6 DEF IndexInv
<1> QED
  BY <1>5, <1>6

LEMMA CutLast ==
  ASSUME NEW S, NEW s \in Seq(S), NEW m \in Nat \ {0}, Len(s) = m
  PROVE  /\ SubSeq(s, 1, m - 1) \in Seq(S) /\ Len(SubSeq(s, 1, m - 1)) = m - 1
         /\ DOMAIN SubSeq(s, 1, m - 1) = 1 .. m - 1
         /\ \A i \in 1 .. m - 1 : SubSeq(s, 1, m - 1)[i] = s[i]
  OBVIOUS

LEMMA RemoveDoneIndex ==
  ASSUME IndexInv, RemoveDone
  PROVE  IndexInv'
<1> DEFINE n == bucket_capacity
           last == Len(entries)
           erased == [buckets EXCEPT ![hole] = 0]
           moved == [entries EXCEPT ![doomed] = entries[last]]
           moved_bucket == FindBucket(erased, moved, moved[doomed].key)
           I == (1 .. last) \ {doomed}
<1>1. /\ pc = "erase" /\ buckets[cursor] = 0
      /\ buckets' = IF doomed # last /\ moved_bucket # NoBucket
                     THEN [erased EXCEPT ![moved_bucket] = doomed] ELSE erased
      /\ entries' = SubSeq(moved, 1, last - 1)
      /\ clones' = Dropped(clones, entries[doomed]) /\ Return("OK")
      /\ UNCHANGED <<config, hash, capacity, bucket_capacity>>
  BY DEF RemoveDone
<1>2. /\ n \in Nat \ {0} /\ Buckets = 0 .. n - 1 /\ doomed \in 1 .. last /\ last \in Nat
      /\ hash \in [Keys -> Hashes] /\ hole \in Buckets /\ DOMAIN entries = 1 .. last
      /\ entries \in Seq(Entries) /\ buckets \in [Buckets -> Nat] /\ cursor \in Buckets
      /\ \A i \in 1 .. last : entries[i].key \in Keys
  BY <1>1, EraseFacts DEF IndexInv, TypeOK
<1>3. erased \in [Buckets -> Nat] /\ erased[hole] = 0
  BY <1>2
<1>4. Indexes(hash, n, erased, entries, I, {})
  <2>1. 0 \notin I
    BY <1>2
  <2> QED
    BY <1>1, <1>2, <2>1, EraseFacts, ShiftEnd
<1>5. clones' \in CloneCounts
  <2>1. clones \in CloneCounts /\ entries[doomed] \in Entries
    BY <1>2 DEF IndexInv, TypeOK, CloneCounts
  <2> QED
    BY <1>1, <2>1, CloneTypes
<1>6. /\ moved \in Seq(Entries) /\ Len(moved) = last /\ moved[doomed] = entries[last]
      /\ \A i \in I : moved[i] = entries[i]
  BY <1>2
<1>7. /\ entries' \in Seq(Entries) /\ Len(entries') = last - 1
      /\ DOMAIN entries' = 1 .. last - 1
      /\ \A i \in 1 .. last - 1 : entries'[i] = moved[i]
  <2> HIDE DEF moved, last
  <2>1. last \in Nat \ {0}
    BY <1>2
  <2> QED
    BY <1>1, <1>6, <2>1, CutLast
<1>0. Len(entries) = last
  OBVIOUS
<1> HIDE DEF erased, moved, last
<1>8. \A i, j \in 1 .. last : entries[i].key = entries[j].key => i = j
  BY <1>2 DEF IndexInv, Roomy, UniqueKeys
<1>9. UniqueKeys(entries')
  <2> SUFFICES ASSUME NEW i \in 1 .. last - 1, NEW j \in 1 .. last - 1,
                      moved[i].key = moved[j].key
               PROVE  i = j
    BY <1>7 DEF UniqueKeys
  <2>1. \A l \in 1 .. last - 1 : moved[l] = IF l = doomed THEN entries[last] ELSE entries[l]
    BY <1>2, <1>6
  <2> QED
    BY <1>2, <1>8, <2>1
<1>10. /\ buckets' \in [Buckets -> Nat] /\ \E b \in Buckets : buckets'[b] = 0
       /\ Indexes(hash, n, buckets', entries', 1 .. last - 1, {})
  <2>1. CASE doomed = last
    <3>1. buckets' = erased /\ I = 1 .. last - 1
      BY <1>1, <1>2, <2>1
    <3>2. \A i \in I : entries'[i].key = entries[i].key
      BY <1>6, <1>7, <3>1
    <3> QED
      BY <1>2, <1>3, <1>4, <3>1, <3>2, SameKeys
  <2>2. CASE doomed # last
    <3>1. last \in I
      BY <1>2, <2>2
    <3>2. PICK b \in Buckets : erased[b] = last
      BY <1>2, <1>4, <3>1 DEF Indexes
    <3>3. Indexes(hash, n, erased, moved, I, {})
      BY <1>4, <1>6, SameKeys
    <3>4. /\ \A i \in I : moved[i].key \in Keys
          /\ \A i, j \in I : moved[i].key = moved[j].key => i = j
      BY <1>2, <1>6, <1>8
    <3>5. moved_bucket = b
      <4>1. moved[doomed].key = moved[erased[b]].key /\ erased[b] # 0
        BY <1>2, <1>6, <3>1, <3>2
      <4>2. FindBucket(erased, moved, moved[erased[b]].key) = b
        <5>1. n \in Nat \ {0} /\ hash \in [Keys -> Hashes]
          BY <1>2
        <5> HIDE DEF I
        <5> QED
          BY <1>3, <3>3, <3>4, <4>1, <5>1, LookupIndexed
      <4> QED
        BY <4>1, <4>2
    <3>6. buckets' = [erased EXCEPT ![b] = doomed]
      BY <1>1, <1>2, <2>2, <3>5 DEF NoBucket
    <3>7. entries'[doomed].key = entries[last].key
      <4>1. doomed \in 1 .. last - 1
        BY <1>2, <2>2
      <4> QED
        BY <1>6, <1>7, <4>1
    <3>8. \A i \in I \ {last} : entries'[i].key = entries[i].key
      BY <1>2, <1>6, <1>7
    <3>9. Indexes(hash, n, buckets', entries', (I \ {last}) \cup {doomed}, {})
      <4>1. 0 \notin I /\ doomed \notin I /\ doomed \in Nat \ {0} /\ erased[b] # 0
        BY <1>2, <3>2
      <4> HIDE DEF I
      <4> QED
        BY <1>2, <1>3, <1>4, <3>2, <3>6, <3>7, <3>8, <4>1, Rename
    <3>10. (I \ {last}) \cup {doomed} = 1 .. last - 1
      BY <1>2, <2>2
    <3>11. buckets' \in [Buckets -> Nat] /\ buckets'[hole] = 0
      BY <1>2, <1>3, <3>2, <3>6
    <3> QED
      BY <1>2, <3>9, <3>10, <3>11
  <2> QED
    BY <2>1, <2>2
<1>11. /\ pc' = "idle" /\ cursor' = 0 /\ hole' = 0 /\ doomed' = 0 /\ pending' = <<>>
       /\ result' = "OK"
  BY <1>1 DEF Return
<1>12. TypeOK'
  <2>1. entries' \in Seq(Entries) /\ Len(entries') <= capacity
    BY <1>0, <1>2, <1>7 DEF IndexInv, TypeOK
  <2>2. buckets' \in [Buckets' -> Nat]
    BY <1>1, <1>10 DEF Buckets
  <2> QED
    BY <1>1, <1>5, <1>11, <2>1, <2>2 DEF IndexInv, TypeOK, CloneCounts
<1>13. Roomy' /\ ProbeEnds' /\ EraseOK'
  BY <1>1, <1>9, <1>10, <1>11 DEF IndexInv, Roomy, ProbeEnds, EraseOK, Buckets
<1>14. IndexOK'
  BY <1>1, <1>7, <1>10, <1>11 DEF IndexOK, Indexed
<1> QED
  BY <1>12, <1>13, <1>14 DEF IndexInv

LEMMA EmptyIndex ==
  ASSUME IndexInv, Clear \/ Deinit
  PROVE  IndexInv'
<1>1. clones' \in CloneCounts
  BY DroppedAllType DEF IndexInv, Clear, Deinit
<1>2. /\ pc' = "idle" /\ cursor' = 0 /\ hole' = 0 /\ doomed' = 0 /\ pending' = <<>>
      /\ result' = "OK" /\ entries' = <<>> /\ hash' = hash
  BY DEF Clear, Deinit, Return
<1>3. TypeOK'
  <2>1. CASE Clear
    BY <1>1, <1>2, <2>1 DEF Clear, IndexInv, TypeOK, Buckets, CloneCounts
  <2>2. CASE Deinit
    BY <1>1, <1>2, <2>2 DEF Deinit, IndexInv, TypeOK, Buckets, CloneCounts
  <2> QED
    BY <2>1, <2>2
<1>4. /\ \A b \in Buckets' : buckets'[b] = 0
      /\ bucket_capacity' = 0 \/ capacity' < bucket_capacity'
      /\ bucket_capacity' \in Nat
  BY DEF Clear, Deinit, IndexInv, TypeOK, Roomy, Buckets
<1>5. Roomy' /\ ProbeEnds' /\ EraseOK'
  BY <1>2, <1>4 DEF Roomy, UniqueKeys, ProbeEnds, EraseOK, Buckets
<1>6. IndexOK'
  <2>1. Indexed' = {}
    BY <1>2 DEF Indexed
  <2> QED
    BY <1>4, <2>1 DEF IndexOK, Indexes, Buckets
<1> QED
  BY <1>3, <1>5, <1>6 DEF IndexInv

LEMMA SetIndex ==
  ASSUME IndexInv, NEW k \in Keys, NEW v \in Values,
         SetAppend(k, v) \/ SetGrows(k, v) \/ SetUngrown(k, v)
  PROVE  IndexInv'
<1> DEFINE e == Prepared(k, v)
<1>1. Idle /\ ~Present(k) /\ pc = "idle"
  BY DEF SetAppend, SetGrows, SetUngrown, Idle
<1>2. e \in Entries /\ e.key = k
  BY PreparedType
<1>3. \A i \in DOMAIN entries : entries[i].key # e.key
  BY <1>1, <1>2, KeyAbsent
<1>4. Cloned(clones, e) \in CloneCounts /\ DropPrepared(e) \in CloneCounts
  <2>1. clones \in CloneCounts
    BY DEF IndexInv, TypeOK, CloneCounts
  <2>2. Cloned(clones, e) \in CloneCounts
    BY <1>2, <2>1, CloneTypes
  <2> QED
    BY <1>2, <2>2, CloneTypes DEF DropPrepared
<1> HIDE DEF e
<1>5. CASE SetAppend(k, v)
  <2>1. Len(entries) < capacity
    BY <1>5 DEF SetAppend, Full, IndexInv, TypeOK
  <2>2. AppendEntry(e) /\ clones' \in CloneCounts
    BY <1>4, <1>5 DEF SetAppend, e
  <2> QED
    BY <1>1, <1>2, <1>3, <2>1, <2>2, AppendStep
<1>6. CASE SetGrows(k, v)
  <2> DEFINE required == Len(entries) + 1
             prepared == <<e>>
  <2>1. required \in Nat /\ required > capacity
    BY <1>6 DEF SetGrows, Full, IndexInv, TypeOK
  <2>2. StartGrowth(required, prepared) /\ clones' \in CloneCounts
    BY <1>4, <1>6 DEF SetGrows, e
  <2>3. prepared \in Seq(Entries) /\ Len(prepared) <= 1 /\ prepared[1] = e
    BY <1>2
  <2>4. \A i \in DOMAIN entries : entries[i].key # prepared[1].key
    BY <1>3, <2>3
  <2> HIDE DEF prepared
  <2> QED
    BY <1>1, <2>1, <2>2, <2>3, <2>4, GrowthStep
<1>7. CASE SetUngrown(k, v)
  <2>1. /\ Return("FAILED") /\ clones' \in CloneCounts
        /\ config' \in {"null", "bytes", "owning"} /\ UNCHANGED <<hash, entries, index>>
    BY <1>4, <1>7 DEF SetUngrown, e, IndexInv, TypeOK
  <2> QED
    BY <1>1, <2>1, QuietStep DEF Results
<1> QED
  BY <1>5, <1>6, <1>7

LEMMA NextIndex == IndexInv /\ [Next]_vars => IndexInv'
<1> SUFFICES ASSUME IndexInv, [Next]_vars PROVE IndexInv'
  OBVIOUS
<1> DEFINE Quiet(r) ==
        /\ pc = "idle" \/ (pc = "fill" /\ cursor > Len(entries))
        /\ Return(r) /\ config' \in {"null", "bytes", "owning"}
        /\ UNCHANGED <<hash, entries, index, clones>>
<1>1. ASSUME NEW r \in Results, Quiet(r) PROVE IndexInv'
  <2>1. clones' \in CloneCounts
    BY <1>1 DEF IndexInv, TypeOK, CloneCounts
  <2> QED
    BY <1>1, <2>1, QuietStep
<1>2. CASE InitFails \/ SetUnprepared \/ ReserveDone
  <2>1. \E r \in Results : Quiet(r)
    BY <1>2 DEF InitFails, SetUnprepared, ReserveDone, Idle, IndexInv, TypeOK, Results
  <2> QED
    BY <1>1, <2>1
<1>3. ASSUME NEW c \in {"bytes", "owning"}, InitRaw(c) PROVE IndexInv'
  <2>1. Quiet("OK")
    BY <1>3 DEF InitRaw, Idle
  <2> QED
    BY <1>1, <2>1 DEF Results
<1>4. ASSUME NEW m \in 0 .. MaxReserve, ReserveEnough(m) \/ ReserveFails(m) PROVE IndexInv'
  <2>1. Quiet("OK") \/ Quiet("FAILED")
    BY <1>4 DEF ReserveEnough, ReserveFails, Idle, IndexInv, TypeOK
  <2> QED
    BY <1>1, <2>1 DEF Results
<1>5. ASSUME NEW m \in 0 .. MaxReserve, Reserve(m) PROVE IndexInv'
  <2>1. Idle /\ m > capacity /\ m \in Nat /\ StartGrowth(m, <<>>)
    BY <1>5 DEF Reserve
  <2>2. clones' \in CloneCounts
    BY <1>5 DEF Reserve, IndexInv, TypeOK, CloneCounts
  <2>3. <<>> \in Seq(Entries) /\ Len(<<>>) <= 1
    OBVIOUS
  <2> QED
    BY <2>1, <2>2, <2>3, GrowthStep
<1>6. ASSUME NEW k \in Keys, Find(k) \/ RemoveAbsent(k) PROVE IndexInv'
  <2>1. CASE RemoveAbsent(k)
    <3>1. Quiet("ABSENT")
      BY <2>1 DEF RemoveAbsent, Idle, IndexInv, TypeOK
    <3> QED
      BY <1>1, <3>1 DEF Results
  <2>2. CASE Find(k)
    <3>1. (IF Present(k) THEN entries[IndexOf(k)].value ELSE "ABSENT") \in Results
      <4>1. CASE Present(k)
        <5>1. entries[IndexOf(k)] \in Entries
          BY <2>2, <4>1, LookupEntry DEF Find, IndexInv, TypeOK
        <5> QED
          BY <4>1, <5>1 DEF Entries, Results
      <4>2. CASE ~Present(k)
        BY <4>2 DEF Results
      <4> QED
        BY <4>1, <4>2
    <3>2. Quiet(IF Present(k) THEN entries[IndexOf(k)].value ELSE "ABSENT")
      BY <2>2 DEF Find, Idle, IndexInv, TypeOK
    <3> QED
      BY <1>1, <3>1, <3>2
  <2> QED
    BY <1>6, <2>1, <2>2
<1>7. CASE SetGrown
  <2>1. /\ pc = "fill" /\ cursor > Len(entries) /\ pending # <<>> /\ AppendEntry(pending[1])
        /\ clones' = clones
    BY <1>7 DEF SetGrown
  <2>2. pending[1] \in Entries
    BY <2>1 DEF IndexInv, TypeOK
  <2>3. /\ Len(entries) < capacity
        /\ \A i \in DOMAIN entries : entries[i].key # pending[1].key
    BY <2>1 DEF IndexInv, Roomy
  <2>4. clones' \in CloneCounts
    BY <2>1 DEF IndexInv, TypeOK, CloneCounts
  <2> QED
    BY <2>1, <2>2, <2>3, <2>4, AppendStep
<1>8. CASE UNCHANGED vars
  <2>1. TypeOK'
    BY <1>8 DEF vars, IndexInv, TypeOK, Buckets
  <2>2. Roomy' /\ ProbeEnds' /\ EraseOK'
    BY <1>8 DEF vars, IndexInv, Roomy, ProbeEnds, EraseOK, Buckets
  <2>3. Indexed' = Indexed
    BY <1>8 DEF vars, Indexed
  <2>4. IndexOK'
    BY <1>8, <2>3 DEF vars, IndexInv, IndexOK
  <2> QED
    BY <2>1, <2>2, <2>4 DEF IndexInv
<1> QED
  BY <1>2, <1>3, <1>4, <1>5, <1>6, <1>7, <1>8, FillStepIndex, SetReplaceIndex, RemoveIndex,
     EraseStepIndex, RemoveDoneIndex, EmptyIndex, SetIndex
  DEF Next, Step

\* The index invariant holds in every execution.
LEMMA IndexInvariant == Spec => []IndexInv
  BY InitIndex, NextIndex, PTL DEF Spec

\* Type correctness of the map.
THEOREM HashMapTypes == Spec => []TypeOK
<1>1. IndexInv => TypeOK
  BY DEF IndexInv
<1> QED
  BY <1>1, IndexInvariant, PTL

\* The loops over the buckets always meet an empty one.
THEOREM HashMapProbeEnds == Spec => []ProbeEnds
<1>1. IndexInv => ProbeEnds
  BY DEF IndexInv
<1> QED
  BY <1>1, IndexInvariant, PTL

\* Between calls every bucket in use and every entry is found by the key it
\* stands for, through any sequence of insertions, growths and removals.
THEOREM HashMapLookupExact == Spec => []LookupExact
<1>1. IndexInv => LookupExact
  <2> SUFFICES ASSUME IndexInv, Idle
               PROVE  /\ \A b \in Buckets :
                            buckets[b] # 0 => /\ buckets[b] <= Len(entries)
                                              /\ Bucket(entries[buckets[b]].key) = b
                      /\ \A i \in 1 .. Len(entries) :
                            Present(entries[i].key) /\ IndexOf(entries[i].key) = i
    BY DEF LookupExact
  <2>1. ASSUME NEW b \in Buckets, buckets[b] # 0
        PROVE  /\ buckets[b] <= Len(entries)
               /\ Bucket(entries[buckets[b]].key) = b
    <3>1. bucket_capacity # 0 /\ pc # "erase" /\ Indexed = 1 .. Len(entries)
      BY DEF Idle, Indexed, Buckets
    <3>2. buckets[b] \in 1 .. Len(entries)
      BY <2>1, <3>1, IndexFacts DEF Indexes
    <3>3. \A j, l \in 1 .. Len(entries) : entries[j].key = entries[l].key => j = l
      BY <3>1, IndexFacts DEF IndexInv, Roomy, UniqueKeys
    <3>4. FindBucket(buckets, entries, entries[buckets[b]].key) = b
      BY <2>1, <3>1, <3>3, IndexFacts, LookupIndexed
    <3> QED
      BY <3>2, <3>4 DEF Bucket
  <2> QED
    BY <2>1, EntryFound
<1> QED
  BY <1>1, IndexInvariant, PTL

----------------------------------------------------------------------------
(* The map implements the dictionary.                                       *)

KeysOf(es) == {es[i].key : i \in DOMAIN es}
DictOf(es) == [k \in KeysOf(es) |-> es[CHOOSE i \in DOMAIN es : es[i].key = k].value]

Rebound(d, k, v) == [x \in DOMAIN d \cup {k} |-> IF x = k THEN v ELSE d[x]]
Unbound(d, k) == [x \in DOMAIN d \ {k} |-> d[x]]

\* The dictionary holds each entry's value under its key.
LEMMA DictValue ==
  ASSUME NEW es, UniqueKeys(es), NEW i \in DOMAIN es
  PROVE  es[i].key \in DOMAIN DictOf(es) /\ DictOf(es)[es[i].key] = es[i].value
<1>1. es[i].key \in KeysOf(es)
  BY DEF KeysOf
<1>2. (CHOOSE j \in DOMAIN es : es[j].key = es[i].key) = i
  BY DEF UniqueKeys
<1> QED
  BY <1>1, <1>2 DEF DictOf

\* New entries that hold the old bindings, but v for k.
LEMMA DictSet ==
  ASSUME NEW es, NEW new, UniqueKeys(es), UniqueKeys(new), NEW k, NEW v,
         KeysOf(new) = KeysOf(es) \cup {k},
         \A i \in DOMAIN new : new[i].key = k => new[i].value = v,
         \A i \in DOMAIN new : new[i].key # k =>
             \E j \in DOMAIN es : es[j].key = new[i].key /\ es[j].value = new[i].value
  PROVE  DictOf(new) = Rebound(DictOf(es), k, v)
<1>2. ASSUME NEW x \in KeysOf(new)
      PROVE  DictOf(new)[x] = IF x = k THEN v ELSE DictOf(es)[x]
  <2>1. PICK i \in DOMAIN new : new[i].key = x
    BY DEF KeysOf
  <2>2. DictOf(new)[x] = new[i].value
    BY <2>1, DictValue
  <2>3. x # k => DictOf(es)[x] = new[i].value
    BY <2>1, DictValue
  <2> QED
    BY <2>1, <2>2, <2>3
<1>3. DictOf(new) = [x \in KeysOf(new) |-> DictOf(new)[x]]
  BY DEF DictOf
<1>4. KeysOf(new) = DOMAIN DictOf(es) \cup {k}
  BY DEF DictOf
<1> QED
  BY <1>2, <1>3, <1>4 DEF Rebound

\* New entries that hold the old bindings, without that of k.
LEMMA DictRemove ==
  ASSUME NEW es, NEW new, UniqueKeys(es), UniqueKeys(new), NEW k,
         KeysOf(new) = KeysOf(es) \ {k},
         \A i \in DOMAIN new :
             \E j \in DOMAIN es : es[j].key = new[i].key /\ es[j].value = new[i].value
  PROVE  DictOf(new) = Unbound(DictOf(es), k)
<1>2. ASSUME NEW x \in KeysOf(new) PROVE DictOf(new)[x] = DictOf(es)[x]
  <2>1. PICK i \in DOMAIN new : new[i].key = x
    BY DEF KeysOf
  <2>2. DictOf(new)[x] = new[i].value
    BY <2>1, DictValue
  <2>3. DictOf(es)[x] = new[i].value
    BY <2>1, DictValue
  <2> QED
    BY <2>2, <2>3
<1>3. DictOf(new) = [x \in KeysOf(new) |-> DictOf(new)[x]]
  BY DEF DictOf
<1>4. KeysOf(new) = DOMAIN DictOf(es) \ {k}
  BY DEF DictOf
<1> QED
  BY <1>2, <1>3, <1>4 DEF Unbound

\* The bindings of the refinement mapping.
bindings == [k \in BoundKeys |-> Bound(k)]

LEMMA Bindings == bindings = DictOf(entries)
  BY DEF bindings, BoundKeys, Bound, KeyOf, DictOf, KeysOf

\* Steps of the map that no caller sees, and calls that change no binding.
LEMMA SameBindings ==
  ASSUME UNCHANGED entries
  PROVE  UNCHANGED bindings
  BY DEF bindings, BoundKeys, Bound, KeyOf

LEMMA AppendBinds ==
  ASSUME IndexInv, IndexInv', NEW e \in Entries, AppendEntry(e)
  PROVE  Dict!Set(e.key, e.value)
<1> DEFINE m == Len(entries) + 1
<1>1. /\ m \in Nat \ {0} /\ DOMAIN entries = 1 .. Len(entries) /\ DOMAIN entries' = 1 .. m
      /\ \A i \in 1 .. Len(entries) : entries'[i] = entries[i]
      /\ entries'[m] = e /\ m \notin 1 .. Len(entries) /\ 1 .. m = (1 .. Len(entries)) \cup {m}
  BY DEF AppendEntry, IndexInv, TypeOK
<1> HIDE DEF m
<1>2. UniqueKeys(entries) /\ UniqueKeys(entries')
  BY DEF IndexInv, Roomy
<1>3. KeysOf(entries') = KeysOf(entries) \cup {e.key}
  BY <1>1 DEF KeysOf
<1>4. \A i \in DOMAIN entries' : entries'[i].key = e.key => entries'[i].value = e.value
  BY <1>1, <1>2 DEF UniqueKeys
<1>5. ASSUME NEW i \in DOMAIN entries', entries'[i].key # e.key
      PROVE  \E j \in DOMAIN entries :
                 entries[j].key = entries'[i].key /\ entries[j].value = entries'[i].value
  BY <1>1, <1>5
<1>6. bindings' = Rebound(bindings, e.key, e.value)
  <2>1. bindings' = DictOf(entries')
    BY DEF bindings, BoundKeys, Bound, KeyOf, DictOf, KeysOf
  <2>2. DictOf(entries') = Rebound(DictOf(entries), e.key, e.value)
    <3>1. \A i \in DOMAIN entries' : entries'[i].key # e.key =>
            \E j \in DOMAIN entries :
                entries[j].key = entries'[i].key /\ entries[j].value = entries'[i].value
      BY <1>5
    <3> QED
      BY <1>2, <1>3, <1>4, <3>1, DictSet
  <2> QED
    BY <2>1, <2>2, Bindings
<1>7. result' = "OK"
  BY DEF AppendEntry, Return
<1> QED
  BY <1>6, <1>7 DEF Dict!Set, bindings, Rebound

\* A new value for a key that has an entry.
LEMMA ReplaceBinds ==
  ASSUME IndexInv, IndexInv', NEW k \in Keys, NEW v \in Values, SetReplace(k, v)
  PROVE  Dict!Set(k, v)
<1> DEFINE e == Prepared(k, v)
           p == IndexOf(k)
<1>1. /\ Idle /\ Present(k) /\ entries' = [entries EXCEPT ![p] = e] /\ result' = "OK"
  BY DEF SetReplace, Return
<1>2. e.key = k /\ e.value = v
  BY DEF Prepared
<1>3. p \in DOMAIN entries /\ entries[p].key = k
  <2>1. DOMAIN entries = 1 .. Len(entries)
    BY DEF IndexInv, TypeOK
  <2> QED
    BY <1>1, <2>1, LookupEntry
<1> HIDE DEF e, p
<1>4. /\ DOMAIN entries' = DOMAIN entries
      /\ \A i \in DOMAIN entries : entries'[i] = IF i = p THEN e ELSE entries[i]
  BY <1>1 DEF IndexInv, TypeOK
<1>5. UniqueKeys(entries) /\ UniqueKeys(entries')
  BY DEF IndexInv, Roomy
<1>6. KeysOf(entries') = KeysOf(entries) \cup {k}
  BY <1>2, <1>3, <1>4 DEF KeysOf
<1>7. \A i \in DOMAIN entries' : entries'[i].key = k => entries'[i].value = v
  BY <1>2, <1>3, <1>4, <1>5 DEF UniqueKeys
<1>8. \A i \in DOMAIN entries' : entries'[i].key # k =>
        \E j \in DOMAIN entries :
            entries[j].key = entries'[i].key /\ entries[j].value = entries'[i].value
  BY <1>2, <1>4
<1>9. bindings' = Rebound(bindings, k, v)
  <2>1. bindings' = DictOf(entries')
    BY DEF bindings, BoundKeys, Bound, KeyOf, DictOf, KeysOf
  <2>2. DictOf(entries') = Rebound(DictOf(entries), k, v)
    BY <1>5, <1>6, <1>7, <1>8, DictSet
  <2> QED
    BY <2>1, <2>2, Bindings
<1> QED
  BY <1>1, <1>9 DEF Dict!Set, bindings, Rebound

\* The end of a removal unbinds the key of the doomed entry and no other,
\* although another entry moves to its place.
LEMMA RemoveUnbinds ==
  ASSUME IndexInv, IndexInv', RemoveDone
  PROVE  \E k \in Keys : Dict!Remove(k)
<1> DEFINE last == Len(entries)
           k == entries[doomed].key
           moved == [entries EXCEPT ![doomed] = entries[last]]
<1>1. entries' = SubSeq(moved, 1, last - 1) /\ result' = "OK" /\ pc = "erase"
  BY DEF RemoveDone, Return
<1>2. /\ doomed \in 1 .. last /\ last \in Nat \ {0} /\ DOMAIN entries = 1 .. last
      /\ entries \in Seq(Entries) /\ k \in Keys
  <2>1. doomed \in 1 .. last /\ last \in Nat /\ DOMAIN entries = 1 .. last
        /\ entries \in Seq(Entries)
    <3>1. entries \in Seq(Entries)
      BY DEF IndexInv, TypeOK
    <3>2. doomed \in 1 .. last /\ last \in Nat /\ DOMAIN entries = 1 .. last
      BY <1>1, EraseFacts
    <3> QED
      BY <3>1, <3>2
  <2>2. entries[doomed] \in Entries
    BY <2>1
  <2> QED
    BY <2>1, <2>2 DEF Entries
<1>3. /\ moved \in Seq(Entries) /\ Len(moved) = last
      /\ \A i \in 1 .. last : moved[i] = IF i = doomed THEN entries[last] ELSE entries[i]
  BY <1>2
<1>4. /\ DOMAIN entries' = 1 .. last - 1
      /\ \A i \in 1 .. last - 1 : entries'[i] = moved[i]
  <2> HIDE DEF moved, last
  <2> QED
    BY <1>1, <1>2, <1>3, CutLast
<1> HIDE DEF moved, last, k
<1>5. \A i \in 1 .. last - 1 :
        entries'[i] = IF i = doomed THEN entries[last] ELSE entries[i]
  BY <1>2, <1>3, <1>4
<1>6. UniqueKeys(entries) /\ UniqueKeys(entries') /\ entries[doomed].key = k
  BY DEF IndexInv, Roomy, k
<1>7. KeysOf(entries') = KeysOf(entries) \ {k}
  <2>1. ASSUME NEW i \in 1 .. last - 1
        PROVE  \E j \in 1 .. last : j # doomed /\ entries'[i] = entries[j]
    <3>1. CASE i = doomed
      BY <1>2, <1>5, <3>1
    <3>2. CASE i # doomed
      BY <1>2, <1>5, <3>2
    <3> QED
      BY <3>1, <3>2
  <2>2. ASSUME NEW j \in 1 .. last, j # doomed
        PROVE  \E i \in 1 .. last - 1 : entries'[i] = entries[j]
    <3>1. CASE j = last
      BY <1>2, <1>5, <2>2, <3>1
    <3>2. CASE j # last
      BY <1>2, <1>5, <2>2, <3>2
    <3> QED
      BY <3>1, <3>2
  <2>3. ASSUME NEW x \in KeysOf(entries') PROVE x \in KeysOf(entries) \ {k}
    BY <1>2, <1>4, <1>6, <2>1, <2>3 DEF KeysOf, UniqueKeys
  <2>4. ASSUME NEW x \in KeysOf(entries) \ {k} PROVE x \in KeysOf(entries')
    BY <1>2, <1>4, <1>6, <2>2, <2>4 DEF KeysOf
  <2> QED
    BY <2>3, <2>4
<1>8. \A i \in DOMAIN entries' :
        \E j \in DOMAIN entries :
            entries[j].key = entries'[i].key /\ entries[j].value = entries'[i].value
  BY <1>2, <1>4, <1>5
<1>9. bindings' = Unbound(bindings, k)
  <2>1. bindings' = DictOf(entries')
    BY DEF bindings, BoundKeys, Bound, KeyOf, DictOf, KeysOf
  <2>2. DictOf(entries') = Unbound(DictOf(entries), k)
    BY <1>6, <1>7, <1>8, DictRemove
  <2> QED
    BY <2>1, <2>2, Bindings
<1>10. k \in DOMAIN bindings
  BY <1>2, <1>6 DEF bindings, BoundKeys, KeyOf
<1>11. Dict!Remove(k)
  BY <1>1, <1>9, <1>10 DEF Dict!Remove, bindings, Unbound
<1> QED
  BY <1>2, <1>11

\* The answers of a lookup are those of the dictionary.
LEMMA LookupAnswers ==
  ASSUME IndexInv, Idle, NEW k \in Keys
  PROVE  /\ Present(k) <=> k \in DOMAIN bindings
         /\ Present(k) => entries[IndexOf(k)].value = bindings[k]
<1>1. DOMAIN entries = 1 .. Len(entries) /\ UniqueKeys(entries)
  BY DEF IndexInv, TypeOK, Roomy
<1>2. CASE Present(k)
  <2>1. IndexOf(k) \in DOMAIN entries /\ entries[IndexOf(k)].key = k
    BY <1>1, <1>2, LookupEntry
  <2> QED
    BY <1>1, <1>2, <2>1, DictValue, Bindings
<1>3. CASE ~Present(k)
  BY <1>3, KeyAbsent DEF bindings, BoundKeys, KeyOf
<1> QED
  BY <1>2, <1>3

LEMMA InitBinds == Init => Dict!Init
<1> SUFFICES ASSUME Init PROVE Dict!Init
  OBVIOUS
<1>1. DOMAIN entries = {}
  BY DEF Init
<1>2. BoundKeys = {}
  BY <1>1 DEF BoundKeys
<1> QED
  BY <1>2 DEF Init, Dict!Init

LEMMA NextBinds ==
  ASSUME IndexInv, IndexInv', [Next]_vars
  PROVE  [Dict!Next]_(Dict!vars)
<1>1. CASE FillStep \/ EraseStep \/ UNCHANGED vars
  BY <1>1, SameBindings DEF FillStep, EraseStep, vars, Dict!vars, bindings
<1>2. ASSUME UNCHANGED entries, result' \in {"OK", "FAILED"} PROVE Dict!Next
  BY <1>2, SameBindings DEF Dict!Next, Dict!Succeeds, Dict!Fails, bindings
<1>3. CASE ReserveDone \/ InitFails \/ SetUnprepared
  BY <1>2, <1>3 DEF ReserveDone, InitFails, SetUnprepared, Return
<1>4. ASSUME NEW c \in {"bytes", "owning"}, InitRaw(c) PROVE Dict!Next
  BY <1>2, <1>4 DEF InitRaw, Return
<1>5. ASSUME NEW m \in 0 .. MaxReserve, ReserveEnough(m) \/ ReserveFails(m) PROVE Dict!Next
  BY <1>2, <1>5 DEF ReserveEnough, ReserveFails, Return
<1>6. ASSUME NEW m \in 0 .. MaxReserve, Reserve(m) PROVE UNCHANGED Dict!vars
  BY <1>6, SameBindings DEF Reserve, StartGrowth, Dict!vars, bindings
<1>7. CASE Clear \/ Deinit
  <2>1. entries' = <<>> /\ result' = "OK"
    BY <1>7 DEF Clear, Deinit, Return
  <2>2. DOMAIN entries' = {}
    BY <2>1
  <2>3. bindings' = [x \in {} |-> x]
    BY <2>2 DEF bindings, BoundKeys
  <2> QED
    BY <2>1, <2>3 DEF Dict!Next, Dict!Empty, bindings
<1>8. CASE SetGrown
  <2>1. pending[1] \in Entries /\ AppendEntry(pending[1])
    <3>1. pending \in Seq(Entries)
      BY DEF IndexInv, TypeOK
    <3>2. pending # <<>> /\ AppendEntry(pending[1])
      BY <1>8 DEF SetGrown
    <3> QED
      BY <3>1, <3>2
  <2>2. Dict!Set(pending[1].key, pending[1].value)
    BY <2>1, AppendBinds
  <2> QED
    BY <2>1, <2>2 DEF Dict!Next, Entries
<1>9. CASE RemoveDone
  BY <1>9, RemoveUnbinds DEF Dict!Next
<1>10. ASSUME NEW k \in Keys, Find(k) PROVE Dict!Next
  <2>1. Idle /\ UNCHANGED entries
        /\ result' = IF Present(k) THEN entries[IndexOf(k)].value ELSE "ABSENT"
    BY <1>10 DEF Find, Return
  <2>2. result' = IF k \in DOMAIN bindings THEN bindings[k] ELSE "ABSENT"
    BY <2>1, LookupAnswers
  <2> QED
    BY <2>1, <2>2, SameBindings DEF Dict!Next, Dict!Find, bindings
<1>11. ASSUME NEW k \in Keys, RemoveAbsent(k) PROVE Dict!Next
  <2>1. Idle /\ ~Present(k) /\ result' = "ABSENT" /\ UNCHANGED entries
    BY <1>11 DEF RemoveAbsent, Return
  <2>2. k \notin DOMAIN bindings /\ bindings' = bindings
    BY <2>1, LookupAnswers, SameBindings
  <2>3. bindings' = Unbound(bindings, k)
    BY <2>2 DEF Unbound, bindings
  <2> QED
    BY <2>1, <2>2, <2>3 DEF Dict!Next, Dict!Remove, Unbound, bindings
<1>12. ASSUME NEW k \in Keys, Remove(k) PROVE UNCHANGED Dict!vars
  BY <1>12, SameBindings DEF Remove, Dict!vars, bindings
<1>13. ASSUME NEW k \in Keys, NEW v \in Values, SetReplace(k, v) PROVE Dict!Next
  BY <1>13, ReplaceBinds DEF Dict!Next
<1>14. ASSUME NEW k \in Keys, NEW v \in Values, SetAppend(k, v) PROVE Dict!Next
  <2>1. Prepared(k, v) \in Entries /\ AppendEntry(Prepared(k, v))
    BY <1>14, PreparedType DEF SetAppend
  <2>2. Prepared(k, v).key = k /\ Prepared(k, v).value = v
    BY DEF Prepared
  <2> QED
    BY <2>1, <2>2, AppendBinds DEF Dict!Next
<1>15. ASSUME NEW k \in Keys, NEW v \in Values, SetGrows(k, v) PROVE UNCHANGED Dict!vars
  BY <1>15, SameBindings DEF SetGrows, StartGrowth, Dict!vars, bindings
<1>16. ASSUME NEW k \in Keys, NEW v \in Values, SetUngrown(k, v) PROVE Dict!Next
  BY <1>2, <1>16 DEF SetUngrown, Return
<1> QED
  BY <1>1, <1>3, <1>4, <1>5, <1>6, <1>7, <1>8, <1>9, <1>10, <1>11, <1>12, <1>13, <1>14,
     <1>15, <1>16 DEF Next, Step

\* The map behaves as a dictionary: whatever the index does during a growth or
\* a removal, the answers of find, set and remove are those of a function from
\* keys to values, and a failed call changes no binding.
THEOREM HashMapRefinesDictionary == Spec => ImplementsDictionary
<1>1. IndexInv /\ IndexInv' /\ [Next]_vars => [Dict!Next]_(Dict!vars)
  BY NextBinds
<1> QED
  BY <1>1, InitBinds, IndexInvariant, PTL DEF Spec, ImplementsDictionary, Dict!Spec
----------------------------------------------------------------------------
(* The copies of keys: no key is stored twice, so each count is 0 or 1.     *)

Holds(es, k, c) == \E i \in DOMAIN es : es[i].key = k /\ es[i].copy = c
Waits(k, c) == pending # <<>> /\ pending[1].key = k /\ pending[1].copy = c

CopiesInv ==
    /\ config = "null" => capacity = 0
    /\ pc # "fill" => pending = <<>>
    /\ \A k \in Keys, c \in Copies :
          clones[k][c] = IF Owns /\ (Holds(entries, k, c) \/ Waits(k, c)) THEN 1 ELSE 0

LEMMA HolderCount ==
  ASSUME NEW es, UniqueKeys(es), NEW k, NEW c
  PROVE  Holders(es, k, c) = IF Holds(es, k, c) THEN 1 ELSE 0
<1> DEFINE H == {i \in DOMAIN es : es[i].key = k /\ es[i].copy = c}
<1>1. CASE Holds(es, k, c)
  <2>1. PICK i \in DOMAIN es : es[i].key = k /\ es[i].copy = c
    BY <1>1 DEF Holds
  <2>2. H = {i}
    BY <2>1 DEF UniqueKeys
  <2> QED
    BY <1>1, <2>2, FS_Singleton DEF Holders
<1>2. CASE ~Holds(es, k, c)
  <2>1. H = {}
    BY <1>2 DEF Holds
  <2> QED
    BY <1>2, <2>1, FS_EmptySet DEF Holders
<1> QED
  BY <1>1, <1>2

LEMMA JoinedOne ==
  ASSUME NEW S, NEW s \in Seq(S), NEW t \in Seq(S), Len(t) = 1
  PROVE  /\ s \o t \in Seq(S) /\ Len(s \o t) = Len(s) + 1
         /\ (s \o t)[Len(s) + 1] = t[1]
         /\ \A i \in 1 .. Len(s) : (s \o t)[i] = s[i]
<1>1. /\ s \o t \in Seq(S) /\ Len(s \o t) = Len(s) + Len(t)
      /\ \A i \in 1 .. Len(s) + Len(t) :
            (s \o t)[i] = IF i <= Len(s) THEN s[i] ELSE t[i - Len(s)]
  BY ConcatProperties
<1>2. Len(s) \in Nat
  OBVIOUS
<1> QED
  BY <1>1, <1>2

\* The entry that waits for a rebuild counts with the stored ones.
LEMMA CopiesCount ==
  ASSUME IndexInv, CopiesInv
  PROVE  CopiesBalanced
<1> DEFINE all == entries \o pending
           n == Len(entries)
<1>1. /\ entries \in Seq(Entries) /\ pending \in Seq(Entries)
      /\ n \in Nat /\ Len(pending) \in Nat /\ Len(pending) <= 1
  BY DEF IndexInv, TypeOK
<1>2. /\ DOMAIN entries = 1 .. n
      /\ \A i \in 1 .. n : all[i] = entries[i]
      /\ pending = <<>> => DOMAIN all = 1 .. n
      /\ pending # <<>> => DOMAIN all = 1 .. n + 1 /\ all[n + 1] = pending[1]
  <2>1. CASE pending = <<>>
    BY <1>1, <2>1
  <2>2. CASE pending # <<>>
    <3>1. Len(pending) = 1
      <4>1. Len(pending) # 0
        BY <1>1, <2>2
      <4>2. \A m \in Nat : m <= 1 /\ m # 0 => m = 1
        OBVIOUS
      <4> HIDE DEF all, n
      <4> QED
        BY <1>1, <4>1, <4>2, Zenon
    <3>2. /\ all \in Seq(Entries) /\ Len(all) = n + 1
          /\ all[n + 1] = pending[1]
          /\ \A i \in 1 .. n : all[i] = entries[i]
      BY <1>1, <3>1, JoinedOne
    <3> HIDE DEF all
    <3>3. DOMAIN all = 1 .. n + 1 /\ DOMAIN entries = 1 .. n
      BY <1>1, <3>2
    <3> QED
      BY <2>2, <3>2, <3>3
  <2> QED
    BY <2>1, <2>2
<1>3. n + 1 \in Nat /\ n + 1 \notin 1 .. n /\ 1 .. n + 1 = (1 .. n) \cup {n + 1}
  BY <1>1
<1> HIDE DEF all, n
<1>4. UniqueKeys(all)
  <2>1. \A i, j \in 1 .. n : entries[i].key = entries[j].key => i = j
    BY <1>2 DEF IndexInv, Roomy, UniqueKeys
  <2>2. pending # <<>> => \A i \in 1 .. n : entries[i].key # pending[1].key
    BY <1>2 DEF IndexInv, Roomy, CopiesInv
  <2>3. CASE pending = <<>>
    BY <1>2, <2>1, <2>3 DEF UniqueKeys
  <2>4. CASE pending # <<>>
    <3>1. SUFFICES ASSUME NEW i \in (1 .. n) \cup {n + 1}, NEW j \in (1 .. n) \cup {n + 1},
                          all[i].key = all[j].key
                   PROVE  i = j
      BY <1>2, <1>3, <2>4 DEF UniqueKeys
    <3>2. CASE i \in 1 .. n /\ j \in 1 .. n
      BY <1>2, <2>1, <3>1, <3>2
    <3>3. CASE i = n + 1 \/ j = n + 1
      BY <1>2, <2>2, <2>4, <3>1, <3>3
    <3> QED
      BY <3>2, <3>3
  <2> QED
    BY <2>3, <2>4
<1>5. \A k \in Keys, c \in Copies : Holds(all, k, c) <=> Holds(entries, k, c) \/ Waits(k, c)
  BY <1>2, <1>3 DEF Holds, Waits
<1>6. \A k \in Keys, c \in Copies :
        Holders(all, k, c) = IF Holds(entries, k, c) \/ Waits(k, c) THEN 1 ELSE 0
  BY <1>4, <1>5, HolderCount
<1> QED
  BY <1>6 DEF CopiesInv, CopiesBalanced, all

\* What a clone and a drop do to the counts.
LEMMA CountsAfter ==
  ASSUME NEW cs \in CloneCounts, NEW e \in Entries, NEW k \in Keys, NEW c \in Copies
  PROVE  /\ Cloned(cs, e)[k][c] = IF Owns /\ e.key = k /\ e.copy = c
                                  THEN cs[k][c] + 1 ELSE cs[k][c]
         /\ Dropped(cs, e)[k][c] = IF Owns /\ e.key = k /\ e.copy = c
                                   THEN cs[k][c] - 1 ELSE cs[k][c]
  BY DEF CloneCounts, Entries, Cloned, Dropped

\* A new copy has a name that no copy of the key has.
LEMMA PreparedFresh ==
  ASSUME IndexInv, CopiesInv, Idle, NEW k \in Keys, NEW v \in Values
  PROVE  ~Owns \/ ~Holds(entries, k, Prepared(k, v).copy)
<1> DEFINE e == Prepared(k, v)
<1>1. SUFFICES ASSUME Owns, Holds(entries, k, e.copy) PROVE FALSE
  OBVIOUS
<1>2. pending = <<>>
  BY DEF CopiesInv, Idle
<1>3. \A c \in Copies : clones[k][c] = IF Holds(entries, k, c) THEN 1 ELSE 0
  BY <1>1, <1>2 DEF CopiesInv, Waits
<1>4. Holds(entries, k, 0) /\ Holds(entries, k, 1) => FALSE
  BY DEF Holds, IndexInv, Roomy, UniqueKeys
<1>5. CASE e.copy = 1
  <2>1. clones[k][0] # 0
    BY <1>5 DEF Prepared
  <2> QED
    BY <1>1, <1>3, <1>4, <1>5, <2>1 DEF Copies
<1>6. CASE e.copy = 0
  <2>1. clones[k][0] = 0
    BY <1>1, <1>6 DEF Prepared
  <2> QED
    BY <1>1, <1>3, <1>6, <2>1 DEF Copies
<1> QED
  BY <1>5, <1>6 DEF Prepared

LEMMA InitCopies == Init => CopiesInv
  BY DEF Init, CopiesInv, Owns, Waits

\* An entry made for a key that has none, stored at once or after the rebuild.
LEMMA SetCopies ==
  ASSUME IndexInv, CopiesInv, NEW k \in Keys, NEW v \in Values,
         SetAppend(k, v) \/ SetGrows(k, v)
  PROVE  CopiesInv'
<1> DEFINE e == Prepared(k, v)
<1>1. Idle /\ ~Present(k) /\ clones' = Cloned(clones, e) /\ pending = <<>> /\ e \in Entries
  BY PreparedType DEF SetAppend, SetGrows, CopiesInv, Idle
<1>2. Owns' = Owns /\ (config' = "null" => capacity' = 0)
  BY DEF SetAppend, SetGrows, AppendEntry, StartGrowth, Return, Owns, Full, IndexInv, TypeOK,
     CopiesInv
<1>3. pc' # "fill" => pending' = <<>>
  BY DEF SetAppend, SetGrows, AppendEntry, StartGrowth, Return
<1>4. ASSUME NEW x \in Keys, NEW c \in Copies
      PROVE  (Holds(entries, x, c) \/ Waits(x, c))' <=>
                Holds(entries, x, c) \/ (e.key = x /\ e.copy = c)
  <2>1. CASE SetAppend(k, v)
    <3>1. /\ DOMAIN entries' = 1 .. Len(entries) + 1 /\ DOMAIN entries = 1 .. Len(entries)
          /\ 1 .. Len(entries) + 1 = (1 .. Len(entries)) \cup {Len(entries) + 1}
          /\ \A i \in 1 .. Len(entries) : entries'[i] = entries[i]
          /\ entries'[Len(entries) + 1] = e
      BY <1>1, <2>1 DEF SetAppend, AppendEntry, IndexInv, TypeOK
    <3>2. pending' = <<>>
      BY <2>1 DEF SetAppend, AppendEntry, Return
    <3> HIDE DEF e
    <3> QED
      BY <3>1, <3>2 DEF Holds, Waits
  <2>2. CASE SetGrows(k, v)
    <3>1. entries' = entries /\ pending' = <<e>>
      BY <2>2 DEF SetGrows, StartGrowth
    <3> HIDE DEF e
    <3> QED
      BY <3>1 DEF Holds, Waits
  <2> QED
    BY <2>1, <2>2
<1>5. \A c \in Copies : ~Holds(entries, k, c)
  BY <1>1, KeyAbsent DEF Holds
<1>6. e.key = k /\ e.copy \in Copies
  BY <1>1, PreparedType DEF Entries
<1> HIDE DEF e
<1>7. ASSUME NEW x \in Keys, NEW c \in Copies
      PROVE  clones'[x][c] =
                IF Owns' /\ (Holds(entries, x, c) \/ Waits(x, c))' THEN 1 ELSE 0
  <2>1. clones \in CloneCounts
    BY DEF IndexInv, TypeOK, CloneCounts
  <2>2. clones'[x][c] = IF Owns /\ e.key = x /\ e.copy = c
                        THEN clones[x][c] + 1 ELSE clones[x][c]
    BY <1>1, <2>1, CountsAfter
  <2>3. clones[x][c] = IF Owns /\ Holds(entries, x, c) THEN 1 ELSE 0
    BY <1>1 DEF CopiesInv, Waits
  <2> QED
    BY <1>2, <1>4, <1>5, <1>6, <2>2, <2>3
<1> QED
  BY <1>2, <1>3, <1>7 DEF CopiesInv

LEMMA ReplaceCopies ==
  ASSUME IndexInv, CopiesInv, NEW k \in Keys, NEW v \in Values, SetReplace(k, v)
  PROVE  CopiesInv'
<1> DEFINE e == Prepared(k, v)
           p == IndexOf(k)
           old == entries[p]
<1>1. /\ Idle /\ Present(k) /\ entries' = [entries EXCEPT ![p] = e]
      /\ clones' = Dropped(Cloned(clones, e), old)
      /\ pending = <<>> /\ pending' = <<>> /\ UNCHANGED <<config, capacity>>
      /\ e \in Entries /\ e.key = k
  BY PreparedType DEF SetReplace, CopiesInv, Idle, Return, index
<1>2. p \in DOMAIN entries /\ old.key = k /\ old \in Entries
  <2>1. DOMAIN entries = 1 .. Len(entries) /\ entries \in Seq(Entries)
    BY DEF IndexInv, TypeOK
  <2>2. p \in DOMAIN entries /\ old.key = k
    BY <1>1, <2>1, LookupEntry
  <2> QED
    BY <2>1, <2>2
<1>3. ~Owns \/ ~Holds(entries, k, e.copy)
  BY <1>1, PreparedFresh
<1> HIDE DEF e, p
<1>4. /\ DOMAIN entries' = DOMAIN entries
      /\ \A i \in DOMAIN entries : entries'[i] = IF i = p THEN e ELSE entries[i]
  BY <1>1 DEF IndexInv, TypeOK
<1>5. UniqueKeys(entries)
  BY DEF IndexInv, Roomy
<1> HIDE DEF old
<1>6. ASSUME NEW x \in Keys, NEW c \in Copies
      PROVE  Holds(entries, x, c)' <=>
                IF x = k THEN e.copy = c ELSE Holds(entries, x, c)
  BY <1>1, <1>2, <1>4, <1>5 DEF Holds, UniqueKeys, old
<1>7. \A c \in Copies : Holds(entries, k, c) <=> old.copy = c
  BY <1>2, <1>5 DEF Holds, UniqueKeys, old
<1>8. ASSUME NEW x \in Keys, NEW c \in Copies
      PROVE  clones'[x][c] = IF Owns' /\ (Holds(entries, x, c) \/ Waits(x, c))' THEN 1 ELSE 0
  <2>1. clones \in CloneCounts /\ Cloned(clones, e) \in CloneCounts
    BY <1>1, CloneTypes DEF IndexInv, TypeOK, CloneCounts
  <2>2. /\ Cloned(clones, e)[x][c] = IF Owns /\ e.key = x /\ e.copy = c
                                     THEN clones[x][c] + 1 ELSE clones[x][c]
        /\ clones'[x][c] = IF Owns /\ old.key = x /\ old.copy = c
                           THEN Cloned(clones, e)[x][c] - 1 ELSE Cloned(clones, e)[x][c]
    BY <1>1, <1>2, <2>1, CountsAfter
  <2>3. clones[x][c] = IF Owns /\ Holds(entries, x, c) THEN 1 ELSE 0
    BY <1>1 DEF CopiesInv, Waits
  <2>4. Owns' = Owns /\ ~Waits(x, c)'
    BY <1>1 DEF Owns, Waits
  <2>5. CASE x = k
    <3>1. e.copy \in Copies
      BY <1>1 DEF Entries
    <3>2. Owns => old.copy # e.copy
      BY <1>3, <1>7, <3>1
    <3>3. Holds(entries, x, c)' <=> e.copy = c
      BY <1>6, <2>5
    <3>4. Holds(entries, x, c) <=> old.copy = c
      BY <1>7, <2>5
    <3>5. CASE ~Owns
      BY <2>2, <2>3, <2>4, <3>5
    <3>6. CASE Owns /\ c = e.copy
      BY <1>1, <2>2, <2>3, <2>4, <2>5, <3>2, <3>3, <3>4, <3>6
    <3>7. CASE Owns /\ c # e.copy
      BY <1>2, <2>2, <2>3, <2>4, <2>5, <3>3, <3>4, <3>7
    <3> QED
      BY <3>5, <3>6, <3>7
  <2>6. CASE x # k
    BY <1>1, <1>2, <1>6, <2>2, <2>3, <2>4, <2>6
  <2> QED
    BY <2>5, <2>6
<1>9. pc' = "idle"
  BY DEF SetReplace, Return
<1> QED
  BY <1>1, <1>8, <1>9 DEF CopiesInv

LEMMA RemoveCopies ==
  ASSUME IndexInv, CopiesInv, RemoveDone
  PROVE  CopiesInv'
<1> DEFINE last == Len(entries)
           gone == entries[doomed]
           moved == [entries EXCEPT ![doomed] = entries[last]]
<1>1. /\ entries' = SubSeq(moved, 1, last - 1) /\ pc = "erase" /\ pc' = "idle"
      /\ clones' = Dropped(clones, gone) /\ pending = <<>> /\ pending' = <<>>
      /\ UNCHANGED <<config, capacity>>
  BY DEF RemoveDone, Return, CopiesInv
<1>2. /\ doomed \in 1 .. last /\ last \in Nat \ {0} /\ DOMAIN entries = 1 .. last
      /\ gone \in Entries
  <2>1. doomed \in 1 .. last /\ last \in Nat /\ DOMAIN entries = 1 .. last
    BY <1>1, EraseFacts
  <2>2. entries \in Seq(Entries)
    BY DEF IndexInv, TypeOK
  <2> QED
    BY <2>1, <2>2
<1>3. UniqueKeys(entries)
  BY DEF IndexInv, Roomy
<1>4. ASSUME NEW x \in Keys, NEW c \in Copies
      PROVE  Holds(entries, x, c)' <=> Holds(entries, x, c) /\ x # gone.key
  <2>1. /\ DOMAIN entries' = 1 .. last - 1
        /\ \A i \in 1 .. last - 1 :
              entries'[i] = IF i = doomed THEN entries[last] ELSE entries[i]
    <3>1. entries \in Seq(Entries)
      BY DEF IndexInv, TypeOK
    <3>2. /\ moved \in Seq(Entries) /\ Len(moved) = last
          /\ \A i \in 1 .. last : moved[i] = IF i = doomed THEN entries[last] ELSE entries[i]
      BY <1>2, <3>1
    <3> HIDE DEF moved, last
    <3>3. /\ DOMAIN entries' = 1 .. last - 1
          /\ \A i \in 1 .. last - 1 : entries'[i] = moved[i]
      BY <1>1, <1>2, <3>2, CutLast
    <3> QED
      BY <1>2, <3>2, <3>3
  <2> HIDE DEF last
  <2>2. last \in 1 .. last /\ \A i \in 1 .. last - 1 : i \in 1 .. last /\ i # last
    BY <1>2
  <2>3. \A i \in 1 .. last : i = last \/ i \in 1 .. last - 1
    BY <1>2
  <2>4. ASSUME Holds(entries, x, c)' PROVE Holds(entries, x, c) /\ x # gone.key
    BY <1>2, <1>3, <2>1, <2>2, <2>4 DEF Holds, UniqueKeys
  <2>5. ASSUME NEW j \in 1 .. last, j # doomed
        PROVE  \E i \in 1 .. last - 1 : entries'[i] = entries[j]
    <3>1. CASE j = last
      <4>1. doomed \in 1 .. last - 1
        BY <1>2, <2>3, <2>5, <3>1
      <4> QED
        BY <2>1, <3>1, <4>1
    <3>2. CASE j # last
      BY <2>1, <2>3, <2>5, <3>2
    <3> QED
      BY <3>1, <3>2
  <2>6. ASSUME Holds(entries, x, c), x # gone.key PROVE Holds(entries, x, c)'
    BY <1>2, <2>1, <2>5, <2>6 DEF Holds
  <2> QED
    BY <2>4, <2>6
<1>5. \A c \in Copies : Holds(entries, gone.key, c) <=> gone.copy = c
  BY <1>2, <1>3 DEF Holds, UniqueKeys
<1> HIDE DEF gone
<1>6. ASSUME NEW x \in Keys, NEW c \in Copies
      PROVE  clones'[x][c] = IF Owns' /\ (Holds(entries, x, c) \/ Waits(x, c))' THEN 1 ELSE 0
  <2>1. clones \in CloneCounts
    BY DEF IndexInv, TypeOK, CloneCounts
  <2>2. clones'[x][c] = IF Owns /\ gone.key = x /\ gone.copy = c
                        THEN clones[x][c] - 1 ELSE clones[x][c]
    BY <1>1, <1>2, <2>1, CountsAfter
  <2>3. clones[x][c] = IF Owns /\ Holds(entries, x, c) THEN 1 ELSE 0
    BY <1>1 DEF CopiesInv, Waits
  <2>4. Owns' = Owns /\ ~Waits(x, c)'
    BY <1>1 DEF Owns, Waits
  <2> QED
    BY <1>4, <1>5, <2>2, <2>3, <2>4
<1> QED
  BY <1>1, <1>6 DEF CopiesInv

\* Nothing is left of what clear and deinit dropped.
LEMMA EmptyCopies ==
  ASSUME IndexInv, CopiesInv, Clear \/ Deinit
  PROVE  CopiesInv'
<1>1. /\ Idle /\ entries' = <<>> /\ clones' = DroppedAll /\ pending' = <<>> /\ pending = <<>>
      /\ config' = "null" => capacity' = 0
  BY DEF Clear, Deinit, Return, CopiesInv, Idle
<1>2. ASSUME NEW x \in Keys, NEW c \in Copies
      PROVE  clones'[x][c] = 0 /\ ~Holds(entries, x, c)' /\ ~Waits(x, c)'
  <2>1. clones[x][c] = IF Owns /\ Holds(entries, x, c) THEN 1 ELSE 0
    BY <1>1 DEF CopiesInv, Waits
  <2>2. Holders(entries, x, c) = IF Holds(entries, x, c) THEN 1 ELSE 0
    BY HolderCount DEF IndexInv, Roomy
  <2>3. DroppedAll[x][c] = IF Owns THEN clones[x][c] - Holders(entries, x, c) ELSE clones[x][c]
    BY DEF DroppedAll
  <2>4. ~Holds(entries, x, c)' /\ ~Waits(x, c)'
    BY <1>1 DEF Holds, Waits
  <2> QED
    BY <1>1, <2>1, <2>2, <2>3, <2>4
<1> QED
  BY <1>1, <1>2 DEF CopiesInv

\* The copy that waited for the rebuild is stored.
LEMMA GrownCopies ==
  ASSUME IndexInv, CopiesInv, SetGrown
  PROVE  CopiesInv'
<1>1. /\ pending # <<>> /\ entries' = Append(entries, pending[1]) /\ pending' = <<>>
      /\ UNCHANGED <<config, capacity, clones>>
  BY DEF SetGrown, AppendEntry, Return
<1>2. /\ DOMAIN entries' = 1 .. Len(entries) + 1 /\ DOMAIN entries = 1 .. Len(entries)
      /\ 1 .. Len(entries) + 1 = (1 .. Len(entries)) \cup {Len(entries) + 1}
      /\ \A i \in 1 .. Len(entries) : entries'[i] = entries[i]
      /\ entries'[Len(entries) + 1] = pending[1]
  <2>1. entries \in Seq(Entries) /\ pending[1] \in Entries
    BY <1>1 DEF IndexInv, TypeOK
  <2> QED
    BY <1>1, <2>1
<1>3. ASSUME NEW x \in Keys, NEW c \in Copies
      PROVE  (Holds(entries, x, c) \/ Waits(x, c))' <=> Holds(entries, x, c) \/ Waits(x, c)
  BY <1>1, <1>2 DEF Holds, Waits
<1> QED
  BY <1>1, <1>3 DEF CopiesInv, Owns

\* A growth that fails gives the copy back.
LEMMA DropPreparedRestores ==
  ASSUME IndexInv, NEW e \in Entries
  PROVE  DropPrepared(e) = clones
<1>1. clones \in CloneCounts /\ Cloned(clones, e) \in CloneCounts
  BY CloneTypes DEF IndexInv, TypeOK, CloneCounts
<1>2. DropPrepared(e) \in CloneCounts
  BY <1>1, CloneTypes DEF DropPrepared
<1>3. ASSUME NEW x \in Keys, NEW c \in Copies PROVE DropPrepared(e)[x][c] = clones[x][c]
  <2>1. /\ Cloned(clones, e)[x][c] = IF Owns /\ e.key = x /\ e.copy = c
                                     THEN clones[x][c] + 1 ELSE clones[x][c]
        /\ DropPrepared(e)[x][c] = IF Owns /\ e.key = x /\ e.copy = c
                                   THEN Cloned(clones, e)[x][c] - 1 ELSE Cloned(clones, e)[x][c]
    BY <1>1, CountsAfter DEF DropPrepared
  <2>2. clones[x][c] \in Int
    BY <1>1 DEF CloneCounts
  <2> QED
    BY <2>1, <2>2
<1> QED
  BY <1>1, <1>2, <1>3 DEF CloneCounts

LEMMA NextCopies ==
  ASSUME IndexInv, CopiesInv, [Next]_vars
  PROVE  CopiesInv'
<1> DEFINE Kept == /\ UNCHANGED <<entries, pending, clones>> /\ Owns' = Owns
                   /\ config' = "null" => capacity' = 0
                   /\ pc' # "fill" => pending' = <<>>
<1>1. ASSUME Kept PROVE CopiesInv'
  BY <1>1 DEF CopiesInv, Waits
<1>2. CASE FillStep \/ ReserveDone \/ EraseStep \/ InitFails \/ SetUnprepared \/ UNCHANGED vars
  <2>1. Kept
    BY <1>2 DEF FillStep, ReserveDone, EraseStep, InitFails, SetUnprepared, vars, CopiesInv, Idle,
       Return, index, Owns
  <2> QED
    BY <1>1, <2>1
<1>3. ASSUME NEW c \in {"bytes", "owning"}, InitRaw(c) PROVE CopiesInv'
  <2>1. /\ config = "null" /\ config' # "null" /\ UNCHANGED <<entries, clones>>
        /\ pending = <<>> /\ pending' = <<>> /\ pc' = "idle"
    BY <1>3 DEF InitRaw, CopiesInv, Idle, Return
  <2>2. DOMAIN entries = {}
    BY <2>1 DEF IndexInv, TypeOK, CopiesInv
  <2> QED
    BY <2>1, <2>2 DEF CopiesInv, Owns, Holds, Waits
<1>4. ASSUME NEW m \in 0 .. MaxReserve, Reserve(m) \/ ReserveEnough(m) \/ ReserveFails(m)
      PROVE  CopiesInv'
  <2>1. Kept
    BY <1>4 DEF Reserve, ReserveEnough, ReserveFails, StartGrowth, CopiesInv, Idle, Return, index,
       Owns
  <2> QED
    BY <1>1, <2>1
<1>5. ASSUME NEW k \in Keys, Find(k) \/ RemoveAbsent(k) \/ Remove(k) PROVE CopiesInv'
  <2>1. Kept
    BY <1>5 DEF Find, RemoveAbsent, Remove, CopiesInv, Idle, Return, index, Owns
  <2> QED
    BY <1>1, <2>1
<1>6. ASSUME NEW k \in Keys, NEW v \in Values, SetUngrown(k, v) PROVE CopiesInv'
  <2>1. clones' = clones
    BY <1>6, PreparedType, DropPreparedRestores DEF SetUngrown
  <2>2. Kept
    BY <1>6, <2>1 DEF SetUngrown, CopiesInv, Idle, Return, index, Owns
  <2> QED
    BY <1>1, <2>2
<1> QED
  BY <1>2, <1>3, <1>4, <1>5, <1>6, SetCopies, ReplaceCopies, RemoveCopies, EmptyCopies,
     GrownCopies DEF Next, Step

\* Whatever failed, and however often a key was replaced, removed or moved by a growth: the live
\* copies of keys are those the stored entries, and the entry that waits for a rebuild, hold.
THEOREM HashMapCopiesBalanced == Spec => []CopiesBalanced
<1>1. IndexInv /\ CopiesInv /\ [Next]_vars => CopiesInv'
  BY NextCopies
<1>2. IndexInv /\ CopiesInv => CopiesBalanced
  BY CopiesCount
<1> QED
  BY <1>1, <1>2, InitCopies, IndexInvariant, PTL DEF Spec
----------------------------------------------------------------------------
(* Sets.                                                                     *)

\* The keys that some of these keys stand for.
Closure(s, keys) ==
    {k \in Elements : k \in Valid[s] /\ \E e \in keys : Class[s][e.value] = Class[s][k]}
----------------------------------------------------------------------------
(* The keys of a set.                                                       *)

\* There are finitely many keys to store.
LEMMA StoredFinite == IsFiniteSet(Stored)
<1> DEFINE of == {"caller", "clone"}
           pair == [e \in Stored |-> <<e.value, e.of>>]
<1>1. IsFiniteSet(of)
  <2>1. IsFiniteSet({"caller"}) /\ IsFiniteSet({"clone"})
    BY FS_Singleton
  <2>2. IsFiniteSet({"caller"} \cup {"clone"})
    BY <2>1, FS_Union
  <2>3. of = {"caller"} \cup {"clone"}
    OBVIOUS
  <2> QED
    BY <2>2, <2>3
<1>2. IsFiniteSet(Elements \X of)
  BY <1>1, FS_Product, SetsAssumption
<1>3. pair \in [Stored -> Elements \X of]
  BY DEF Stored
<1>4. \A e, f \in Stored : pair[e] = pair[f] => e = f
  BY DEF Stored
<1>5. pair \in Injection(Stored, Elements \X of)
  BY <1>3, <1>4 DEF Injection, IsInjective
<1> QED
  BY <1>2, <1>5, FS_Injection

\* A set has as many keys as a number says.
LEMMA KeysFinite ==
  ASSUME NEW keys \in SUBSET Stored
  PROVE  /\ IsFiniteSet(keys) /\ Cardinality(keys) \in Nat
         /\ Cardinality(keys) = 0 <=> keys = {}
<1>1. IsFiniteSet(keys)
  BY StoredFinite, FS_Subset
<1> QED
  BY <1>1, FS_CardinalityType, FS_EmptySet

\* The members of a set are what its keys stand for.
LEMMA MembersClosure ==
  ASSUME NEW s \in SetRecords
  PROVE  Members(s) = Closure(s.policy.semantics, s.keys)
BY DEF Members, Contains, Accepts, Same, Closure

\* What keys stand for depends on their classes alone.
LEMMA ClosureSame ==
  ASSUME NEW s, NEW K \in SUBSET Stored, NEW L \in SUBSET Stored,
         \A e \in K : \E f \in L : Class[s][f.value] = Class[s][e.value],
         \A f \in L : \E e \in K : Class[s][f.value] = Class[s][e.value]
  PROVE  Closure(s, K) = Closure(s, L)
BY DEF Closure
----------------------------------------------------------------------------
(* The relations.                                                           *)

\* A set whose keys are all found in another has no more keys than that one, and
\* when it has as many, those of the other are found in it.
LEMMA FoundInOther ==
  ASSUME NEW a \in SetRecords, NEW b \in SetRecords,
         Distinct(a.policy, a.keys), Distinct(b.policy, b.keys),
         a.policy.semantics = b.policy.semantics,
         \A e \in a.keys : Contains(b, e.value)
  PROVE  /\ Size(a) <= Size(b)
         /\ Size(a) = Size(b) => \A f \in b.keys : Contains(a, f.value)
<1>1. a.keys \in SUBSET Stored /\ b.keys \in SUBSET Stored
  BY DEF SetRecords
<1>2. \A e \in a.keys : \E f \in b.keys : Same(b.policy, f.value, e.value)
  BY DEF Contains
<1> DEFINE match == [e \in a.keys |-> CHOOSE f \in b.keys : Same(b.policy, f.value, e.value)]
<1>3. \A e \in a.keys : match[e] \in b.keys /\ Same(b.policy, match[e].value, e.value)
  BY <1>2
<1>4. match \in [a.keys -> b.keys]
  BY <1>3
<1> HIDE DEF match
<1>5. ASSUME NEW e \in a.keys, NEW f \in a.keys, match[e] = match[f]
      PROVE  e = f
  <2>1. Same(a.policy, e.value, f.value)
    BY <1>3, <1>5 DEF Same
  <2> QED
    BY <2>1 DEF Distinct
<1>6. match \in Injection(a.keys, b.keys)
  BY <1>4, <1>5 DEF Injection, IsInjective
<1>7. IsFiniteSet(b.keys)
  BY <1>1, KeysFinite
<1>8. Size(a) <= Size(b) /\ (Size(a) = Size(b) => match \in Surjection(a.keys, b.keys))
  BY <1>6, <1>7, FS_Injection DEF Size
<1>9. ASSUME match \in Surjection(a.keys, b.keys), NEW f \in b.keys
      PROVE  Contains(a, f.value)
  <2>1. PICK e \in a.keys : match[e] = f
    BY <1>9 DEF Surjection
  <2>2. Same(a.policy, e.value, f.value)
    BY <1>3, <2>1 DEF Same
  <2>3. Accepts(a.policy, f.value)
    BY DEF Distinct, Accepts
  <2> QED
    BY <2>2, <2>3 DEF Contains
<1> QED
  BY <1>8, <1>9

\* Keys are found in the other set exactly when the members are among its members.
LEMMA FoundIsIncluded ==
  ASSUME NEW a \in SetRecords, NEW b \in SetRecords,
         Distinct(a.policy, a.keys), a.policy.semantics = b.policy.semantics
  PROVE  (\A e \in a.keys : Contains(b, e.value)) <=> Members(a) \subseteq Members(b)
<1>1. \A e \in a.keys : e.value \in Elements /\ Accepts(a.policy, e.value)
  BY DEF SetRecords, Stored, Distinct
<1>2. \A e \in a.keys : e.value \in Members(a)
  BY <1>1 DEF Members, Contains, Same
<1>3. ASSUME \A e \in a.keys : Contains(b, e.value), NEW k \in Members(a)
      PROVE  k \in Members(b)
  <2>1. PICK e \in a.keys : Same(a.policy, e.value, k)
    BY DEF Members, Contains
  <2>2. Contains(b, e.value)
    BY <1>3
  <2> QED
    BY <2>1, <2>2 DEF Members, Contains, Same, Accepts
<1> QED
  BY <1>2, <1>3 DEF Members

\* A key of one set is found in the other exactly when the two have a member in common.
LEMMA FoundIsShared ==
  ASSUME NEW a \in SetRecords, NEW b \in SetRecords,
         Distinct(a.policy, a.keys), a.policy.semantics = b.policy.semantics
  PROVE  (\A e \in a.keys : ~Contains(b, e.value)) <=> Members(a) \cap Members(b) = {}
<1>1. \A e \in a.keys : e.value \in Elements /\ Accepts(a.policy, e.value)
  BY DEF SetRecords, Stored, Distinct
<1>2. ASSUME NEW e \in a.keys, Contains(b, e.value)
      PROVE  e.value \in Members(a) \cap Members(b)
  BY <1>1, <1>2 DEF Members, Contains, Same
<1>3. ASSUME NEW k \in Members(a), k \in Members(b)
      PROVE  \E e \in a.keys : Contains(b, e.value)
  <2>1. PICK e \in a.keys : Same(a.policy, e.value, k)
    BY DEF Members, Contains
  <2>2. PICK f \in b.keys : Same(b.policy, f.value, k)
    BY <1>3 DEF Members, Contains
  <2>3. Same(b.policy, f.value, e.value)
    BY <2>1, <2>2 DEF Same
  <2> QED
    BY <1>1, <2>3 DEF Contains, Accepts
<1> QED
  BY <1>2, <1>3

\* A set has members exactly when it has keys.
LEMMA EmptyMembers ==
  ASSUME NEW a \in SetRecords, Distinct(a.policy, a.keys)
  PROVE  a.keys = {} <=> Members(a) = {}
<1>1. \A e \in a.keys : e.value \in Elements /\ Accepts(a.policy, e.value)
  BY DEF SetRecords, Stored, Distinct
<1>2. \A e \in a.keys : e.value \in Members(a)
  BY <1>1 DEF Members, Contains, Same
<1>3. \A k \in Members(a) : \E e \in a.keys : TRUE
  BY DEF Members, Contains
<1> QED
  BY <1>2, <1>3

\* The subset test compares the members.
LEMMA SubsetExact ==
  ASSUME NEW a \in SetRecords, NEW b \in SetRecords,
         Distinct(a.policy, a.keys), Distinct(b.policy, b.keys)
  PROVE  /\ IsSubset(a, b) <=> Compatible(a, b) /\ Members(a) \subseteq Members(b)
         /\ Size(a) \in Nat /\ Size(b) \in Nat
         /\ IsSubset(a, b) /\ Size(a) = Size(b) => Members(b) \subseteq Members(a)
<1>1. /\ Size(a) \in Nat /\ Size(b) \in Nat
      /\ Size(a) = 0 <=> a.keys = {}
      /\ Size(b) = 0 <=> b.keys = {}
  <2>1. a.keys \in SUBSET Stored /\ b.keys \in SUBSET Stored
    BY DEF SetRecords
  <2> QED
    BY <2>1, KeysFinite DEF Size
<1>2. CASE a.keys = {}
  <2>1. Members(a) = {} /\ Compatible(a, b) /\ Size(a) = 0
    BY <1>1, <1>2, EmptyMembers DEF Compatible
  <2>2. IsSubset(a, b)
    BY <1>1, <1>2, <2>1 DEF IsSubset
  <2>3. Size(b) = 0 => Members(b) = {}
    BY <1>1, EmptyMembers
  <2> QED
    BY <1>1, <2>1, <2>2, <2>3
<1>3. CASE a.keys # {} /\ b.keys = {}
  <2>1. Members(a) # {} /\ Members(b) = {}
    BY <1>3, EmptyMembers
  <2>2. ~IsSubset(a, b)
    BY <1>3 DEF IsSubset, Contains
  <2> QED
    BY <1>1, <2>1, <2>2
<1>4. CASE a.keys # {} /\ b.keys # {} /\ ~CompatiblePolicies(a.policy, b.policy)
  BY <1>1, <1>4 DEF Compatible, IsSubset
<1>5. CASE a.keys # {} /\ b.keys # {} /\ CompatiblePolicies(a.policy, b.policy)
  <2>1. a.policy.semantics = b.policy.semantics /\ Compatible(a, b)
    BY <1>5 DEF CompatiblePolicies, Compatible
  <2>2. (\A e \in a.keys : Contains(b, e.value)) <=> Members(a) \subseteq Members(b)
    BY <2>1, FoundIsIncluded
  <2>3. (\A e \in b.keys : Contains(a, e.value)) <=> Members(b) \subseteq Members(a)
    BY <2>1, FoundIsIncluded
  <2>4. (\A e \in a.keys : Contains(b, e.value)) =>
            /\ Size(a) <= Size(b)
            /\ Size(a) = Size(b) => \A f \in b.keys : Contains(a, f.value)
    BY <2>1, FoundInOther
  <2> QED
    BY <1>1, <2>1, <2>2, <2>3, <2>4 DEF IsSubset
<1> QED
  BY <1>2, <1>3, <1>4, <1>5

\* Compatibility does not depend on the order of the operands.
LEMMA CompatibleBothWays ==
  ASSUME NEW a, NEW b
  PROVE  Compatible(a, b) <=> Compatible(b, a)
BY DEF Compatible, CompatiblePolicies

\* The test for disjoint sets looks for the keys of either set in the other.
LEMMA DisjointExact ==
  ASSUME NEW a \in SetRecords, NEW b \in SetRecords,
         Distinct(a.policy, a.keys), Distinct(b.policy, b.keys)
  PROVE  IsDisjoint(a, b) <=> Compatible(a, b) /\ Members(a) \cap Members(b) = {}
<1>1. CASE a.keys # {} /\ b.keys # {} /\ CompatiblePolicies(a.policy, b.policy)
  <2>1. a.policy.semantics = b.policy.semantics
    BY <1>1 DEF CompatiblePolicies
  <2>2. (\A e \in a.keys : ~Contains(b, e.value)) <=> Members(a) \cap Members(b) = {}
    BY <2>1, FoundIsShared
  <2>3. (\A e \in b.keys : ~Contains(a, e.value)) <=> Members(b) \cap Members(a) = {}
    BY <2>1, FoundIsShared
  <2>4. Members(b) \cap Members(a) = Members(a) \cap Members(b)
    OBVIOUS
  <2>5. CASE Size(a) <= Size(b)
    BY <2>2, <2>5 DEF IsDisjoint
  <2>6. CASE ~(Size(a) <= Size(b))
    BY <2>3, <2>4, <2>6 DEF IsDisjoint
  <2> QED
    BY <2>5, <2>6
<1>2. CASE a.keys # {} /\ b.keys # {} /\ ~CompatiblePolicies(a.policy, b.policy)
  BY <1>2 DEF IsDisjoint, Compatible
<1>3. CASE a.keys = {} \/ b.keys = {}
  <2>1. Compatible(a, b) /\ Members(a) \cap Members(b) = {}
    BY <1>3, EmptyMembers DEF Compatible
  <2>2. /\ \A e \in a.keys : ~Contains(b, e.value)
        /\ \A e \in b.keys : ~Contains(a, e.value)
    BY <1>3 DEF Contains
  <2> QED
    BY <2>1, <2>2 DEF IsDisjoint
<1> QED
  BY <1>1, <1>2, <1>3
----------------------------------------------------------------------------
(* The invariant.                                                           *)

\* The keys of a set that owns them are copies, those of another are the caller's.
Held(p, keys) == \A e \in keys : e.of = IF Owning(p) THEN "clone" ELSE "caller"

\* The handles without a set, and the one for which a result is built, hold nothing.
SetsHeld ==
    \A h \in Handles :
        /\ sets[h] \in SetRecords
        /\ Distinct(sets[h].policy, sets[h].keys) /\ Held(sets[h].policy, sets[h].keys)
        /\ ~sets[h].initialized => sets[h] = NoSet

\* The keys that wait to be added are the caller's unless the result will own its keys.
CallHeld(c) ==
    /\ c \in Calls
    /\ Distinct(c.policy, c.keys) /\ Held(c.policy, c.keys)
    /\ ~Owning(c.policy) => \A e \in c.first \cup c.second : e.of = "caller"
    /\ ~sets[c.result].initialized

\* What was added and what is still to be added stand for the keys of the result.
OnTheWay(c) ==
    InheritsSemantics(c) =>
        Closure(c.policy.semantics, c.keys \cup (c.first \cup c.second)) =
            InResult(c.op, Members(sets[c.a]), Members(sets[c.b]))

Counted == copies = Cardinality(InSets) + Cardinality(InCalls)

SetsInv ==
    /\ sets \in [Handles -> SetRecords]
    /\ SetsHeld
    /\ calls = {} \/ \E c \in calls : calls = {c}
    /\ \A c \in calls : CallHeld(c) /\ OnTheWay(c)
    /\ Counted
----------------------------------------------------------------------------
(* Counting the copies.                                                     *)

\* The copies in sets and in calls with these values.
Spread(s) == {x \in Handles \X Stored : x[2] \in CopiesIn(s[x[1]].keys)}
Waiting(C) == {x \in C \X Stored : x[2] \in CopiesIn(x[1].keys)}

\* Pairs with a fixed first part are as many as their second parts.
LEMMA FixedPairs ==
  ASSUME NEW h, NEW S, IsFiniteSet(S)
  PROVE  /\ IsFiniteSet({h} \X S) /\ Cardinality({h} \X S) = Cardinality(S)
         /\ Cardinality(S) \in Nat
<1>1. IsFiniteSet({h}) /\ Cardinality({h}) = 1
  BY FS_Singleton
<1>2. Cardinality(S) \in Nat
  BY FS_CardinalityType
<1>3. IsFiniteSet({h} \X S) /\ Cardinality({h} \X S) = Cardinality({h}) * Cardinality(S)
  BY <1>1, FS_Product
<1> QED
  BY <1>1, <1>2, <1>3

\* The copies among keys are counted by a number.
LEMMA CopiesFinite ==
  ASSUME NEW keys \in SUBSET Stored
  PROVE  /\ CopiesIn(keys) \in SUBSET Stored
         /\ IsFiniteSet(CopiesIn(keys)) /\ Cardinality(CopiesIn(keys)) \in Nat
<1>1. CopiesIn(keys) \in SUBSET Stored
  BY DEF CopiesIn
<1> QED
  BY <1>1, KeysFinite

\* What a set has to drop are the copies among its keys.
LEMMA CopiesCounted ==
  ASSUME NEW p, NEW keys \in SUBSET Stored, Held(p, keys)
  PROVE  CopiesOf(p, keys) = Cardinality(CopiesIn(keys))
<1>1. CASE Owning(p)
  <2>1. CopiesIn(keys) = keys
    BY <1>1 DEF Held, CopiesIn
  <2> QED
    BY <1>1, <2>1 DEF CopiesOf
<1>2. CASE ~Owning(p)
  <2>1. CopiesIn(keys) = {}
    BY <1>2 DEF Held, CopiesIn
  <2> QED
    BY <1>2, <2>1, FS_EmptySet DEF CopiesOf
<1> QED
  BY <1>1, <1>2

\* A finite set of two separate parts.
LEMMA TwoParts ==
  ASSUME NEW S, NEW T, IsFiniteSet(S), IsFiniteSet(T), S \cap T = {}
  PROVE  /\ IsFiniteSet(S \cup T)
         /\ Cardinality(S \cup T) = Cardinality(S) + Cardinality(T)
         /\ Cardinality(S) \in Nat /\ Cardinality(T) \in Nat
<1>1. Cardinality(S) \in Nat /\ Cardinality(T) \in Nat
  BY FS_CardinalityType
<1>2. Cardinality(S \cap T) = 0
  BY FS_EmptySet
<1>3. /\ IsFiniteSet(S \cup T)
      /\ Cardinality(S \cup T) = Cardinality(S) + Cardinality(T) - Cardinality(S \cap T)
  BY FS_Union
<1> QED
  BY <1>1, <1>2, <1>3

\* The copies in the sets, when one of them changes.
LEMMA OneSetChanges ==
  ASSUME NEW s, NEW t, NEW h \in Handles,
         s[h].keys \in SUBSET Stored, t[h].keys \in SUBSET Stored,
         \A g \in Handles \ {h} : t[g].keys = s[g].keys
  PROVE  /\ Cardinality(Spread(s)) \in Nat
         /\ Cardinality(Spread(t)) = Cardinality(Spread(s))
                - Cardinality(CopiesIn(s[h].keys)) + Cardinality(CopiesIn(t[h].keys))
<1> DEFINE others == {x \in Spread(s) : x[1] # h}
           before == {h} \X CopiesIn(s[h].keys)
           after == {h} \X CopiesIn(t[h].keys)
<1>1. IsFiniteSet(others)
  <2>1. IsFiniteSet(Handles \X Stored)
    BY StoredFinite, FS_Product, SetsAssumption
  <2>2. others \in SUBSET (Handles \X Stored)
    BY DEF Spread
  <2> QED
    BY <2>1, <2>2, FS_Subset
<1>2. /\ IsFiniteSet(before) /\ Cardinality(before) = Cardinality(CopiesIn(s[h].keys))
      /\ IsFiniteSet(after) /\ Cardinality(after) = Cardinality(CopiesIn(t[h].keys))
      /\ Cardinality(before) \in Nat /\ Cardinality(after) \in Nat
  BY CopiesFinite, FixedPairs
<1>3. CopiesIn(s[h].keys) \in SUBSET Stored /\ CopiesIn(t[h].keys) \in SUBSET Stored
  BY CopiesFinite
<1>4. Spread(s) = others \cup before
  BY <1>3 DEF Spread
<1>5. Spread(t) = others \cup after
  BY <1>3 DEF Spread
<1>6. others \cap before = {} /\ others \cap after = {}
  OBVIOUS
<1> HIDE DEF others, before, after
<1>7. /\ Cardinality(others \cup before) = Cardinality(others) + Cardinality(before)
      /\ Cardinality(others) \in Nat
  BY <1>1, <1>2, <1>6, TwoParts
<1>8. Cardinality(others \cup after) = Cardinality(others) + Cardinality(after)
  BY <1>1, <1>2, <1>6, TwoParts
<1> QED
  BY <1>2, <1>4, <1>5, <1>7, <1>8

\* The copies in a call.
LEMMA OneCallWaits ==
  ASSUME NEW c, c.keys \in SUBSET Stored
  PROVE  /\ Cardinality(Waiting({c})) = Cardinality(CopiesIn(c.keys))
         /\ Cardinality(Waiting({c})) \in Nat
<1>1. CopiesIn(c.keys) \in SUBSET Stored /\ IsFiniteSet(CopiesIn(c.keys))
  BY CopiesFinite
<1>2. Waiting({c}) = {c} \X CopiesIn(c.keys)
  BY <1>1 DEF Waiting
<1> QED
  BY <1>1, <1>2, FixedPairs

LEMMA NoCallWaits == Cardinality(Waiting({})) = 0
<1>1. Waiting({}) = {}
  BY DEF Waiting
<1> QED
  BY <1>1, FS_EmptySet
----------------------------------------------------------------------------
(* Adding a key.                                                            *)

\* A map accepts a key, and then holds it or its copy.
LEMMA WithKeyHeld ==
  ASSUME NEW p \in Policies, NEW keys \in SUBSET Stored, NEW e \in Stored,
         Distinct(p, keys), Held(p, keys), Accepts(p, e.value),
         Owning(p) \/ e.of = "caller"
  PROVE  /\ WithKey(p, keys, e) \in SUBSET Stored
         /\ Distinct(p, WithKey(p, keys, e)) /\ Held(p, WithKey(p, keys, e))
<1>1. /\ Copied(p, e) \in Stored /\ Copied(p, e).value = e.value
      /\ Copied(p, e).of = IF Owning(p) THEN "clone" ELSE "caller"
  BY DEF Copied, Stored
<1>2. \A f \in WithKey(p, keys, e) :
          f = Copied(p, e) \/ (f \in keys /\ ~Same(p, f.value, e.value))
  BY DEF WithKey
<1> QED
  BY <1>1, <1>2 DEF Distinct, Held, Same

\* Adding a key that waits leaves what the keys stand for.
LEMMA WithKeyStandsFor ==
  ASSUME NEW p \in Policies, NEW keys \in SUBSET Stored, NEW rest \in SUBSET Stored,
         NEW e \in Stored, e \in rest
  PROVE  Closure(p.semantics, WithKey(p, keys, e) \cup (rest \ {e})) =
             Closure(p.semantics, keys \cup rest)
<1> DEFINE s == p.semantics
           K == WithKey(p, keys, e) \cup (rest \ {e})
           L == keys \cup rest
<1>1. Copied(p, e) \in Stored /\ Copied(p, e).value = e.value
  BY DEF Copied, Stored
<1>2. K \in SUBSET Stored /\ L \in SUBSET Stored
  BY <1>1 DEF WithKey
<1>3. ASSUME NEW f \in K
      PROVE  \E g \in L : Class[s][g.value] = Class[s][f.value]
  <2>1. CASE f = Copied(p, e)
    BY <1>1, <2>1
  <2>2. CASE f \in L
    BY <2>2
  <2> QED
    BY <2>1, <2>2 DEF WithKey
<1>4. ASSUME NEW g \in L
      PROVE  \E f \in K : Class[s][g.value] = Class[s][f.value]
  <2>1. Copied(p, e) \in K
    BY DEF WithKey
  <2>2. CASE g = e
    BY <1>1, <2>1, <2>2
  <2>3. CASE g \in rest \ {e}
    BY <2>3
  <2>4. CASE g \in keys /\ Same(p, g.value, e.value)
    BY <1>1, <2>1, <2>4 DEF Same
  <2>5. CASE g \in keys /\ ~Same(p, g.value, e.value)
    BY <2>5 DEF WithKey
  <2> QED
    BY <2>2, <2>3, <2>4, <2>5
<1> HIDE DEF K, L, s
<1>5. Closure(s, K) = Closure(s, L)
  BY <1>2, <1>3, <1>4, ClosureSame
<1> QED
  BY <1>5 DEF K, L, s
----------------------------------------------------------------------------
(* The steps of the caller.                                                 *)

LEMMA NoSetHeld ==
  /\ NoSet \in SetRecords /\ ~NoSet.initialized /\ NoSet.keys = {}
  /\ \A p : Distinct(p, {}) /\ Held(p, {}) /\ CopiesOf(p, {}) = 0
<1>1. NoSet \in SetRecords
  BY SetsAssumption DEF NoSet, BytesPolicy, SetRecords, Policies
<1> QED
  BY <1>1, FS_EmptySet DEF NoSet, Distinct, Held, CopiesOf

LEMMA InitHeld == SetsInit => SetsInv
<1> SUFFICES ASSUME SetsInit PROVE SetsInv
  OBVIOUS
<1>1. sets = [h \in Handles |-> NoSet] /\ calls = {} /\ copies = 0
  BY DEF SetsInit
<1>2. InSets = {} /\ InCalls = {}
  BY <1>1, NoSetHeld DEF InSets, InCalls, CopiesIn
<1>3. Counted
  BY <1>1, <1>2, FS_EmptySet DEF Counted
<1>4. SetsHeld
  BY <1>1, NoSetHeld DEF SetsHeld
<1> QED
  BY <1>1, <1>3, <1>4, NoSetHeld DEF SetsInv

\* The number of copies is a number.
LEMMA InvTypes == SetsInv => copies \in Nat
<1> SUFFICES ASSUME SetsInv PROVE copies \in Nat
  OBVIOUS
<1>1. IsFiniteSet(InSets)
  <2>1. IsFiniteSet(Handles \X Stored)
    BY StoredFinite, FS_Product, SetsAssumption
  <2>2. InSets \in SUBSET (Handles \X Stored)
    BY DEF InSets
  <2> QED
    BY <2>1, <2>2, FS_Subset
<1>2. Cardinality(InCalls) \in Nat
  <2>1. Cardinality(Waiting(calls)) \in Nat
    <3>1. CASE calls = {}
      BY <3>1, NoCallWaits
    <3>2. CASE \E c \in calls : calls = {c}
      <4>1. PICK c \in calls : calls = {c}
        BY <3>2
      <4>2. c.keys \in SUBSET Stored
        BY DEF SetsInv, CallHeld, Calls
      <4> QED
        BY <4>1, <4>2, OneCallWaits
    <3> QED
      BY <3>1, <3>2 DEF SetsInv
  <2> QED
    BY <2>1 DEF InCalls, Waiting
<1>3. Cardinality(InSets) \in Nat
  BY <1>1, FS_CardinalityType
<1> QED
  BY <1>2, <1>3 DEF SetsInv, Counted

\* One set changes, and the copies it gains or loses are counted.
LEMMA SetChanges ==
  ASSUME SetsInv, calls = {}, calls' = {}, NEW h \in Handles, NEW r \in SetRecords,
         Distinct(r.policy, r.keys), Held(r.policy, r.keys), ~r.initialized => r = NoSet,
         sets' = [sets EXCEPT ![h] = r],
         copies' = copies - CopiesOf(sets[h].policy, sets[h].keys) + CopiesOf(r.policy, r.keys)
  PROVE  SetsInv'
<1>1. /\ sets \in [Handles -> SetRecords] /\ SetsHeld /\ Counted
  BY DEF SetsInv
<1>2. /\ sets' \in [Handles -> SetRecords] /\ sets'[h] = r
      /\ \A g \in Handles \ {h} : sets'[g] = sets[g]
  BY <1>1
<1>3. SetsHeld'
  BY <1>1, <1>2 DEF SetsHeld
<1>4. sets[h].keys \in SUBSET Stored /\ r.keys \in SUBSET Stored
  BY <1>1 DEF SetRecords
<1>5. /\ CopiesOf(sets[h].policy, sets[h].keys) = Cardinality(CopiesIn(sets[h].keys))
      /\ CopiesOf(r.policy, r.keys) = Cardinality(CopiesIn(r.keys))
      /\ Cardinality(CopiesIn(sets[h].keys)) \in Nat
      /\ Cardinality(CopiesIn(r.keys)) \in Nat
  BY <1>1, <1>4, CopiesCounted, CopiesFinite DEF SetsHeld
<1>6. /\ Cardinality(Spread(sets)) \in Nat
      /\ Cardinality(Spread(sets')) = Cardinality(Spread(sets))
             - Cardinality(CopiesIn(sets[h].keys)) + Cardinality(CopiesIn(r.keys))
  <2>1. /\ sets'[h].keys \in SUBSET Stored
        /\ \A g \in Handles \ {h} : sets'[g].keys = sets[g].keys
    BY <1>2, <1>4
  <2>2. ASSUME NEW t, t[h].keys \in SUBSET Stored,
               \A g \in Handles \ {h} : t[g].keys = sets[g].keys
        PROVE  /\ Cardinality(Spread(sets)) \in Nat
               /\ Cardinality(Spread(t)) = Cardinality(Spread(sets))
                      - Cardinality(CopiesIn(sets[h].keys)) + Cardinality(CopiesIn(t[h].keys))
    BY <1>4, <2>2, OneSetChanges
  <2> QED
    BY <1>2, <2>1, <2>2
<1>7. Counted'
  <2>1. copies = Cardinality(Spread(sets)) + Cardinality(Waiting({}))
    BY <1>1 DEF Counted, InSets, InCalls, Spread, Waiting
  <2>2. copies' = Cardinality(Spread(sets')) + Cardinality(Waiting({}))
    BY <1>5, <1>6, <2>1, NoCallWaits
  <2> QED
    BY <2>2 DEF Counted, InSets, InCalls, Spread, Waiting
<1> QED
  BY <1>2, <1>3, <1>7 DEF SetsInv

LEMMA InitKeepsInv ==
  ASSUME SetsInv, NEW h \in Handles, NEW p \in Policies, SetInit(h, p)
  PROVE  SetsInv'
<1> DEFINE r == [initialized |-> TRUE, policy |-> p, keys |-> {}]
<1>1. /\ calls = {} /\ calls' = {} /\ sets' = [sets EXCEPT ![h] = r] /\ copies' = copies
      /\ sets[h] = NoSet
  BY DEF SetInit, SetsInv, SetsHeld
<1>2. /\ r \in SetRecords /\ r.initialized /\ r.policy = p /\ r.keys = {}
  BY DEF SetRecords
<1>3. /\ Distinct(r.policy, r.keys) /\ Held(r.policy, r.keys)
      /\ CopiesOf(r.policy, r.keys) = 0
      /\ CopiesOf(sets[h].policy, sets[h].keys) = 0
  BY <1>1, <1>2, NoSetHeld
<1>4. copies' = copies - CopiesOf(sets[h].policy, sets[h].keys) + CopiesOf(r.policy, r.keys)
  BY <1>1, <1>3, InvTypes
<1>5. ~r.initialized => r = NoSet
  BY <1>2
<1> HIDE DEF r
<1> QED
  BY <1>1, <1>2, <1>3, <1>4, <1>5, SetChanges

LEMMA AddKeepsInv ==
  ASSUME SetsInv, NEW h \in Handles, NEW k \in Elements, AddKey(h, k)
  PROVE  SetsInv'
<1> DEFINE p == sets[h].policy
           e == [value |-> k, of |-> "caller"]
           keys == WithKey(p, sets[h].keys, e)
           r == [initialized |-> TRUE, policy |-> p, keys |-> keys]
<1>1. /\ calls = {} /\ calls' = {} /\ Accepts(p, k) /\ sets' = [sets EXCEPT ![h] = r]
      /\ copies' = copies + CopiesOf(p, keys) - CopiesOf(p, sets[h].keys)
  BY DEF AddKey
<1>2. /\ p \in Policies /\ sets[h].keys \in SUBSET Stored
      /\ Distinct(p, sets[h].keys) /\ Held(p, sets[h].keys)
  BY DEF SetsInv, SetsHeld, SetRecords
<1>3. e \in Stored /\ e.value = k /\ e.of = "caller"
  BY DEF Stored
<1>4. keys \in SUBSET Stored /\ Distinct(p, keys) /\ Held(p, keys)
  BY <1>1, <1>2, <1>3, WithKeyHeld
<1>5. copies \in Int /\ CopiesOf(p, keys) \in Int /\ CopiesOf(p, sets[h].keys) \in Int
  BY <1>2, <1>4, InvTypes, CopiesCounted, CopiesFinite
<1> HIDE DEF p, keys
<1>6. r \in SetRecords /\ r.initialized /\ r.policy = p /\ r.keys = keys
  BY <1>2, <1>4 DEF SetRecords
<1>7. copies' = copies - CopiesOf(p, sets[h].keys) + CopiesOf(r.policy, r.keys)
  BY <1>1, <1>5, <1>6
<1> HIDE DEF r
<1> QED
  BY <1>1, <1>4, <1>6, <1>7, SetChanges DEF p

LEMMA RemoveKeepsInv ==
  ASSUME SetsInv, NEW h \in Handles, NEW k \in Elements, RemoveKey(h, k)
  PROVE  SetsInv'
<1> DEFINE p == sets[h].policy
           keys == {e \in sets[h].keys : ~Same(p, e.value, k)}
           r == [sets[h] EXCEPT !.keys = keys]
<1>1. /\ calls = {} /\ calls' = {} /\ Contains(sets[h], k)
      /\ sets' = [sets EXCEPT ![h].keys = keys]
      /\ copies' = copies - (CopiesOf(p, sets[h].keys) - CopiesOf(p, keys))
  BY DEF RemoveKey
<1>2. /\ p \in Policies /\ sets[h].keys \in SUBSET Stored /\ sets[h] \in SetRecords
      /\ Distinct(p, sets[h].keys) /\ Held(p, sets[h].keys)
      /\ ~sets[h].initialized => sets[h] = NoSet
  BY DEF SetsInv, SetsHeld, SetRecords
<1>3. keys \in SUBSET Stored /\ Distinct(p, keys) /\ Held(p, keys)
  BY <1>2 DEF Distinct, Held
<1>4. copies \in Int /\ CopiesOf(p, keys) \in Int /\ CopiesOf(p, sets[h].keys) \in Int
  BY <1>2, <1>3, InvTypes, CopiesCounted, CopiesFinite
<1>5. sets[h].initialized
  BY <1>1, <1>2, NoSetHeld DEF Contains
<1>6. sets' = [sets EXCEPT ![h] = r]
  BY <1>1
<1> HIDE DEF p, keys
<1>7. r \in SetRecords /\ r.initialized /\ r.policy = p /\ r.keys = keys
  BY <1>2, <1>3, <1>5 DEF SetRecords, p
<1>8. copies' = copies - CopiesOf(p, sets[h].keys) + CopiesOf(r.policy, r.keys)
  BY <1>1, <1>4, <1>7
<1> HIDE DEF r
<1> QED
  BY <1>1, <1>3, <1>6, <1>7, <1>8, SetChanges DEF p

\* Clearing and releasing a set.
LEMMA DropKeepsInv ==
  ASSUME SetsInv, NEW h \in Handles, ClearSet(h) \/ DeinitSet(h)
  PROVE  SetsInv'
<1>1. /\ sets[h] \in SetRecords /\ ~NoSet.initialized
      /\ copies \in Int
  BY NoSetHeld, InvTypes DEF SetsInv, SetsHeld
<1>2. PICK r \in SetRecords :
          /\ calls = {} /\ calls' = {} /\ sets' = [sets EXCEPT ![h] = r]
          /\ copies' = copies - CopiesOf(sets[h].policy, sets[h].keys)
          /\ r.keys = {} /\ (~r.initialized => r = NoSet)
  <2>1. CASE ClearSet(h)
    <3> DEFINE r == [sets[h] EXCEPT !.keys = {}]
    <3>1. r \in SetRecords /\ r.keys = {} /\ r.initialized = sets[h].initialized
      BY <1>1 DEF SetRecords
    <3>2. Drop(h, r)
      BY <2>1 DEF ClearSet
    <3> HIDE DEF r
    <3> QED
      BY <3>1, <3>2 DEF Drop
  <2>2. CASE DeinitSet(h)
    BY <2>2, NoSetHeld DEF DeinitSet, Drop
  <2> QED
    BY <2>1, <2>2
<1>3. /\ Distinct(r.policy, r.keys) /\ Held(r.policy, r.keys) /\ CopiesOf(r.policy, r.keys) = 0
  BY <1>2, NoSetHeld
<1>4. CopiesOf(sets[h].policy, sets[h].keys) \in Int
  <2>1. sets[h].keys \in SUBSET Stored /\ Held(sets[h].policy, sets[h].keys)
    BY DEF SetsInv, SetsHeld, SetRecords
  <2> QED
    BY <2>1, CopiesCounted, CopiesFinite
<1>5. copies' = copies - CopiesOf(sets[h].policy, sets[h].keys) + CopiesOf(r.policy, r.keys)
  BY <1>1, <1>2, <1>3, <1>4
<1> QED
  BY <1>2, <1>3, <1>5, SetChanges
----------------------------------------------------------------------------
(* The operations.                                                          *)

\* The set is empty, or its keys are compared in way s.
ComparedBy(s, a) == a.keys # {} => a.policy.semantics = s

LEMMA MembersCompared ==
  ASSUME NEW s, NEW a \in SetRecords, ComparedBy(s, a)
  PROVE  Members(a) = Closure(s, a.keys)
<1>1. CASE a.keys = {}
  BY <1>1 DEF Members, Contains, Closure
<1>2. CASE a.keys # {}
  BY <1>2, MembersClosure DEF ComparedBy
<1> QED
  BY <1>1, <1>2

\* The keys of one set that are found in another stand for the common members, and
\* the keys that are not found for the other members.
LEMMA FoundStandFor ==
  ASSUME NEW s, NEW a \in SetRecords, NEW b \in SetRecords, Distinct(a.policy, a.keys),
         ComparedBy(s, a), ComparedBy(s, b)
  PROVE  /\ Closure(s, {e \in a.keys : Contains(b, e.value)}) = Members(a) \cap Members(b)
         /\ Closure(s, {e \in a.keys : ~Contains(b, e.value)}) = Members(a) \ Members(b)
<1>1. Members(a) = Closure(s, a.keys) /\ Members(b) = Closure(s, b.keys)
  BY MembersCompared
<1>2. \A e \in a.keys : e.value \in Elements /\ e.value \in Valid[s]
  BY DEF SetRecords, Stored, Distinct, Accepts, ComparedBy
<1>3. \A e \in a.keys : Contains(b, e.value) <=> e.value \in Members(b)
  BY <1>2 DEF Members
<1>4. ASSUME NEW k \in Elements, k \in Valid[s], NEW e \in a.keys,
             Class[s][e.value] = Class[s][k]
      PROVE  e.value \in Closure(s, b.keys) <=> k \in Closure(s, b.keys)
  BY <1>2, <1>4 DEF Closure
<1>5. ASSUME NEW k \in Elements
      PROVE  k \in Closure(s, {e \in a.keys : Contains(b, e.value)}) <=>
                 k \in Members(a) /\ k \in Members(b)
  <2>1. k \in Closure(s, {e \in a.keys : Contains(b, e.value)}) <=>
            k \in Valid[s] /\ \E e \in a.keys :
                e.value \in Members(b) /\ Class[s][e.value] = Class[s][k]
    BY <1>3 DEF Closure
  <2>2. k \in Members(a) <=>
            k \in Valid[s] /\ \E e \in a.keys : Class[s][e.value] = Class[s][k]
    BY <1>1 DEF Closure
  <2> QED
    BY <1>1, <1>4, <2>1, <2>2
<1>6. ASSUME NEW k \in Elements
      PROVE  k \in Closure(s, {e \in a.keys : ~Contains(b, e.value)}) <=>
                 k \in Members(a) /\ k \notin Members(b)
  <2>1. k \in Closure(s, {e \in a.keys : ~Contains(b, e.value)}) <=>
            k \in Valid[s] /\ \E e \in a.keys :
                e.value \notin Members(b) /\ Class[s][e.value] = Class[s][k]
    BY <1>3 DEF Closure
  <2>2. k \in Members(a) <=>
            k \in Valid[s] /\ \E e \in a.keys : Class[s][e.value] = Class[s][k]
    BY <1>1 DEF Closure
  <2> QED
    BY <1>1, <1>4, <2>1, <2>2
<1>7. /\ \A keys : Closure(s, keys) \subseteq Elements
      /\ Members(a) \subseteq Elements /\ Members(b) \subseteq Elements
  BY DEF Closure, Members
<1> QED
  BY <1>5, <1>6, <1>7

\* More keys stand for more.
LEMMA ClosureGrows ==
  ASSUME NEW s, NEW K, NEW L, K \subseteq L
  PROVE  Closure(s, K) \subseteq Closure(s, L)
BY DEF Closure

LEMMA ClosureUnion ==
  ASSUME NEW s, NEW K, NEW L
  PROVE  Closure(s, K \cup L) = Closure(s, K) \cup Closure(s, L)
BY DEF Closure

\* The keys an operation adds stand for the result it is named after.
LEMMA ChosenStandFor ==
  ASSUME NEW s, NEW op \in Operations, NEW a \in SetRecords, NEW b \in SetRecords,
         Distinct(a.policy, a.keys), Distinct(b.policy, b.keys),
         ComparedBy(s, a), ComparedBy(s, b)
  PROVE  Closure(s, FromFirst(op, a, b) \cup FromSecond(op, a, b)) =
             InResult(op, Members(a), Members(b))
<1>1. Closure(s, {}) = {}
  BY DEF Closure
<1>2. /\ Closure(s, {e \in a.keys : Contains(b, e.value)}) = Members(a) \cap Members(b)
      /\ Closure(s, {e \in a.keys : ~Contains(b, e.value)}) = Members(a) \ Members(b)
      /\ Closure(s, {e \in b.keys : ~Contains(a, e.value)}) = Members(b) \ Members(a)
  BY FoundStandFor
<1>3. Closure(s, FromFirst(op, a, b) \cup FromSecond(op, a, b)) =
          Closure(s, FromFirst(op, a, b)) \cup Closure(s, FromSecond(op, a, b))
  BY ClosureUnion
<1>4. CASE op = "union"
  <2>1. FromFirst(op, a, b) = a.keys /\ FromSecond(op, a, b) = b.keys
    BY <1>4 DEF FromFirst, FromSecond
  <2> QED
    BY <1>3, <1>4, <2>1, MembersCompared DEF InResult
<1>5. CASE op = "intersection"
  <2>1. /\ FromFirst(op, a, b) = {e \in a.keys : Contains(b, e.value)}
        /\ FromSecond(op, a, b) = {}
    BY <1>5 DEF FromFirst, FromSecond
  <2> QED
    BY <1>1, <1>2, <1>3, <1>5, <2>1 DEF InResult
<1>6. CASE op = "difference"
  <2>1. /\ FromFirst(op, a, b) = {e \in a.keys : ~Contains(b, e.value)}
        /\ FromSecond(op, a, b) = {}
    BY <1>6 DEF FromFirst, FromSecond
  <2> QED
    BY <1>1, <1>2, <1>3, <1>6, <2>1 DEF InResult
<1>7. CASE op = "symmetric difference"
  <2>1. /\ FromFirst(op, a, b) = {e \in a.keys : ~Contains(b, e.value)}
        /\ FromSecond(op, a, b) = {e \in b.keys : ~Contains(a, e.value)}
    BY <1>7 DEF FromFirst, FromSecond
  <2> QED
    BY <1>2, <1>3, <1>7, <2>1 DEF InResult
<1> QED
  BY <1>4, <1>5, <1>6, <1>7 DEF Operations

\* What is added comes from the operands.
LEMMA ChosenFromOperands ==
  ASSUME NEW op \in Operations, NEW a \in SetRecords, NEW b \in SetRecords
  PROVE  /\ FromFirst(op, a, b) \in SUBSET a.keys /\ FromFirst(op, a, b) \in SUBSET Stored
         /\ FromSecond(op, a, b) \in SUBSET b.keys /\ FromSecond(op, a, b) \in SUBSET Stored
<1>1. a.keys \in SUBSET Stored /\ b.keys \in SUBSET Stored
  BY DEF SetRecords
<1>2. FromFirst(op, a, b) \in SUBSET a.keys
  BY DEF FromFirst, Operations
<1>3. FromSecond(op, a, b) \in SUBSET b.keys
  BY DEF FromSecond, Operations
<1> QED
  BY <1>1, <1>2, <1>3

\* The result owns its keys if an operand does.
LEMMA ResultPolicyOwns ==
  ASSUME NEW a \in SetRecords, NEW b \in SetRecords
  PROVE  /\ ResultPolicy(a, b) \in Policies
         /\ ~Owning(ResultPolicy(a, b)) => ~Owning(a.policy) /\ ~Owning(b.policy)
<1>1. a.policy \in Policies /\ b.policy \in Policies
  BY DEF SetRecords
<1> QED
  BY <1>1 DEF ResultPolicy, ResultPolicyFirst
----------------------------------------------------------------------------
(* The steps of an operation.                                               *)

\* The copies while an operation runs.
LEMMA CountedInCall ==
  ASSUME SetsInv, NEW c \in calls
  PROVE  /\ calls = {c} /\ c.keys \in SUBSET Stored
         /\ CopiesOf(c.policy, c.keys) = Cardinality(CopiesIn(c.keys))
         /\ CopiesOf(c.policy, c.keys) \in Nat
         /\ copies = Cardinality(InSets) + CopiesOf(c.policy, c.keys)
         /\ Cardinality(InSets) \in Int
<1>1. calls = {c} /\ CallHeld(c) /\ Counted
  BY DEF SetsInv
<1>2. c.keys \in SUBSET Stored /\ Held(c.policy, c.keys)
  BY <1>1 DEF CallHeld, Calls
<1>3. /\ CopiesOf(c.policy, c.keys) = Cardinality(CopiesIn(c.keys))
      /\ Cardinality(CopiesIn(c.keys)) \in Nat
  BY <1>2, CopiesCounted, CopiesFinite
<1>4. Cardinality(InCalls) = Cardinality(CopiesIn(c.keys))
  BY <1>1, <1>2, OneCallWaits DEF InCalls, Waiting
<1>5. Cardinality(InSets) \in Int
  <2>1. Handles # {}
    BY <1>1 DEF CallHeld, Calls
  <2>2. PICK h \in Handles : TRUE
    BY <2>1
  <2>3. sets[h].keys \in SUBSET Stored
    BY DEF SetsInv, SetsHeld, SetRecords
  <2>4. Cardinality(Spread(sets)) \in Nat
    BY <2>2, <2>3, OneSetChanges
  <2> QED
    BY <2>4 DEF Spread, InSets
<1> QED
  BY <1>1, <1>2, <1>3, <1>4, <1>5 DEF Counted

\* A call that stands in the place of the last one, over the same sets.
LEMMA CallChanges ==
  ASSUME SetsInv, sets' = sets, NEW c \in Calls, calls' = {c},
         CallHeld(c), OnTheWay(c),
         copies' = Cardinality(InSets) + CopiesOf(c.policy, c.keys)
  PROVE  SetsInv'
<1>1. c.keys \in SUBSET Stored /\ Held(c.policy, c.keys)
  BY DEF CallHeld, Calls
<1>2. /\ InSets' = InSets
      /\ Cardinality(InCalls') = CopiesOf(c.policy, c.keys)
  <2>1. InCalls' = Waiting({c})
    BY DEF InCalls, Waiting
  <2> QED
    BY <1>1, <2>1, OneCallWaits, CopiesCounted DEF InSets
<1>3. Counted'
  BY <1>2 DEF Counted
<1>4. CallHeld(c)' /\ OnTheWay(c)'
  BY DEF CallHeld, OnTheWay, InheritsSemantics
<1>5. SetsHeld'
  BY DEF SetsInv, SetsHeld
<1> QED
  BY <1>3, <1>4, <1>5 DEF SetsInv

LEMMA BeginKeepsInv ==
  ASSUME SetsInv, NEW op \in Operations, NEW a \in Handles, NEW b \in Handles,
         NEW res \in Handles, Begin(op, a, b, res)
  PROVE  SetsInv'
<1> DEFINE p == ResultPolicy(sets[a], sets[b])
           first == FromFirst(op, sets[a], sets[b])
           second == FromSecond(op, sets[a], sets[b])
           c == [op |-> op, a |-> a, b |-> b, result |-> res, policy |-> p,
                 keys |-> {}, first |-> first, second |-> second]
<1>1. /\ calls = {} /\ ~sets[res].initialized /\ calls' = {c}
      /\ sets' = sets /\ copies' = copies
  BY DEF Begin
<1>2. /\ sets[a] \in SetRecords /\ sets[b] \in SetRecords
      /\ Distinct(sets[a].policy, sets[a].keys) /\ Distinct(sets[b].policy, sets[b].keys)
      /\ Held(sets[a].policy, sets[a].keys) /\ Held(sets[b].policy, sets[b].keys)
  BY DEF SetsInv, SetsHeld
<1>3. /\ p \in Policies /\ (~Owning(p) => ~Owning(sets[a].policy) /\ ~Owning(sets[b].policy))
  BY <1>2, ResultPolicyOwns
<1>4. /\ first \in SUBSET sets[a].keys /\ first \in SUBSET Stored
      /\ second \in SUBSET sets[b].keys /\ second \in SUBSET Stored
  BY <1>2, ChosenFromOperands
<1>5. ASSUME ComparedBy(p.semantics, sets[a]), ComparedBy(p.semantics, sets[b])
      PROVE  Closure(p.semantics, first \cup second) =
                 InResult(op, Members(sets[a]), Members(sets[b]))
  BY <1>2, <1>5, ChosenStandFor
<1> HIDE DEF p, first, second
<1>6. c \in Calls
  BY <1>3, <1>4 DEF Calls
<1>7. CallHeld(c)
  <2>1. ~Owning(p) => \A e \in first \cup second : e.of = "caller"
    BY <1>2, <1>3, <1>4 DEF Held
  <2> QED
    BY <1>1, <1>6, <2>1, NoSetHeld DEF CallHeld
<1>8. OnTheWay(c)
  <2>1. {} \cup (first \cup second) = first \cup second
    OBVIOUS
  <2>2. ASSUME InheritsSemantics(c)
        PROVE  ComparedBy(p.semantics, sets[a]) /\ ComparedBy(p.semantics, sets[b])
    BY <2>2 DEF InheritsSemantics, ComparedBy
  <2> QED
    BY <1>5, <2>1, <2>2 DEF OnTheWay
<1>9. copies' = Cardinality(InSets) + CopiesOf(c.policy, c.keys)
  <2>1. copies = Cardinality(InSets) + Cardinality(Waiting({}))
    BY <1>1 DEF SetsInv, Counted, InCalls, Waiting
  <2>2. CopiesOf(c.policy, c.keys) = 0
    BY NoSetHeld
  <2> QED
    BY <1>1, <2>1, <2>2, NoCallWaits
<1> HIDE DEF c
<1> QED
  BY <1>1, <1>6, <1>7, <1>8, <1>9, CallChanges

LEMMA AddDueKeepsInv ==
  ASSUME SetsInv, NEW c \in calls, NEW e \in Due(c), AddDue(c, e)
  PROVE  SetsInv'
<1>1. /\ CallHeld(c) /\ OnTheWay(c) /\ c \in Calls
  BY DEF SetsInv, CallHeld
<1>2. /\ c.policy \in Policies /\ c.keys \in SUBSET Stored
      /\ c.first \in SUBSET Stored /\ c.second \in SUBSET Stored
      /\ Distinct(c.policy, c.keys) /\ Held(c.policy, c.keys)
  BY <1>1 DEF CallHeld, Calls
<1>3. e \in Stored /\ e \in c.first \cup c.second /\ (Owning(c.policy) \/ e.of = "caller")
  BY <1>1, <1>2 DEF Due, CallHeld
<1> DEFINE keys == WithKey(c.policy, c.keys, e)
           d == IF c.first # {} THEN [c EXCEPT !.keys = keys, !.first = @ \ {e}]
                                ELSE [c EXCEPT !.keys = keys, !.second = @ \ {e}]
<1>4. /\ calls' = {d} /\ sets' = sets /\ Accepts(c.policy, e.value)
      /\ copies' = copies + CopiesOf(c.policy, keys) - CopiesOf(c.policy, c.keys)
  BY DEF AddDue
<1>5. keys \in SUBSET Stored /\ Distinct(c.policy, keys) /\ Held(c.policy, keys)
  BY <1>2, <1>3, <1>4, WithKeyHeld
<1>6. Closure(c.policy.semantics, keys \cup ((c.first \cup c.second) \ {e})) =
          Closure(c.policy.semantics, c.keys \cup (c.first \cup c.second))
  <2> DEFINE rest == c.first \cup c.second
             p == c.policy
             held == c.keys
  <2>1. rest \in SUBSET Stored /\ e \in rest /\ p \in Policies /\ held \in SUBSET Stored
    BY <1>2, <1>3
  <2> HIDE DEF rest, p, held
  <2>2. Closure(p.semantics, WithKey(p, held, e) \cup (rest \ {e})) =
            Closure(p.semantics, held \cup rest)
    BY <1>3, <2>1, WithKeyStandsFor
  <2> QED
    BY <2>2 DEF rest, p, held
<1> HIDE DEF keys
<1>7. /\ d \in Calls /\ d.op = c.op /\ d.a = c.a /\ d.b = c.b /\ d.result = c.result
      /\ d.policy = c.policy /\ d.keys = keys
      /\ d.first \subseteq c.first /\ d.second \subseteq c.second
      /\ keys \cup ((c.first \cup c.second) \ {e}) \subseteq keys \cup (d.first \cup d.second)
      /\ keys \cup (d.first \cup d.second) \subseteq keys \cup (c.first \cup c.second)
  BY <1>1, <1>2, <1>5 DEF Calls
<1> HIDE DEF d
<1>8. CallHeld(d)
  BY <1>1, <1>5, <1>7 DEF CallHeld
<1>9. OnTheWay(d)
  <2> DEFINE due == c.first \cup c.second
             left == d.first \cup d.second
             s == c.policy.semantics
  <2>1. /\ Closure(s, keys \cup (due \ {e})) \subseteq Closure(s, keys \cup left)
        /\ Closure(s, keys \cup left) \subseteq Closure(s, keys \cup due)
        /\ Closure(s, keys \cup due) =
               Closure(s, keys \cup (due \ {e})) \cup Closure(s, due)
        /\ Closure(s, due) \subseteq Closure(s, c.keys \cup due)
    <3>1. /\ keys \cup (due \ {e}) \subseteq keys \cup left
          /\ keys \cup left \subseteq keys \cup due
          /\ due \subseteq c.keys \cup due
      BY <1>7
    <3>2. keys \cup due = (keys \cup (due \ {e})) \cup due
      OBVIOUS
    <3> HIDE DEF due, left, s
    <3> QED
      BY <3>1, <3>2, ClosureGrows, ClosureUnion
  <2>2. Closure(s, keys \cup left) = Closure(s, c.keys \cup due)
    BY <1>6, <2>1
  <2>3. InheritsSemantics(d) => InheritsSemantics(c)
    BY <1>7 DEF InheritsSemantics
  <2> QED
    BY <1>1, <1>7, <2>2, <2>3 DEF OnTheWay
<1>10. copies' = Cardinality(InSets) + CopiesOf(d.policy, d.keys)
  <2>1. /\ copies = Cardinality(InSets) + CopiesOf(c.policy, c.keys)
        /\ CopiesOf(c.policy, c.keys) \in Nat /\ Cardinality(InSets) \in Int
    BY CountedInCall
  <2>2. CopiesOf(c.policy, keys) \in Nat
    BY <1>5, CopiesCounted, CopiesFinite
  <2> QED
    BY <1>4, <1>7, <2>1, <2>2
<1> QED
  BY <1>4, <1>7, <1>8, <1>9, <1>10, CallChanges DEF d

\* A key cannot be added, and the unfinished result is released.
LEMMA AddFailsKeepsInv ==
  ASSUME SetsInv, NEW c \in calls, NEW e \in Due(c), AddFails(c, e)
  PROVE  SetsInv'
<1>1. sets' = sets /\ calls' = {} /\ copies' = copies - CopiesOf(c.policy, c.keys)
  BY DEF AddFails, Released
<1>2. copies' = Cardinality(InSets)
  BY <1>1, CountedInCall
<1>3. Counted'
  <2>1. InSets' = InSets /\ InCalls' = Waiting({})
    BY <1>1 DEF InSets, InCalls, Waiting
  <2> QED
    BY <1>2, <2>1, CountedInCall, NoCallWaits DEF Counted
<1>4. SetsHeld'
  BY <1>1 DEF SetsInv, SetsHeld
<1> QED
  BY <1>1, <1>3, <1>4 DEF SetsInv

\* The result becomes a set, with its copies.
LEMMA FinishKeepsInv ==
  ASSUME SetsInv, NEW c \in calls, Finish(c)
  PROVE  SetsInv'
<1> DEFINE r == [initialized |-> TRUE, policy |-> c.policy, keys |-> c.keys]
<1>1. /\ sets' = [sets EXCEPT ![c.result] = r] /\ calls' = {} /\ copies' = copies
  BY DEF Finish
<1>2. /\ CallHeld(c) /\ c.result \in Handles /\ c.policy \in Policies
      /\ c.keys \in SUBSET Stored /\ sets \in [Handles -> SetRecords] /\ SetsHeld
  BY DEF SetsInv, CallHeld, Calls
<1>3. r \in SetRecords /\ r.initialized /\ r.policy = c.policy /\ r.keys = c.keys
  BY <1>2 DEF SetRecords
<1> HIDE DEF r
<1>4. /\ sets' \in [Handles -> SetRecords] /\ sets'[c.result] = r
      /\ \A g \in Handles \ {c.result} : sets'[g] = sets[g]
  BY <1>1, <1>2, <1>3
<1>5. SetsHeld'
  BY <1>2, <1>3, <1>4 DEF SetsHeld, CallHeld
<1>6. sets[c.result].keys = {} /\ sets[c.result].keys \in SUBSET Stored
  BY <1>2, NoSetHeld DEF SetsHeld, CallHeld
<1>7. /\ Cardinality(Spread(sets)) \in Nat
      /\ Cardinality(Spread(sets')) = Cardinality(Spread(sets))
             - Cardinality(CopiesIn(sets[c.result].keys)) + Cardinality(CopiesIn(r.keys))
  <2>1. /\ sets'[c.result].keys \in SUBSET Stored
        /\ \A g \in Handles \ {c.result} : sets'[g].keys = sets[g].keys
    BY <1>2, <1>3, <1>4
  <2>2. ASSUME NEW h \in Handles, sets[h].keys \in SUBSET Stored,
               NEW t, t[h].keys \in SUBSET Stored,
               \A g \in Handles \ {h} : t[g].keys = sets[g].keys
        PROVE  /\ Cardinality(Spread(sets)) \in Nat
               /\ Cardinality(Spread(t)) = Cardinality(Spread(sets))
                      - Cardinality(CopiesIn(sets[h].keys)) + Cardinality(CopiesIn(t[h].keys))
    BY <2>2, OneSetChanges
  <2> QED
    BY <1>2, <1>4, <1>6, <2>1, <2>2
<1>8. Cardinality(CopiesIn(sets[c.result].keys)) = 0
  <2>1. CopiesIn(sets[c.result].keys) = {}
    BY <1>6 DEF CopiesIn
  <2> QED
    BY <2>1, FS_EmptySet
<1>9. Counted'
  <2>1. /\ copies = Cardinality(Spread(sets)) + Cardinality(CopiesIn(c.keys))
        /\ Cardinality(CopiesIn(c.keys)) \in Nat
    BY CountedInCall DEF InSets, Spread
  <2>2. copies' = Cardinality(Spread(sets')) + Cardinality(Waiting({}))
    BY <1>1, <1>3, <1>7, <1>8, <2>1, NoCallWaits
  <2> QED
    BY <1>1, <2>2 DEF Counted, InSets, InCalls, Spread, Waiting
<1> QED
  BY <1>1, <1>4, <1>5, <1>9 DEF SetsInv

\* Every step keeps the invariant.
LEMMA NextKeepsInv == SetsInv /\ [SetsNext]_setsVars => SetsInv'
<1> SUFFICES ASSUME SetsInv, [SetsNext]_setsVars PROVE SetsInv'
  OBVIOUS
<1>1. ASSUME NEW h \in Handles, ClearSet(h) \/ DeinitSet(h) PROVE SetsInv'
  BY <1>1, DropKeepsInv
<1>2. ASSUME NEW h \in Handles, NEW p \in Policies, SetInit(h, p) PROVE SetsInv'
  BY <1>2, InitKeepsInv
<1>3. ASSUME NEW h \in Handles, NEW k \in Elements, AddKey(h, k) PROVE SetsInv'
  BY <1>3, AddKeepsInv
<1>4. ASSUME NEW h \in Handles, NEW k \in Elements, RemoveKey(h, k) PROVE SetsInv'
  BY <1>4, RemoveKeepsInv
<1>5. ASSUME NEW op \in Operations, NEW a \in Handles, NEW b \in Handles,
             NEW res \in Handles, Begin(op, a, b, res)
      PROVE  SetsInv'
  BY <1>5, BeginKeepsInv
<1>6. ASSUME NEW c \in calls, Finish(c) PROVE SetsInv'
  BY <1>6, FinishKeepsInv
<1>7. ASSUME NEW c \in calls, NEW e \in Due(c), AddDue(c, e) PROVE SetsInv'
  BY <1>7, AddDueKeepsInv
<1>8. ASSUME NEW c \in calls, NEW e \in Due(c), AddFails(c, e) PROVE SetsInv'
  BY <1>8, AddFailsKeepsInv
<1>9. CASE UNCHANGED setsVars
  <2>1. sets' = sets /\ calls' = calls /\ copies' = copies
    BY <1>9 DEF setsVars
  <2>2. SetsHeld' /\ Counted'
    BY <2>1 DEF SetsInv, SetsHeld, Counted, InSets, InCalls
  <2>3. \A c \in calls' : CallHeld(c)' /\ OnTheWay(c)'
    BY <2>1 DEF SetsInv, CallHeld, OnTheWay, InheritsSemantics
  <2> QED
    BY <2>1, <2>2, <2>3 DEF SetsInv
<1> QED
  BY <1>1, <1>2, <1>3, <1>4, <1>5, <1>6, <1>7, <1>8, <1>9 DEF SetsNext

LEMMA SetsInvariant == SetsSpec => []SetsInv
<1> QED
  BY InitHeld, NextKeepsInv, PTL DEF SetsSpec
----------------------------------------------------------------------------
\* Sets are well formed: no set of any policy ever holds two keys that it takes for
\* equal or a key that it refuses, and one operation runs at a time.
THEOREM SetsTypes == SetsSpec => []SetsTypeOK
<1>1. SetsInv => SetsTypeOK
  <2> SUFFICES ASSUME SetsInv PROVE SetsTypeOK
    OBVIOUS
  <2>1. calls \subseteq Calls /\ \A c \in calls : Distinct(c.policy, c.keys)
    BY DEF SetsInv, CallHeld
  <2>2. Cardinality(calls) <= 1
    <3>1. CASE calls = {}
      BY <3>1, FS_EmptySet
    <3>2. CASE \E c \in calls : calls = {c}
      <4>1. \A c : Cardinality({c}) = 1
        BY FS_Singleton
      <4> QED
        BY <3>2, <4>1
    <3> QED
      BY <3>1, <3>2 DEF SetsInv
  <2> QED
    BY <2>1, <2>2, InvTypes DEF SetsTypeOK, SetsInv, SetsHeld
<1> QED
  BY <1>1, SetsInvariant, PTL

\* Every copy of a key is in one set, which owns its keys, or in the result that is
\* being built: lor_set__operation loses none when it fails halfway.
THEOREM SetsCopiesOwned == SetsSpec => []CopiesOwned
<1>1. SetsInv /\ SetsTypeOK => CopiesOwned
  <2> SUFFICES ASSUME SetsInv, SetsTypeOK PROVE CopiesOwned
    OBVIOUS
  <2>1. ASSUME NEW h \in Handles, ~Owning(sets[h].policy)
        PROVE  CopiesIn(sets[h].keys) = {}
    BY <2>1 DEF SetsInv, SetsHeld, Held, CopiesIn
  <2> QED
    BY <2>1 DEF CopiesOwned, SetsInv, Counted
<1> QED
  BY <1>1, SetsInvariant, SetsTypes, PTL

\* The relations of src/set.c, which compare sizes and look the keys of one set up in
\* the other, are those of mathematics.
THEOREM SetsRelationsExact == SetsSpec => []RelationsExact
<1>1. SetsTypeOK => RelationsExact
  <2> SUFFICES ASSUME SetsTypeOK, NEW g \in Handles, NEW h \in Handles
               PROVE  LET a == sets[g]
                          b == sets[h]
                          A == Members(a)
                          B == Members(b)
                      IN  /\ IsSubset(a, b) <=> Compatible(a, b) /\ A \subseteq B
                          /\ IsEqual(a, b) <=> Compatible(a, b) /\ A = B
                          /\ IsProperSubset(a, b) <=>
                                 Compatible(a, b) /\ A \subseteq B /\ A # B
                          /\ IsDisjoint(a, b) <=> Compatible(a, b) /\ A \cap B = {}
    BY DEF RelationsExact
  <2> DEFINE a == sets[g]
             b == sets[h]
  <2>1. /\ a \in SetRecords /\ b \in SetRecords
        /\ Distinct(a.policy, a.keys) /\ Distinct(b.policy, b.keys)
    BY DEF SetsTypeOK
  <2> HIDE DEF a, b
  <2>2. /\ IsSubset(a, b) <=> Compatible(a, b) /\ Members(a) \subseteq Members(b)
        /\ IsSubset(b, a) <=> Compatible(b, a) /\ Members(b) \subseteq Members(a)
        /\ IsSubset(a, b) /\ Size(a) = Size(b) => Members(b) \subseteq Members(a)
        /\ Size(a) \in Nat /\ Size(b) \in Nat
        /\ Compatible(a, b) <=> Compatible(b, a)
    BY <2>1, SubsetExact, CompatibleBothWays
  <2>3. IsSubset(a, b) => Size(a) <= Size(b)
    BY DEF IsSubset
  <2>4. IsSubset(b, a) => Size(b) <= Size(a)
    BY DEF IsSubset
  <2>5. IsEqual(a, b) <=> Compatible(a, b) /\ Members(a) = Members(b)
    BY <2>2, <2>3, <2>4 DEF IsEqual
  <2>6. IsProperSubset(a, b) <=>
            Compatible(a, b) /\ Members(a) \subseteq Members(b) /\ Members(a) # Members(b)
    BY <2>2, <2>3, <2>5 DEF IsProperSubset, IsEqual
  <2>7. IsDisjoint(a, b) <=> Compatible(a, b) /\ Members(a) \cap Members(b) = {}
    BY <2>1, DisjointExact
  <2> QED
    BY <2>2, <2>5, <2>6, <2>7 DEF a, b
<1> QED
  BY <1>1, SetsTypes, PTL

\* An operation of src/set.c yields the set it is named after, also from two operands
\* that are the same set, and changes no other set; one that fails changes none.
THEOREM SetsResultExact == SetsSpec => ResultExact
<1> DEFINE Exact == \A c \in calls : calls' = {} =>
        /\ \A h \in Handles \ {c.result} : sets'[h] = sets[h]
        /\ sets'[c.result].initialized /\ InheritsSemantics(c) =>
               Members(sets'[c.result]) =
                   InResult(c.op, Members(sets[c.a]), Members(sets[c.b]))
<1>1. SetsInv /\ [SetsNext]_setsVars => [Exact]_setsVars
  <2> SUFFICES ASSUME SetsInv, SetsNext, NEW c \in calls, calls' = {}
               PROVE  /\ \A h \in Handles \ {c.result} : sets'[h] = sets[h]
                      /\ sets'[c.result].initialized /\ InheritsSemantics(c) =>
                             Members(sets'[c.result]) =
                                 InResult(c.op, Members(sets[c.a]), Members(sets[c.b]))
    OBVIOUS
  <2>1. /\ CallHeld(c) /\ OnTheWay(c) /\ c.result \in Handles /\ c.policy \in Policies
        /\ c.keys \in SUBSET Stored /\ sets \in [Handles -> SetRecords]
        /\ \A d \in calls : d = c
    BY DEF SetsInv, CallHeld, Calls
  <2>2. Finish(c) \/ \E e \in Due(c) : AddFails(c, e)
    BY <2>1 DEF SetsNext, SetInit, AddKey, RemoveKey, ClearSet, DeinitSet, Drop, Begin, AddDue
  <2>3. ASSUME NEW e \in Due(c), AddFails(c, e)
        PROVE  sets' = sets /\ ~sets'[c.result].initialized
    BY <2>1, <2>3 DEF AddFails, CallHeld
  <2>4. CASE Finish(c)
    <3> DEFINE r == [initialized |-> TRUE, policy |-> c.policy, keys |-> c.keys]
    <3>1. sets' = [sets EXCEPT ![c.result] = r] /\ c.first = {} /\ c.second = {}
      BY <2>4 DEF Finish, Due
    <3>2. r \in SetRecords /\ r.policy = c.policy /\ r.keys = c.keys
      BY <2>1 DEF SetRecords
    <3> HIDE DEF r
    <3>3. sets'[c.result] = r /\ \A h \in Handles \ {c.result} : sets'[h] = sets[h]
      BY <2>1, <3>1
    <3>4. Members(r) = Closure(c.policy.semantics, c.keys)
      BY <3>2, MembersClosure
    <3>5. c.keys \cup (c.first \cup c.second) = c.keys
      BY <3>1
    <3> QED
      BY <2>1, <3>3, <3>4, <3>5 DEF OnTheWay
  <2> QED
    BY <2>2, <2>3, <2>4
<1> QED
  BY <1>1, SetsInvariant, PTL DEF SetsSpec, ResultExact
=============================================================================

------------------------------ MODULE HashMap ------------------------------
(***************************************************************************)
(* The hash map of src/map.c: entries in a dense array, an index of        *)
(* buckets with linear probing, deletion by backward shift, and keys the   *)
(* map may own (cloned on insertion, dropped exactly once).                *)
(*                                                                         *)
(* The loops that move buckets (the rebuild of a growth, the shift of a    *)
(* removal) are one step per iteration.  Calls rejected for their          *)
(* arguments alone change nothing and are left out.  entries[i] is the     *)
(* dense entry i - 1, so a bucket holds 0 or the number of an entry.       *)
(***************************************************************************)
EXTENDS Integers, Sequences, FiniteSets

CONSTANTS
    Keys, Values,
    Hashes,        \* hash values; a hash function is any function from Keys
    FirstEntries,  \* the capacity of the first allocation (8 in the code)
    FirstBuckets,  \* the least number of buckets (8 in the code)
    MaxReserve     \* bound: the argument of lor_map_reserve

ASSUME HashMapAssumption ==
    /\ Hashes \subseteq Nat
    /\ FirstEntries \in Nat \ {0} /\ FirstBuckets \in Nat \ {0}
    /\ MaxReserve \in Nat

VARIABLES
    config,           \* no map (NULL), a map of plain bytes, or one that owns its keys
    hash,             \* the hash function; it never changes
    entries, capacity, buckets, bucket_capacity,
    clones,           \* for each copy of a key: times cloned less times dropped
    pc,               \* in no call, rebuilding the index, or shifting buckets back
    cursor,           \* fill: the entry to insert; erase: the bucket `next`
    hole, doomed,     \* erase: the bucket to fill, and the entry being removed
    pending,          \* the prepared entry of the set that is growing the map
    result            \* what the last call returned

vars == <<config, hash, entries, capacity, buckets, bucket_capacity, clones, pc,
          cursor, hole, doomed, pending, result>>
index == <<capacity, buckets, bucket_capacity>>
loop == <<pc, cursor, hole, doomed, pending>>

Copies == 0 .. 1
Entries == [key : Keys, value : Values, copy : Copies]
NoBucket == -1
----------------------------------------------------------------------------
(* The index.                                                               *)

\* lor_map__bucket_for.
BucketFor(k) == hash[k] % bucket_capacity

\* The steps of a probe, bucket by bucket and around the end, to reach b.
Steps(from, b) == (b - from) % bucket_capacity

\* Where a probe for k stops: at the first of these buckets it reaches.
FirstOf(stops, k) ==
    CHOOSE b \in stops :
        \A c \in stops : Steps(BucketFor(k), b) <= Steps(BucketFor(k), c)

\* lor_map__find_bucket in the index bs over the entries es.
Stops(bs, es, k) == {b \in DOMAIN bs : bs[b] = 0 \/ es[bs[b]].key = k}
FindBucket(bs, es, k) ==
    IF bucket_capacity = 0 THEN NoBucket
    ELSE LET stop == FirstOf(Stops(bs, es, k), k)
         IN  IF bs[stop] = 0 THEN NoBucket ELSE stop

Bucket(k) == FindBucket(buckets, entries, k)
Present(k) == Bucket(k) # NoBucket
IndexOf(k) == buckets[Bucket(k)]

\* Mutant: a key goes to its own bucket, whoever is there.
InsertBucketUnprobed(bs, k, i) == [bs EXCEPT ![BucketFor(k)] = i]

\* lor_map__insert_bucket of entry i, whose key is k.
InsertBucket(bs, k, i) ==
    [bs EXCEPT ![FirstOf({b \in DOMAIN bs : bs[b] = 0}, k)] = i]

\* lor_map__probe_distance.
ProbeDistance(ideal, actual) == Steps(ideal, actual)

\* `first` doubled until it reaches `needed`: the one member of this set.
DoubledUntil(first, needed) ==
    {n \in first .. first + 2 * needed :
        /\ \E i \in 0 .. needed : n = first * 2^i
        /\ n >= needed
        /\ n = first \/ n < 2 * needed}

\* lor_map__entry_capacity and lor_map__bucket_capacity.
EntryCapacity(required) ==
    DoubledUntil(IF capacity < FirstEntries THEN FirstEntries ELSE capacity, required)
\* Mutant: no bucket is kept free.
RequiredBucketsTight(n) == n
RequiredBuckets(n) == n + n \div 3 + 1
BucketCapacity(n) == DoubledUntil(FirstBuckets, RequiredBuckets(n))
----------------------------------------------------------------------------
(* Keys the map owns: each key has two names for its copies, for the time   *)
(* within a replacement when the old and the new copy both live.            *)

Owns == config = "owning"

Cloned(cs, e) == IF Owns THEN [cs EXCEPT ![e.key][e.copy] = @ + 1] ELSE cs
Dropped(cs, e) == IF Owns THEN [cs EXCEPT ![e.key][e.copy] = @ - 1] ELSE cs

\* lor_map__prepare_entry.
Prepared(k, v) ==
    [key |-> k, value |-> v,
     copy |-> IF Owns /\ clones[k][0] # 0 THEN 1 ELSE 0]

\* Mutant: the clone is not dropped.
DropPreparedLeaks(e) == Cloned(clones, e)

\* lor_map__drop_prepared, after prepare_entry made the copy.
DropPrepared(e) == Dropped(Cloned(clones, e), e)

\* The copies of k and c among the entries of es.
Holders(es, k, c) == Cardinality({i \in DOMAIN es : es[i].key = k /\ es[i].copy = c})
DroppedAll ==
    IF Owns THEN [k \in Keys |-> [c \in Copies |-> clones[k][c] - Holders(entries, k, c)]]
    ELSE clones
----------------------------------------------------------------------------
Init ==
    /\ config = "null"
    /\ hash \in [Keys -> Hashes]
    /\ entries = <<>> /\ capacity = 0
    /\ buckets = [b \in {} |-> 0] /\ bucket_capacity = 0
    /\ clones = [k \in Keys |-> [c \in Copies |-> 0]]
    /\ pc = "idle" /\ cursor = 0 /\ hole = 0 /\ doomed = 0 /\ pending = <<>>
    /\ result = "OK"

Idle == pc = "idle"
Return(r) == pc' = "idle" /\ cursor' = 0 /\ hole' = 0 /\ doomed' = 0 /\ pending' = <<>>
             /\ result' = r

\* lor_map_init_raw.
InitRaw(c) ==
    /\ Idle /\ config = "null"
    /\ config' = c
    /\ Return("OK")
    /\ UNCHANGED <<hash, entries, index, clones>>

InitFails ==
    /\ Idle /\ config = "null"
    /\ Return("FAILED")
    /\ UNCHANGED <<config, hash, entries, index, clones>>
----------------------------------------------------------------------------
(* lor_map_reserve_raw: both allocations are made before anything changes.  *)

StartGrowth(required, prepared) ==
    /\ \E n \in EntryCapacity(required) : \E b \in BucketCapacity(n) :
           /\ capacity' = n
           /\ bucket_capacity' = b
           /\ buckets' = [x \in 0 .. b - 1 |-> 0]
    /\ config' = IF config = "null" THEN "bytes" ELSE config
    /\ pc' = "fill" /\ cursor' = 1 /\ pending' = prepared
    /\ UNCHANGED <<hash, entries, hole, doomed, result>>

\* One iteration of lor_map__fill_buckets.
FillStep ==
    /\ pc = "fill" /\ cursor <= Len(entries)
    /\ buckets' = InsertBucket(buckets, entries[cursor].key, cursor)
    /\ cursor' = cursor + 1
    /\ UNCHANGED <<config, hash, entries, capacity, bucket_capacity, clones, pc, hole,
                   doomed, pending, result>>

Reserve(n) ==
    /\ Idle /\ n > capacity
    /\ StartGrowth(n, <<>>)
    /\ UNCHANGED clones

ReserveEnough(n) ==
    /\ Idle /\ n <= capacity
    /\ Return("OK")
    /\ UNCHANGED <<config, hash, entries, index, clones>>

ReserveFails(n) ==
    /\ Idle /\ n > capacity
    /\ Return("FAILED")
    /\ UNCHANGED <<config, hash, entries, index, clones>>

ReserveDone ==
    /\ pc = "fill" /\ cursor > Len(entries) /\ pending = <<>>
    /\ Return("OK")
    /\ UNCHANGED <<config, hash, entries, index, clones>>
----------------------------------------------------------------------------
(* lor_map_set_raw.                                                         *)

Full == Len(entries) = capacity

\* The end of an insertion: the entry is stored, counted, and indexed.
AppendEntry(e) ==
    /\ entries' = Append(entries, e)
    /\ buckets' = InsertBucket(buckets, e.key, Len(entries) + 1)
    /\ Return("OK")
    /\ UNCHANGED <<config, hash, capacity, bucket_capacity>>

\* The key's new copy is made before the old one is dropped.
SetReplace(k, v) ==
    /\ Idle /\ Present(k)
    /\ LET e == Prepared(k, v)
       IN  /\ entries' = [entries EXCEPT ![IndexOf(k)] = e]
           /\ clones' = Dropped(Cloned(clones, e), entries[IndexOf(k)])
    /\ Return("OK")
    /\ UNCHANGED <<config, hash, index>>

SetAppend(k, v) ==
    /\ Idle /\ ~Present(k) /\ ~Full
    /\ clones' = Cloned(clones, Prepared(k, v))
    /\ AppendEntry(Prepared(k, v))

SetGrows(k, v) ==
    /\ Idle /\ ~Present(k) /\ Full
    /\ clones' = Cloned(clones, Prepared(k, v))
    /\ StartGrowth(Len(entries) + 1, <<Prepared(k, v)>>)

SetGrown ==
    /\ pc = "fill" /\ cursor > Len(entries) /\ pending # <<>>
    /\ AppendEntry(pending[1])
    /\ UNCHANGED clones

\* The header of a new map, the copy of the entry or the clone fails.
SetUnprepared ==
    /\ Idle /\ config \in {"null", "owning"}
    /\ Return("FAILED")
    /\ UNCHANGED <<config, hash, entries, index, clones>>

\* The growth fails: the copy is dropped, and a map this call created is
\* released again.
SetUngrown(k, v) ==
    /\ Idle /\ ~Present(k) /\ Full
    /\ clones' = DropPrepared(Prepared(k, v))
    /\ Return("FAILED")
    /\ UNCHANGED <<config, hash, entries, index>>
----------------------------------------------------------------------------
\* lor_map_find_raw.
Find(k) ==
    /\ Idle
    /\ Return(IF Present(k) THEN entries[IndexOf(k)].value ELSE "ABSENT")
    /\ UNCHANGED <<config, hash, entries, index, clones>>

(* lor_map_remove_raw; the loop is that of lor_map__erase_bucket.           *)

RemoveAbsent(k) ==
    /\ Idle /\ ~Present(k)
    /\ Return("ABSENT")
    /\ UNCHANGED <<config, hash, entries, index, clones>>

Remove(k) ==
    /\ Idle /\ Present(k)
    /\ pc' = "erase"
    /\ hole' = Bucket(k) /\ doomed' = IndexOf(k)
    /\ cursor' = (Bucket(k) + 1) % bucket_capacity
    /\ UNCHANGED <<config, hash, entries, index, clones, pending, result>>

\* Whether the entry of the bucket at the cursor has passed over the hole.
PassedHole ==
    LET ideal == BucketFor(entries[buckets[cursor]].key)
    IN  ProbeDistance(ideal, cursor) > ProbeDistance(ideal, hole)

EraseStep ==
    /\ pc = "erase" /\ buckets[cursor] # 0
    /\ IF PassedHole
       THEN buckets' = [buckets EXCEPT ![hole] = buckets[cursor]] /\ hole' = cursor
       ELSE UNCHANGED <<buckets, hole>>
    /\ cursor' = (cursor + 1) % bucket_capacity
    /\ UNCHANGED <<config, hash, entries, capacity, bucket_capacity, clones, pc, doomed,
                   pending, result>>

\* The last dense entry takes the place of the removed one, and the bucket
\* that names it, found by its key, follows.
RemoveDone ==
    /\ pc = "erase" /\ buckets[cursor] = 0
    /\ LET last == Len(entries)
           erased == [buckets EXCEPT ![hole] = 0]
           moved == [entries EXCEPT ![doomed] = entries[last]]
           moved_bucket == FindBucket(erased, moved, moved[doomed].key)
       IN  /\ buckets' = IF doomed # last /\ moved_bucket # NoBucket
                         THEN [erased EXCEPT ![moved_bucket] = doomed] ELSE erased
           /\ entries' = SubSeq(moved, 1, last - 1)
    /\ clones' = Dropped(clones, entries[doomed])
    /\ Return("OK")
    /\ UNCHANGED <<config, hash, capacity, bucket_capacity>>
----------------------------------------------------------------------------
\* lor_map_clear and lor_map_deinit.
Clear ==
    /\ Idle
    /\ entries' = <<>>
    /\ buckets' = [b \in DOMAIN buckets |-> 0]
    /\ clones' = DroppedAll
    /\ Return("OK")
    /\ UNCHANGED <<config, hash, capacity, bucket_capacity>>

Deinit ==
    /\ Idle
    /\ config' = "null"
    /\ entries' = <<>> /\ capacity' = 0
    /\ buckets' = [b \in {} |-> 0] /\ bucket_capacity' = 0
    /\ clones' = DroppedAll
    /\ Return("OK")
    /\ UNCHANGED hash

Step == FillStep \/ ReserveDone \/ SetGrown \/ EraseStep \/ RemoveDone

Next ==
    \/ Step \/ InitFails \/ SetUnprepared \/ Clear \/ Deinit
    \/ \E c \in {"bytes", "owning"} : InitRaw(c)
    \/ \E n \in 0 .. MaxReserve : Reserve(n) \/ ReserveEnough(n) \/ ReserveFails(n)
    \/ \E k \in Keys : Find(k) \/ RemoveAbsent(k) \/ Remove(k)
    \/ \E k \in Keys, v \in Values :
           SetReplace(k, v) \/ SetAppend(k, v) \/ SetGrows(k, v) \/ SetUngrown(k, v)

Spec == Init /\ [][Next]_vars
----------------------------------------------------------------------------
Buckets == 0 .. bucket_capacity - 1

\* The type invariant: an index that is there has more buckets than the
\* entries it was sized for.
TypeOK ==
    /\ config \in {"null", "bytes", "owning"}
    /\ hash \in [Keys -> Hashes]
    /\ entries \in Seq(Entries) /\ Len(entries) <= capacity
    /\ capacity \in Nat /\ bucket_capacity \in Nat
    /\ bucket_capacity >= capacity
    /\ bucket_capacity = 0 <=> capacity = 0
    /\ buckets \in [Buckets -> Nat]
    /\ clones \in [Keys -> [Copies -> Int]]
    /\ pc \in {"idle", "fill", "erase"}
    /\ cursor \in Nat /\ hole \in Nat /\ doomed \in Nat
    /\ pending \in Seq(Entries) /\ Len(pending) <= 1
    /\ pc # "idle" => bucket_capacity > 0
    /\ pc = "fill" => cursor \in 1 .. Len(entries) + 1
    /\ pc = "erase" => cursor \in Buckets /\ hole \in Buckets
                       /\ doomed \in 1 .. Len(entries)
    /\ result \in Values \cup {"OK", "FAILED", "ABSENT"}

\* Between calls buckets and dense entries correspond one to one, and a lookup
\* by an entry's key reaches exactly the bucket that names it: no removal leaves
\* a gap in a probe sequence or a bucket that was shifted at its old place, no
\* rebuild or move of the dense array leaves a bucket that names another entry
\* or none, and no key is stored twice.
LookupExact ==
    Idle => /\ \A b \in Buckets :
                  buckets[b] # 0 => /\ buckets[b] <= Len(entries)
                                    /\ Bucket(entries[buckets[b]].key) = b
            /\ \A i \in 1 .. Len(entries) :
                  Present(entries[i].key) /\ IndexOf(entries[i].key) = i

\* Every probe ends, in the middle of a rebuild or a shift too: the index never
\* fills up, so that the unbounded loops over the buckets meet an empty one.
ProbeEnds == bucket_capacity > 0 => \E b \in Buckets : buckets[b] = 0

\* Every copy the map made of a key and did not store or no longer stores was
\* dropped exactly once, whatever failed: the live copies are those of the
\* entries, and of the entry that waits for the rebuild.
CopiesBalanced ==
    \A k \in Keys, c \in Copies :
        clones[k][c] = IF Owns THEN Holders(entries \o pending, k, c) ELSE 0

\* The map behaves as a dictionary; its bindings are the dense entries, while
\* the answers of find, set and remove come from the index.
KeyOf(i) == entries[i].key
BoundKeys == {KeyOf(i) : i \in DOMAIN entries}
Bound(k) == entries[CHOOSE i \in DOMAIN entries : KeyOf(i) = k].value
Dict == INSTANCE Dictionary WITH dict <- [k \in BoundKeys |-> Bound(k)]
ImplementsDictionary == Dict!Spec
=============================================================================

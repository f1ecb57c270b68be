------------------------------ MODULE MapKeys ------------------------------
(***************************************************************************)
(* The keys of src/map.c: the policies a map comes with (plain bytes, and  *)
(* string views that are borrowed or owned), as far down as the bytes they *)
(* compare, hash, copy and free. Module HashMap takes equality and the     *)
(* hash of a key for given and has the index; here the map is the bag of   *)
(* its stored keys, and a lookup finds what has the same hash and is equal.*)
(*                                                                         *)
(* The caller keeps its texts in Buffers, and may rewrite a buffer at any  *)
(* time unless the map borrows from it. An owned copy lives at a place     *)
(* that malloc picks from Heap.                                            *)
(***************************************************************************)
EXTENDS Integers, Sequences, FiniteSets

CONSTANTS
    Buffers, Heap,  \* addresses, numbers other than 0
    Texts,          \* what a buffer may hold: sequences of bytes, numbers
    LongestText,    \* the size of the longest
    Bits,           \* bits of a hash
    Basis, Prime,   \* the constants of the hash function
    MaxKeys         \* bound: keys stored

ASSUME KeyAssumption ==
    /\ Buffers \cap Heap = {} /\ 0 \notin Buffers \cup Heap
    /\ Texts \subseteq Seq(Nat) /\ LongestText \in Nat

VARIABLES
    policy,     \* LorMapConfig
    memory,     \* the text at each place
    allocated,  \* the places malloc has given out
    keys,       \* the stored keys, each with the text it was stored for (history)
    keyStatus   \* what the last call returned

keyVars == <<policy, memory, allocated, keys, keyStatus>>

NullPlace == 0
View(place, size) == [place |-> place, size |-> size]
EmptyView == View(NullPlace, 0)
----------------------------------------------------------------------------
(* The policies: which callbacks are set.                                   *)

NoFn == "NULL"
ConfigBytes == [hash |-> NoFn, equal |-> NoFn, valid |-> NoFn, clone |-> NoFn, drop |-> NoFn]

\* lor_map_config_string_view; a wrong ownership is made an invalid configuration.
ConfigStringView(ownership) ==
    LET borrowed == [ConfigBytes EXCEPT !.hash = "view", !.equal = "view", !.valid = "view"]
    IN CASE ownership = "owned" -> [borrowed EXCEPT !.clone = "view", !.drop = "view"]
         [] ownership = "borrowed" -> borrowed
         [] OTHER -> [borrowed EXCEPT !.equal = NoFn]

\* lor_map__config_valid.
ConfigValid(c) ==
    /\ (c.hash = NoFn) = (c.equal = NoFn)
    /\ (c.clone = NoFn) = (c.drop = NoFn)

ByText == policy.equal = "view"
Owning == policy.clone = "view"
----------------------------------------------------------------------------
(* The callbacks.                                                           *)

\* lor_sv_is_valid.
IsValid(view) == view.place # NullPlace \/ view.size = 0

BytesOf(view) == IF view.place = NullPlace THEN << >> ELSE SubSeq(memory[view.place], 1, view.size)

\* hash ^= bytes[i], bit by bit.
Xor(hash, byte) ==
    LET Bit(n, k) == (n \div 2 ^ k) % 2
        X[k \in 0 .. Bits] ==
          IF k = 0 THEN 0
          ELSE X[k - 1] + 2 ^ (k - 1) * ((Bit(hash, k - 1) + Bit(byte, k - 1)) % 2)
    IN X[Bits]

\* lor_map__hash_bytes.
HashBytes(text) ==
    LET H[n \in 0 .. Len(text)] ==
          IF n = 0 THEN Basis ELSE (Xor(H[n - 1], text[n]) * Prime) % 2 ^ Bits
    IN H[Len(text)]

\* The bytes of a view itself, which say where the text is.
Representation(view) == <<view.place, view.size>>

\* Mutant: the view is hashed like a key of plain bytes.
HashRepresentation(view) == HashBytes(Representation(view))

\* lor_map__hash.
Hash(view) == HashBytes(IF ByText THEN BytesOf(view) ELSE Representation(view))

\* lor_map__equal: lor_map__sv_equal, or memcmp of the two views.
Equal(a, b) ==
    IF ByText THEN IsValid(a) /\ IsValid(b) /\ a.size = b.size /\ BytesOf(a) = BytesOf(b)
    ELSE a = b

\* lor_map__key_valid.
KeyValid(view) == policy.valid = NoFn \/ IsValid(view)

\* The stored keys a lookup may stop at.
Found(view) == {k \in keys : Hash(k.view) = Hash(view) /\ Equal(k.view, view)}

\* lor_map__sv_clone, or no clone callback: the key that is stored, and the memory then.
Cloned(view) ==
    IF ~Owning THEN {[view |-> view, memory |-> memory]}
    ELSE IF view.size = 0 THEN {[view |-> EmptyView, memory |-> memory]}
    ELSE {[view |-> View(p, view.size), memory |-> [memory EXCEPT ![p] = BytesOf(view)]] :
             p \in Heap \ allocated}

\* What a stored key owns: lor_map__sv_drop gives it to free, which takes a null pointer too.
CopyPlace(view) == IF Owning THEN {view.place} \ {NullPlace} ELSE {}
Owned(some) == UNION {CopyPlace(k.view) : k \in some}

\* Mutant: the text of the old key stays allocated.
DropsNothing(some, places) == places

\* The places allocated when lor_map__sv_drop was called for some of the keys.
DropKeys(some, places) == places \ Owned(some)

\* The contents of memory that was freed are of no interest.
Wiped(m, places) == [p \in DOMAIN m |-> IF p \in Heap \ places THEN << >> ELSE m[p]]
----------------------------------------------------------------------------
KeyInit ==
    /\ policy = ConfigBytes
    /\ memory = [p \in Buffers \cup Heap |-> << >>]
    /\ allocated = {} /\ keys = {} /\ keyStatus = "OK"

\* The views a caller may pass: parts of its buffers, a null pointer, and an invalid view.
CallerViews ==
    {View(b, n) : b \in Buffers, n \in 0 .. LongestText} \cup {EmptyView, View(NullPlace, 1)}
Passed == {v \in CallerViews : v.place = NullPlace \/ v.size <= Len(memory[v.place])}

\* lor_map_init_raw of an empty map, or it refuses the configuration.
InitMap(ownership) ==
    /\ keys = {}
    /\ LET c == IF ownership = "bytes" THEN ConfigBytes ELSE ConfigStringView(ownership)
       IN IF ConfigValid(c) THEN policy' = c /\ keyStatus' = "OK"
          ELSE keyStatus' = "INVALID_ARGUMENT" /\ UNCHANGED policy
    /\ UNCHANGED <<memory, allocated, keys>>

\* lor_map_set_raw: the new key takes the place of an equal one.
Store(view) ==
    /\ IF ~KeyValid(view)
       THEN keyStatus' = "INVALID_ARGUMENT" /\ UNCHANGED <<memory, allocated, keys>>
       ELSE \E old \in IF Found(view) = {} THEN {{}} ELSE {{k} : k \in Found(view)} :
              /\ old # {} \/ Cardinality(keys) < MaxKeys
              /\ \E copy \in Cloned(view) :
                    /\ keys' = (keys \ old) \cup {[view |-> copy.view, text |-> BytesOf(view)]}
                    /\ allocated' = DropKeys(old, allocated) \cup CopyPlace(copy.view)
                    /\ memory' = Wiped(copy.memory, allocated')
              /\ keyStatus' = "OK"
    /\ UNCHANGED policy

\* malloc fails in lor_map__sv_clone.
StoreFails(view) ==
    /\ KeyValid(view) /\ Owning /\ view.size # 0
    /\ keyStatus' = "OUT_OF_MEMORY"
    /\ UNCHANGED <<policy, memory, allocated, keys>>

\* lor_map_remove_raw; lor_map_find_raw and lor_map_contains_raw only look.
Remove(view) ==
    /\ KeyValid(view)
    /\ \E k \in Found(view) :
          /\ keys' = keys \ {k}
          /\ allocated' = DropKeys({k}, allocated)
    /\ memory' = Wiped(memory, allocated')
    /\ keyStatus' = "OK"
    /\ UNCHANGED policy

\* lor_map_clear.
ClearKeys ==
    /\ keys # {}
    /\ keys' = {}
    /\ allocated' = DropKeys(keys, allocated)
    /\ memory' = Wiped(memory, allocated')
    /\ keyStatus' = "OK"
    /\ UNCHANGED policy

\* The caller writes another text into a buffer that no stored key points to.
Rewrite(b, text) ==
    /\ \A k \in keys : k.view.place # b
    /\ memory' = [memory EXCEPT ![b] = text]
    /\ UNCHANGED <<policy, allocated, keys, keyStatus>>

KeyNext ==
    \/ \E o \in {"bytes", "borrowed", "owned", "other"} : InitMap(o)
    \/ \E v \in Passed : Store(v) \/ StoreFails(v) \/ Remove(v)
    \/ ClearKeys
    \/ \E b \in Buffers, text \in Texts : Rewrite(b, text)

KeySpec == KeyInit /\ [][KeyNext]_keyVars
----------------------------------------------------------------------------
(* Properties.                                                              *)

\* A lookup with any valid view finds exactly the key stored for the same text, wherever
\* the two texts are in memory and whether an empty one has a pointer or not; with plain
\* bytes, the key stored as the same view. No text is stored twice.
LookupByText ==
    \A v \in {p \in Passed : IsValid(p)} :
        LET same == {k \in keys : IF ByText THEN k.text = BytesOf(v) ELSE k.view = v}
        IN Found(v) = same /\ Cardinality(same) <= 1

\* A stored key has kept its text, whatever the caller has written since, and what the
\* map has allocated is the copies of the stored keys, one each: a key that was replaced,
\* removed or refused leaves nothing behind.
KeysKept ==
    /\ \A k \in keys : k.view.place \in Buffers \cup allocated \cup {NullPlace}
                       /\ (ByText => BytesOf(k.view) = k.text)
    /\ allocated = Owned(keys)
    /\ Cardinality(Owned(keys)) = Cardinality({k \in keys : Owning /\ k.text # << >>})

\* Keys under any policy a map comes with are found by what the policy compares, keep their
\* text and their one copy (lor_map__sv_hash, lor_map__sv_equal, lor_map__sv_clone,
\* lor_map__sv_drop; map.h: "Owned maps copy each key's bytes and release them").
KeysSound == KeysKept /\ LookupByText
=============================================================================

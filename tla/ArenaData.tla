----------------------------- MODULE ArenaData -----------------------------
(***************************************************************************)
(* The bytes an arena of src/memory.c hands out: zero-filled memory,       *)
(* arrays whose size may not fit into a size_t, and copies of strings.     *)
(* Where an allocation lies is the subject of module Arena; here it is the *)
(* next part of one block, which holds whatever was last written there.    *)
(***************************************************************************)
EXTENDS Integers, Sequences

CONSTANTS
    MemorySizeMax,     \* SIZE_MAX
    BlockSize,         \* bytes of the block
    Sizes,             \* sizes, counts and element sizes a caller asks for
    Strings,           \* strings it copies: sequences of bytes other than 0
    MaxRegions         \* bound: live allocations

ASSUME DataAssumption ==
    /\ MemorySizeMax \in Nat /\ BlockSize \in Nat
    /\ Sizes \subseteq Nat /\ Strings \subseteq Seq(Nat)

VARIABLES
    block,    \* its bytes
    used,     \* LorArenaBlock.used
    regions   \* history: live allocations, with the size the caller may use of each and
              \* what it expects to find there

dataVars == <<block, used, regions>>

\* A byte of memory nobody has written; the n-th live allocation is filled with Own(n).
Unwritten == -1
Own(n) == 100 + n

\* Mutant: the product is tested after it was cut off.
MulOverflowsLate(a, b) == b # 0 /\ (a * b) % (MemorySizeMax + 1) < a

\* lor_memory__mul_overflows_size.
MulOverflows(a, b) == b # 0 /\ a > MemorySizeMax \div b

\* An unsigned product.
Product(a, b) == (a * b) % (MemorySizeMax + 1)

\* Bytes are written from a place on; beyond the block they are somebody else's memory.
Written(b, from, new) ==
    [k \in 1 .. BlockSize |->
        IF k > from /\ k <= from + Len(new) THEN new[k - from] ELSE block[k]]
Read(b, from, size) ==
    [k \in 1 .. size |-> IF from + k <= BlockSize THEN b[from + k] ELSE Unwritten]
Zeros(size) == [k \in 1 .. size |-> 0]

\* A successful lor_arena__alloc_aligned of size bytes, of which the function writes some
\* at once. The caller may use as many as usable, and expects something in them.
Allocates(size, new, usable, expects) ==
    /\ size > 0 /\ used + size <= BlockSize /\ Len(regions) < MaxRegions
    /\ used' = used + size
    /\ block' = Written(block, used, new)
    /\ regions' = Append(regions, [from |-> used, size |-> usable, holds |-> expects])
----------------------------------------------------------------------------
DataInit ==
    /\ block = [k \in 1 .. BlockSize |-> Unwritten]
    /\ used = 0
    /\ regions = << >>

\* lor_arena_alloc; without memory it returns NULL, which leaves everything as it was.
Alloc(size) == Allocates(size, << >>, size, Read(block, used, size))

\* lor_arena_alloc_zero.
AllocZero(size) == Allocates(size, Zeros(size), size, Zeros(size))

\* lor_arena_alloc_array.
AllocArray(count, size) ==
    /\ count # 0 /\ size # 0 /\ ~MulOverflows(count, size)
    /\ Allocates(Product(count, size), << >>, count * size, Read(block, used, count * size))

\* lor_arena_alloc_array_zero.
AllocArrayZero(count, size) ==
    /\ count # 0 /\ size # 0 /\ ~MulOverflows(count, size)
    /\ Allocates(Product(count, size), Zeros(Product(count, size)), count * size,
                 Zeros(count * size))

\* Mutant: memory for the text without the NUL.
CopySizeOfText(text) == Len(text)

\* The memory lor_arena__strdup_at asks for.
CopySize(text) == Len(text) + 1

\* lor_arena_strdup.
Strdup(text) ==
    /\ Len(text) # MemorySizeMax
    /\ Allocates(CopySize(text), Append(text, 0), Len(text) + 1, Append(text, 0))

\* The caller writes all it may use of an allocation.
Fill(n) ==
    LET new == [k \in 1 .. regions[n].size |-> Own(n)]
    IN /\ block' = Written(block, regions[n].from, new)
       /\ regions' = [regions EXCEPT ![n].holds = new]
       /\ UNCHANGED used

\* lor_arena_rewind to the mark behind the first n allocations; the bytes stay.
RewindTo(n) ==
    /\ n < Len(regions)
    /\ used' = regions[n + 1].from
    /\ regions' = SubSeq(regions, 1, n)
    /\ UNCHANGED block

DataNext ==
    \/ \E size \in Sizes : Alloc(size) \/ AllocZero(size)
    \/ \E count, size \in Sizes : AllocArray(count, size) \/ AllocArrayZero(count, size)
    \/ \E text \in Strings : Strdup(text)
    \/ \E n \in DOMAIN regions : Fill(n) \/ RewindTo(n)

DataSpec == DataInit /\ [][DataNext]_dataVars
----------------------------------------------------------------------------
\* An allocation has room for everything its caller may write, all elements of an array,
\* however large their product is, and the NUL of a copy; it holds what was promised and
\* later what the caller wrote, zeros also where memory was in use before, whatever is done
\* with the other allocations (memory.h: "Returns `NULL` for zero counts, zero element
\* sizes, or size overflow").
HelperExact ==
    \A n \in DOMAIN regions :
        LET r == regions[n]
            end == IF n < Len(regions) THEN regions[n + 1].from ELSE used
        IN r.from + r.size <= end /\ Read(block, r.from, r.size) = r.holds
=============================================================================

------------------------------- MODULE Array -------------------------------
(***************************************************************************)
(* The dynamic array of src/array.c: a handle that is NULL or points       *)
(* behind a header into a heap block, which moves when it grows. Blocks    *)
(* are those of LeakCheck, from which array.c allocates in a LOR_LEAKCHECK *)
(* build, and move and fail as they do there.                              *)
(*                                                                         *)
(* A cell stands for an element; the header lies outside the cells. The    *)
(* source of an append or insert is a pointer: into the caller's own       *)
(* memory, or to a place in the array's block.                             *)
(***************************************************************************)
EXTENDS LeakCheck

CONSTANTS
    Values,       \* elements
    MinCapacity,  \* 8u of lor_array__growth_capacity
    MaxElements,  \* the most elements whose bytes a size_t can count
    MaxGiven,     \* bound: elements given to one call
    MaxOthers     \* bound: resources the rest of the program holds

ASSUME ArrayAssumption ==
    /\ MinCapacity \in Nat \ {0} /\ MaxElements \in Nat
    /\ MaxGiven \in Nat /\ MaxOthers \in Nat
    /\ Junk \notin Values

VARIABLES
    array,     \* the handle: Null, or the address of the block
    size,      \* header.size
    capacity,  \* header.capacity
    call       \* the last call, see Vector

arrayVars == <<memory, array, size, capacity, call>>

Cells == Values \cup {Zero}
Givens == UNION {[1 .. n -> Values] : n \in 1 .. MaxGiven}

\* The cells of a block: nothing, or junk, is there once it was released.
CellsAt(m, p) == IF p = Null THEN << >> ELSE m.blocks[p]
ReadCells(m, p, offset, n) ==
    LET cells == CellsAt(m, p)
    IN [i \in 1 .. n |-> IF offset + i <= Len(cells) THEN cells[offset + i] ELSE Junk]

\* memmove or memcpy of cells to a place behind the first offset of block p.
Write(m, p, offset, cells) ==
    [m EXCEPT !.blocks[p] =
        [i \in DOMAIN @ |-> IF i - offset \in DOMAIN cells THEN cells[i - offset] ELSE @[i]]]

\* What lies behind the first n cells of block p is not used again.
Cut(m, p, n) ==
    IF p = Null THEN m
    ELSE [m EXCEPT !.blocks[p] = [i \in DOMAIN @ |-> IF i <= n THEN @[i] ELSE Junk]]

Contents == ReadCells(memory, array, 0, size)

Returned(op, index, given, taken, status) ==
    call' = [op |-> op, index |-> index, given |-> given, taken |-> taken,
             status |-> status]

Untouched == UNCHANGED <<memory, array, size, capacity>>
----------------------------------------------------------------------------
(* Growth.                                                                  *)

\* lor_array__growth_capacity: MinCapacity or the current capacity, doubled
\* until the required capacity fits, or that capacity itself if a doubling on
\* the way does not fit a size_t: the one member of this set.
Growth(current, required) ==
    LET first == IF current < MinCapacity THEN MinCapacity ELSE current
        reached == {n \in required .. first + 2 * required :
                       /\ \E i \in 0 .. required : n = first * 2^i
                       /\ n = first \/ (n < 2 * required /\ n \div 2 <= MaxElements \div 2)}
    IN IF reached = {} THEN {required} ELSE reached

\* lor_array_reserve_raw in memory m: the outcomes, with the handle, the
\* capacity and the status after it.
Unreserved(m, status) == [m |-> m, array |-> array, capacity |-> capacity, status |-> status]
Reserve(m, required) ==
    IF required <= capacity THEN {Unreserved(m, "OK")}
    ELSE UNION {IF grown > MaxElements THEN {Unreserved(m, "OVERFLOW")}
                ELSE {IF o.p = Null THEN Unreserved(m, "OUT_OF_MEMORY")
                      ELSE [m |-> o.m, array |-> o.p, capacity |-> grown, status |-> "OK"]
                      : o \in Reallocs(m, array, grown)}
                : grown \in Growth(capacity, required)}

ReserveCall(n) ==
    \E o \in Reserve(memory, n) :
        /\ memory' = o.m /\ array' = o.array /\ capacity' = o.capacity
        /\ Returned("reserve", n, << >>, << >>, o.status)
        /\ UNCHANGED size

\* lor_array_resize_raw; a smaller size keeps the storage.
Resize(n) ==
    \E o \in IF n > size THEN Reserve(memory, n) ELSE {Unreserved(memory, "OK")} :
        /\ Returned("resize", n, <<Zero>>, << >>, o.status)
        /\ array' = o.array /\ capacity' = o.capacity
        /\ IF o.status = "OK"
           THEN /\ memory' = IF n > size
                             THEN Write(o.m, o.array, size, Filled(n - size, Zero))
                             ELSE Cut(o.m, o.array, n)
                /\ size' = IF o.array = Null THEN 0 ELSE n
           ELSE memory' = o.m /\ UNCHANGED size

----------------------------------------------------------------------------
(* Sources. A source in the array is [offset, n], one outside is given.     *)

Inside == {[offset |-> o, n |-> n] : o \in 0 .. capacity, n \in 1 .. MaxGiven}

\* lor_array__source_offset: all of the source lies in initialized elements.
Alias(s) == s.offset <= size /\ s.n <= size - s.offset

\* A source in the block that is no alias is refused.
Refused(op, index) ==
    /\ array # Null
    /\ \E s \in Inside : ~Alias(s)
    /\ Returned(op, index, << >>, << >>, "INVALID_ARGUMENT")
    /\ Untouched

----------------------------------------------------------------------------
(* lor_array_append_raw, and append_array with its own array as the source. *)

\* The place of a source in the caller's own memory.
Outside == -1

\* Mutant: the source is read where the array was before it grew.
SourceStale(o, given, offset) ==
    IF offset = Outside THEN given ELSE ReadCells(o.m, array, offset, Len(given))

\* What the source holds once the array has room: one in the array moves with it.
SourceMoved(o, given, offset) ==
    IF offset = Outside THEN given ELSE ReadCells(o.m, o.array, offset, Len(given))

\* given is what the source held when the call was made.
AppendFrom(given, offset) ==
    \E o \in Reserve(memory, size + Len(given)) :
        /\ Returned("append", 0, given, << >>, o.status)
        /\ array' = o.array /\ capacity' = o.capacity
        /\ IF o.status = "OK"
           THEN /\ memory' = Write(o.m, o.array, size, SourceMoved(o, given, offset))
                /\ size' = size + Len(given)
           ELSE memory' = o.m /\ UNCHANGED size

Append_(given) == AppendFrom(given, Outside)

AppendSelf(s) == Alias(s) /\ AppendFrom(ReadCells(memory, array, s.offset, s.n), s.offset)

----------------------------------------------------------------------------
(* lor_array_insert_raw.                                                    *)

\* The tail moves up, the elements go in, the copy of the source is released.
Inserted(o, index, given, cells, copy) ==
    LET up == Write(o.m, o.array, index + Len(given),
                    ReadCells(o.m, o.array, index, size - index))
    IN Freed(Write(up, o.array, index, cells), copy)

\* Mutant: the way out after a failed reserve forgets the copy.
FailedKeepsCopy(o, copy) == o.m

\* There is no room: the copy is released.
FailedInsert(o, copy) == Freed(o.m, copy)

\* In memory m, with the elements in the block copy, or given by the caller.
InsertFrom(m, index, given, copy) ==
    \E o \in Reserve(m, size + Len(given)) :
        /\ Returned("insert", index, given, << >>, o.status)
        /\ array' = o.array /\ capacity' = o.capacity
        /\ IF o.status = "OK"
           THEN LET cells == IF copy = Null THEN given
                             ELSE ReadCells(o.m, copy, 0, Len(given))
                IN /\ memory' = Inserted(o, index, given, cells, copy)
                   /\ size' = size + Len(given)
           ELSE memory' = FailedInsert(o, copy) /\ UNCHANGED size

Insert(index, given) == InsertFrom(memory, index, given, Null)

\* The source is an alias: it is copied before anything moves.
InsertSelf(index, s) ==
    LET given == ReadCells(memory, array, s.offset, s.n)
    IN /\ Alias(s)
       /\ \E c \in Reallocs(memory, Null, s.n) :
             IF c.p = Null
             THEN /\ Returned("insert", index, given, << >>, "OUT_OF_MEMORY")
                  /\ Untouched
             ELSE InsertFrom(Write(c.m, c.p, 0, given), index, given, c.p)

----------------------------------------------------------------------------
(* Shrinking, and the end.                                                  *)

\* lor_array_shrink_to_fit_raw.
ShrinkNothing ==
    /\ array = Null \/ size = capacity
    /\ Returned("shrink", 0, << >>, << >>, "OK")
    /\ Untouched

Release(op) ==
    /\ memory' = Freed(memory, array)
    /\ array' = Null /\ capacity' = 0 /\ size' = 0
    /\ Returned(op, 0, << >>, << >>, "OK")

ShrinkEmpty == array # Null /\ size = 0 /\ size # capacity /\ Release("shrink")

Shrink ==
    /\ array # Null /\ size # 0 /\ size # capacity
    /\ \E o \in Reallocs(memory, array, size) :
          IF o.p = Null
          THEN /\ Returned("shrink", 0, << >>, << >>, "OUT_OF_MEMORY")
               /\ Untouched
          ELSE /\ Returned("shrink", 0, << >>, << >>, "OK")
               /\ memory' = o.m /\ array' = o.p /\ capacity' = size
               /\ UNCHANGED size

\* lor_array_deinit.
Deinit == Release("deinit")

----------------------------------------------------------------------------
(* Removal: the storage stays.                                              *)

\* The cells behind the first index become those, and size shrinks by n.
Close(op, index, n, given, taken, cells) ==
    /\ memory' = Cut(Write(memory, array, index, cells), array, size - n)
    /\ size' = size - n
    /\ Returned(op, index, given, taken, "OK")
    /\ UNCHANGED <<array, capacity>>

Clear ==
    /\ size' = 0
    /\ memory' = Cut(memory, array, 0)
    /\ Returned("clear", 0, << >>, << >>, "OK")
    /\ UNCHANGED <<array, capacity>>

Pop ==
    /\ size # 0
    /\ Close("pop", size - 1, 1, << >>, <<Contents[size]>>, << >>)

\* What follows a range of n elements behind the first index.
Tail_(index, n) == ReadCells(memory, array, index + n, size - index - n)

Remove(index) ==
    /\ index < size
    /\ Close("remove", index, 1, << >>, <<Contents[index + 1]>>, Tail_(index, 1))

RemoveRange(index, n) ==
    /\ index <= size /\ n <= size - index
    /\ Close("remove_range", index, n, Filled(n, Zero), << >>, Tail_(index, n))

RemoveUnordered(index) ==
    /\ index < size
    /\ Close("remove_unordered", index, 1, << >>, <<Contents[index + 1]>>,
             <<Contents[size]>>)

\* An index out of range.
Missed(op) ==
    /\ op \in {"pop", "remove"}
    /\ op = "pop" => size = 0
    /\ Returned(op, size, << >>, << >>, "MISSING")
    /\ Untouched

----------------------------------------------------------------------------
Init ==
    /\ LeakInit
    /\ array = Null /\ size = 0 /\ capacity = 0
    /\ call = [op |-> "clear", index |-> 0, given |-> << >>, taken |-> << >>,
               status |-> "OK"]

ArrayNext ==
    \/ \E n \in 0 .. MaxElements : ReserveCall(n) \/ Resize(n)
    \/ \E given \in Givens : Append_(given) \/ \E i \in 0 .. size : Insert(i, given)
    \/ \E s \in Inside : AppendSelf(s) \/ \E i \in 0 .. size : InsertSelf(i, s)
    \/ Refused("append", 0) \/ \E i \in 0 .. size : Refused("insert", i)
    \/ ShrinkNothing \/ ShrinkEmpty \/ Shrink \/ Deinit \/ Clear \/ Pop
    \/ \E i \in 0 .. size :
          Remove(i) \/ RemoveUnordered(i) \/ \E n \in 0 .. size : RemoveRange(i, n)
    \/ \E op \in {"pop", "remove"} : Missed(op)

\* The rest of the program uses the heap for blocks of its own.
Others == {a \in Addresses : memory.blocks[a] # << >>} \ {array}
Held == {r \in Live(memory) : r.ptr # array}
OtherNext ==
    /\ \/ \E n \in 1 .. MaxBlock : Malloc(n) \/ Calloc(n)
       \/ \E p \in Others : Free(p) \/ InitArena(p) \/ DeinitArena(p)
                            \/ \E n \in 0 .. MaxBlock : Realloc(p, n)
       \/ \E p \in Addresses : MmapUnmap(p) \/ \E n \in 1 .. MaxBlock : MmapFile(p, n)
    /\ UNCHANGED <<array, size, capacity, call>>
    /\ Cardinality(Held') <= MaxOthers

Next == ArrayNext \/ OtherNext

Spec == Init /\ [][Next]_arrayVars
----------------------------------------------------------------------------
(* Properties.                                                              *)

\* The array is the sequence that array.h promises, wherever its block moves
\* to, from whichever place of the array itself elements are appended or
\* inserted, and if memory or size_t runs out in any step of a call.
Abstract == INSTANCE Vector WITH contents <- Contents
ImplementsVector == Abstract!Spec

\* A call of the array leaves behind no block but the array's: the copy that
\* insert makes of a source in the array is released on each of its ways out.
NothingLeaked ==
    [][Held' # Held => ~ArrayNext]_arrayVars

=============================================================================

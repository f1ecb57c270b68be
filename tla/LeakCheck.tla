----------------------------- MODULE LeakCheck -----------------------------
(***************************************************************************)
(* Heap, file mappings and the leak records of src/memory.c in a build     *)
(* with LOR_LEAKCHECK: lor_malloc_debug and its relatives, the tracking of *)
(* arenas, and of mapped files.                                            *)
(*                                                                         *)
(* The functions are operators on a record m of memory, so that a caller   *)
(* that allocates several times in one call (Array) can chain them: each   *)
(* gives the set of outcomes [m |-> memory after, p |-> pointer], a failed *)
(* allocation being one of them. The list of records is a set: its order   *)
(* only decides the order of a report.                                     *)
(***************************************************************************)
EXTENDS Integers, Sequences, FiniteSets

CONSTANTS
    Addresses,  \* where a heap block or a mapping may start
    Null,
    MaxBlock    \* bound: cells in a block that the program asks for

ASSUME LeakAssumption == Null \notin Addresses /\ MaxBlock \in Nat

VARIABLE
    memory  \* blocks: the cells of the heap block at each address, or no cells;
            \* maps: the length of the mapping at each address, or 0;
            \* arenas: the addresses of the initialized LorArena structures;
            \* records: the list lor_memory__leaks;
            \* lost: history: resources whose record could not be allocated

Junk == "junk"  \* a cell that was not written
Zero == "zero"

Kinds == {"heap", "arena", "mmap"}
Record(kind, p, n) == [kind |-> kind, ptr |-> p, size |-> n]
Resource(r) == <<r.kind, r.ptr>>

Empty == [blocks |-> [a \in Addresses |-> << >>], maps |-> [a \in Addresses |-> 0],
          arenas |-> {}, records |-> {}, lost |-> {}]

Unused(m) == {a \in Addresses : m.blocks[a] = << >> /\ m.maps[a] = 0}
Filled(n, cell) == [i \in 1 .. n |-> cell]
----------------------------------------------------------------------------
(* The list of records.                                                     *)

\* lor_leak__find.
Find(m, kind, p) == {r \in m.records : r.ptr = p /\ r.kind = kind}

\* lor_leak__track: without memory for a record the resource is not tracked.
Track(m, kind, p, n) ==
    {[m EXCEPT !.records = @ \cup {Record(kind, p, n)}],
     [m EXCEPT !.lost = @ \cup {<<kind, p>>}]}

\* lor_leak__untrack; Find finds at most one.
Untrack(m, kind, p) ==
    [m EXCEPT !.records = @ \ Find(m, kind, p), !.lost = @ \ {<<kind, p>>}]

----------------------------------------------------------------------------
(* The heap.                                                                *)

Failure(m) == [m |-> m, p |-> Null]

\* lor_malloc_debug and lor_calloc_debug of n cells.
Mallocs(m, n, cell) ==
    {Failure(m)} \cup
    IF n = 0 THEN {}
    ELSE UNION {{[m |-> t, p |-> a] :
                    t \in Track([m EXCEPT !.blocks[a] = Filled(n, cell)], "heap", a, n)} :
                a \in Unused(m)}

\* lor_free_debug.
Freed(m, p) ==
    IF p = Null THEN m
    ELSE [Untrack(m, "heap", p) EXCEPT !.blocks[p] = << >>]

\* Mutant: the record stays with the old address.
MovedWithoutRecord(m, p, a, n) ==
    [m EXCEPT !.blocks = [@ EXCEPT ![p] = << >>,
                              ![a] = [i \in 1 .. n |-> IF i <= Len(m.blocks[p])
                                                      THEN m.blocks[p][i] ELSE Junk]]]

\* realloc has moved block p to a and its record with it.
Moved(m, p, a, n) ==
    LET old == m.blocks[p]
        new == [i \in 1 .. n |-> IF i <= Len(old) THEN old[i] ELSE Junk]
        tracked == Find(m, "heap", p)
    IN [m EXCEPT !.blocks = [@ EXCEPT ![p] = << >>, ![a] = new],
                 !.records = IF tracked = {} THEN @
                             ELSE (@ \ tracked) \cup {Record("heap", a, n)}]

\* lor_realloc_debug: in place or elsewhere; a failure leaves block and record.
Reallocs(m, p, n) ==
    IF p = Null THEN Mallocs(m, n, Junk)
    ELSE IF n = 0 THEN {[m |-> Freed(m, p), p |-> Null]}
    ELSE {Failure(m)} \cup
         UNION {{[m |-> t, p |-> a] :
                    t \in IF Find(m, "heap", p) # {} THEN {Moved(m, p, a, n)}
                          ELSE Track([Moved(m, p, a, n) EXCEPT
                                          !.lost = @ \ {<<"heap", p>>}], "heap", a, n)} :
                a \in Unused(m) \cup {p}}

----------------------------------------------------------------------------
(* The calls of a program on blocks that it owns.                           *)

LeakInit == memory = Empty

\* The program frees or moves no block that holds an arena still in use.
Releasable(p) == memory.blocks[p] # << >> /\ p \notin memory.arenas

Malloc(n) == \E o \in Mallocs(memory, n, Junk) : memory' = o.m
Calloc(n) == \E o \in Mallocs(memory, n, Zero) : memory' = o.m
Free(p) == Releasable(p) /\ memory' = Freed(memory, p)
Realloc(p, n) == Releasable(p) /\ \E o \in Reallocs(memory, p, n) : memory' = o.m

\* lor_arena_init of a structure at the start of a heap block: the record of
\* the arena has the address of the block's.
InitArena(p) ==
    /\ Releasable(p)
    /\ memory' \in Track([memory EXCEPT !.arenas = @ \cup {p}], "arena", p, 0)

DeinitArena(p) ==
    /\ p \in memory.arenas
    /\ memory' = [Untrack(memory, "arena", p) EXCEPT !.arenas = @ \ {p}]

\* lor_mmap_file, when it does not fail, and lor_mmap_unmap.
MmapFile(p, n) ==
    /\ p \in Unused(memory)
    /\ memory' \in Track([memory EXCEPT !.maps[p] = n], "mmap", p, n)

MmapUnmap(p) ==
    /\ memory.maps[p] # 0
    /\ memory' = [Untrack(memory, "mmap", p) EXCEPT !.maps[p] = 0]

----------------------------------------------------------------------------
(* Properties.                                                              *)

\* The resources whose release has not been called yet.
Live(m) ==
    {Record("heap", a, Len(m.blocks[a])) : a \in {x \in Addresses : m.blocks[x] # << >>}}
    \cup {Record("mmap", a, m.maps[a]) : a \in {x \in Addresses : m.maps[x] # 0}}
    \cup {Record("arena", a, 0) : a \in m.arenas}

\* The report names exactly the resources in use, each once, of its kind and
\* size, after any mixture of moves, failures, and arenas inside blocks; only
\* a resource for whose record there was no memory is missing.
ReportExact ==
    memory.records = {r \in Live(memory) : Resource(r) \notin memory.lost}
=============================================================================

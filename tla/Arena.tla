-------------------------------- MODULE Arena --------------------------------
(***************************************************************************)
(* An arena of src/memory.c: blocks that are filled one after the other,   *)
(* on the heap or in reserved address space that is committed on demand.   *)
(*                                                                         *)
(* The list of blocks is kept oldest first, so that its head, the block    *)
(* that is filled, is the last element.  Offsets count from a block's      *)
(* data; memory handed out by the system is identified by a member of      *)
(* Blocks, and may be handed out again once it was released.               *)
(***************************************************************************)
EXTENDS Integers, Sequences, FiniteSets

CONSTANTS
    Blocks,         \* memory of the system: one member for each block that fits in it
    Sizes,          \* sizes that are asked for
    Align,          \* LOR_ARENA_MAX_ALIGNMENT, the alignment of every allocation
    Header, Slack,  \* offset of a block's data, and the room planned for it
    Page,           \* lor_page_size
    BlockSize, ReserveSize, CommitSize,  \* the configuration, as given
    DefaultCommit,  \* LOR_ARENA_DEFAULT_COMMIT_SIZE
    MaxLive, MaxMarks  \* bounds: live allocations, marks the caller holds

NoBlock == "NULL"

ASSUME ArenaAssumption ==
    /\ Sizes \subseteq Nat \ {0} /\ Align \in Nat \ {0} /\ Page \in Nat \ {0}
    /\ Header \in Nat /\ Slack \in Nat /\ Header <= Slack
    /\ BlockSize \in Nat \ {0} /\ ReserveSize \in Nat \ {0} /\ CommitSize \in Nat \ {0}
    /\ DefaultCommit \in Nat /\ MaxLive \in Nat /\ MaxMarks \in Nat
    /\ NoBlock \notin Blocks

VARIABLES
    backend,  \* "none" is the LOR_ARENA_INIT state
    blocks,   \* the chain, oldest first
    held,     \* memory the system has handed out and not got back
    live,     \* allocations their owners may use, oldest first
    marks     \* marks the caller may rewind to, oldest first, with Len(live) then

arenaVars == <<backend, blocks, held, live, marks>>

BlockRecords == [id : Blocks, capacity : Nat, committed : Nat, used : Nat, size : Nat]
Allocations == [id : Blocks, from : Nat, to : Nat]
Marks == [block : Blocks \cup {NoBlock}, used : Nat, count : Nat]
----------------------------------------------------------------------------
AtLeast(m, n) == IF m < n THEN n ELSE m
AtMost(m, n) == IF m > n THEN n ELSE m

\* lor_virtual__page_align.
PageAlign(n) == ((n + Page - 1) \div Page) * Page

\* lor_memory__align_up to a multiple of the page: if that is no power of two,
\* clearing the bits of the mask leaves just some multiple of the page.
PowerOfTwo(n) == \E i \in 0 .. n : n = 2^i
AlignedUp(n, size) ==
    {m \in n .. n + size - 1 : m % Page = 0 /\ (PowerOfTwo(size) => m % size = 0)}

Newest == blocks[Len(blocks)]
WithNewest(b) == [blocks EXCEPT ![Len(blocks)] = b]
Ids(bs) == {bs[i].id : i \in DOMAIN bs}

\* lor_arena__block_alloc: padding, room, and where an allocation ends.
Padding(b) == (-b.used) % Align
\* Mutant: the padding is not counted as used.
EndOfUnpadded(b, size) == b.used + size
EndOf(b, size) == b.used + Padding(b) + size
Allocation(b, size) ==
    [id |-> b.id, from |-> b.used + Padding(b), to |-> b.used + Padding(b) + size]
Room(b, size) == EndOf(b, size) <= b.capacity

\* lor_arena__block_ensure_committed.
\* Mutant: the block's header is forgotten.
NeedsCommitUnshifted(b, used) == backend = "virtual" /\ used > b.committed
NeedsCommit(b, used) == backend = "virtual" /\ Header + used > b.committed
Commits(b, used) ==
    {AtMost(m, b.size) : m \in AlignedUp(Header + used, PageAlign(CommitSize))}

\* The outcomes of lor_arena__block_alloc when the block has room and what it
\* needs is committed.
Allocated(b, size) ==
    IF NeedsCommit(b, EndOf(b, size))
    THEN {[b EXCEPT !.used = EndOf(b, size), !.committed = m] : m \in Commits(b, EndOf(b, size))}
    ELSE {[b EXCEPT !.used = EndOf(b, size)]}

\* lor_arena__heap_block_new and lor_arena__virtual_block_new for a size.
CapacityFor(size) == size + Align - 1
HeapBlock(id, size) ==
    LET capacity == AtLeast(BlockSize, CapacityFor(size))
    IN  [id |-> id, capacity |-> capacity, committed |-> capacity, used |-> 0,
         size |-> capacity + Slack]

VirtualBlock(id, size) ==
    LET needed == CapacityFor(size) + Slack
        reserve == PageAlign(AtLeast(PageAlign(ReserveSize), needed))
        wanted == AtLeast(PageAlign(CommitSize), Slack)
        commit == IF wanted < needed /\ needed < DefaultCommit THEN needed ELSE wanted
    IN  [id |-> id, capacity |-> reserve - Header, committed |-> AtMost(PageAlign(commit), reserve),
         used |-> 0, size |-> reserve]

NewBlock(id, size) ==
    IF backend = "virtual" THEN VirtualBlock(id, size) ELSE HeapBlock(id, size)
----------------------------------------------------------------------------
ArenaInit ==
    /\ backend = "none"
    /\ blocks = <<>> /\ held = {} /\ live = <<>> /\ marks = <<>>

\* lor_arena__init_internal, called by lor_arena_init_config or by the first
\* allocation, which then goes on.
InitConfig(b) ==
    /\ backend = "none"
    /\ backend' = b
    /\ UNCHANGED <<blocks, held, live, marks>>

\* lor_arena__alloc_aligned.
Asked(size) == backend # "none" /\ size \in Sizes /\ Len(live) < MaxLive
Issue(b, size) == live' = Append(live, Allocation(b, size))

AllocInNewest(size) ==
    /\ Asked(size) /\ blocks # <<>> /\ Room(Newest, size)
    /\ \E b \in Allocated(Newest, size) : blocks' = WithNewest(b)
    /\ Issue(Newest, size)
    /\ UNCHANGED <<backend, held, marks>>

\* There is no head, or it has no room, or its memory cannot be committed.
NewestRefuses(size) ==
    blocks # <<>> /\ Room(Newest, size) => NeedsCommit(Newest, EndOf(Newest, size))

\* A new block becomes the head, even if the rest of it cannot be committed.
AllocInNew(size) ==
    /\ Asked(size) /\ NewestRefuses(size)
    /\ \E id \in Blocks \ held :
        LET new == NewBlock(id, size)
        IN  /\ held' = held \cup {id}
            /\ \/ /\ \E b \in Allocated(new, size) : blocks' = Append(blocks, b)
                  /\ Issue(new, size)
               \/ /\ NeedsCommit(new, EndOf(new, size))
                  /\ blocks' = Append(blocks, new)
                  /\ UNCHANGED live
    /\ UNCHANGED <<backend, marks>>

\* Mutant: the reserved memory is not released.
UncommittedKept(id) == held' = held \cup {id}

\* Memory that was reserved and could not be committed is released again.
Uncommitted(id) == held' = (held \cup {id}) \ {id}

AllocFails(size) ==
    /\ Asked(size) /\ NewestRefuses(size)
    /\ \/ UNCHANGED held
       \/ backend = "virtual" /\ \E id \in Blocks \ held : Uncommitted(id)
    /\ UNCHANGED <<backend, blocks, live, marks>>
----------------------------------------------------------------------------
Emptied(bs) == [i \in DOMAIN bs |-> [bs[i] EXCEPT !.used = 0]]

\* lor_arena_reset invalidates what was allocated, and the marks on it.
Reset ==
    /\ backend # "none"
    /\ blocks' = Emptied(blocks)
    /\ live' = <<>> /\ marks' = <<>>
    /\ UNCHANGED <<backend, held>>

\* lor_arena_mark.
Mark ==
    /\ backend # "none" /\ Len(marks) < MaxMarks
    /\ marks' = Append(marks,
            [block |-> IF blocks = <<>> THEN NoBlock ELSE Newest.id,
             used |-> IF blocks = <<>> THEN 0 ELSE Newest.used,
             count |-> Len(live)])
    /\ UNCHANGED <<backend, blocks, held, live>>

\* The blocks after a rewind to a block of the chain: newer ones are released,
\* and the block's use is set back unless it is below the mark.
\* Mutant: the mark's own block is released too.
RewoundTooFar(place, used) == SubSeq(blocks, 1, place - 1)
Rewound(place, used) ==
    [SubSeq(blocks, 1, place) EXCEPT ![place].used = AtMost(used, @)]

\* lor_arena_rewind to a mark the caller holds: that mark stays usable, newer
\* marks and what was allocated after it do not.
Rewind(i) ==
    /\ LET mark == marks[i]
       IN  \/ /\ mark.block = NoBlock
              /\ blocks' = Emptied(blocks)
              /\ UNCHANGED held
           \/ \E place \in DOMAIN blocks :
                /\ blocks[place].id = mark.block
                /\ blocks' = Rewound(place, mark.used)
                /\ held' = held \ {blocks[n].id : n \in place + 1 .. Len(blocks)}
           \/ /\ mark.block \notin Ids(blocks) \cup {NoBlock}
              /\ UNCHANGED <<blocks, held>>
    /\ live' = SubSeq(live, 1, marks[i].count)
    /\ marks' = SubSeq(marks, 1, i)
    /\ UNCHANGED backend

\* lor_arena_deinit.
ArenaDeinit ==
    /\ backend # "none"
    /\ backend' = "none" /\ blocks' = <<>>
    /\ held' = held \ Ids(blocks)
    /\ live' = <<>> /\ marks' = <<>>

ArenaNext ==
    \/ Reset \/ Mark \/ ArenaDeinit
    \/ \E b \in {"heap", "virtual"} : InitConfig(b)
    \/ \E size \in Sizes : AllocInNewest(size) \/ AllocInNew(size) \/ AllocFails(size)
    \/ \E i \in DOMAIN marks : Rewind(i)

ArenaSpec == ArenaInit /\ [][ArenaNext]_arenaVars
----------------------------------------------------------------------------
\* The type invariant.
ArenaTypeOK ==
    /\ backend \in {"none", "heap", "virtual"}
    /\ blocks \in Seq(BlockRecords)
    /\ \A i \in DOMAIN blocks : blocks[i].used <= blocks[i].capacity
    /\ held \subseteq Blocks
    /\ live \in Seq(Allocations)
    /\ marks \in Seq(Marks)

\* Allocations lie in blocks of the arena, aligned, in the part that is in use, where
\* nothing is handed out again.
LiveBacked ==
    \A a \in DOMAIN live :
        \E i \in DOMAIN blocks :
            /\ blocks[i].id = live[a].id
            /\ live[a].from % Align = 0
            /\ live[a].to <= blocks[i].used

NoOverlap ==
    \A a, b \in DOMAIN live :
        a # b /\ live[a].id = live[b].id =>
            live[a].to <= live[b].from \/ live[b].to <= live[a].from

CommitCovers ==
    backend = "virtual" =>
        \A i \in DOMAIN blocks : /\ Header + blocks[i].used <= blocks[i].committed
                                 /\ blocks[i].committed <= blocks[i].size

\* lor_arena_used, lor_arena_capacity and lor_arena_committed.
Sum(sizes) ==
    LET S[n \in 0 .. Len(sizes)] == IF n = 0 THEN 0 ELSE S[n - 1] + sizes[n]
    IN S[Len(sizes)]
Used == Sum([i \in DOMAIN blocks |-> blocks[i].used])
Capacity == Sum([i \in DOMAIN blocks |-> blocks[i].capacity])
Committed ==
    Sum([i \in DOMAIN blocks |->
            IF backend = "virtual" THEN AtLeast(0, blocks[i].committed - Header)
            ELSE blocks[i].committed])

\* The totals bound each other, and what is live: memory.h says of the used bytes that they
\* "can exceed the sum of requested allocation sizes", and of the committed ones that they
\* equal the capacity for heap arenas.
TotalsOrdered ==
    /\ Sum([a \in DOMAIN live |-> live[a].to - live[a].from]) <= Used
    /\ Used <= Committed /\ Committed <= Capacity
    /\ backend = "heap" => Committed = Capacity

\* An allocation stays usable until it is rewound, reset or released, through any
\* sequence of rewinds, resets and blocks that are retained: it is in a block of the
\* arena, shares no byte with another one, and its memory is committed, of which
\* there is no more than was reserved; the totals the arena reports agree.
AllocationsSound == ArenaTypeOK /\ LiveBacked /\ NoOverlap /\ CommitCovers /\ TotalsOrdered

\* Marks nest: a mark that was not rewound past still names a block of the arena
\* that is used at least as far, so the assertions of lor_arena_rewind hold.
MarksUsable ==
    \A m \in DOMAIN marks :
        \/ marks[m].block = NoBlock /\ marks[m].count = 0
        \/ \E i \in DOMAIN blocks : blocks[i].id = marks[m].block
                                    /\ marks[m].used <= blocks[i].used

\* The arena owns the memory it holds, each block once: a failed commit, a
\* rewind or a release neither leaks memory nor returns it twice.
HeldIsOwned == held = Ids(blocks) /\ Cardinality(held) = Len(blocks)

\* The chain of blocks is what the arena owns, and holds every block a mark names.
ChainKept == HeldIsOwned /\ MarksUsable
=============================================================================

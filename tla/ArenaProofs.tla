----------------------------- MODULE ArenaProofs -----------------------------
(***************************************************************************)
(* The arena is correct for every size, alignment, page and number of      *)
(* blocks: what is allocated lies in the chain in the order it was made,   *)
(* and marks cut that order.  The scratch scopes above it are correct for  *)
(* every depth of nesting.  Printing, which shares no state with them, is  *)
(* correct for every number of values and every width of integers.         *)
(***************************************************************************)
EXTENDS Scratch, Arena, Printing,
        FiniteSetTheorems, SequenceTheorems, WellFoundedInduction, TLAPS

\* What each block keeps of the way it was created and committed.
Shaped(b) ==
    /\ b \in BlockRecords /\ b.used <= b.capacity
    /\ backend = "heap" => b.committed = b.capacity
    /\ backend = "virtual" =>
          b.capacity = b.size - Header /\ Header + b.used <= b.committed /\ b.committed <= b.size

\* The chain: each block once, all of them held, none before the arena is initialised.
Chain ==
    /\ backend \in {"none", "heap", "virtual"} /\ (backend = "none" => blocks = <<>>)
    /\ blocks \in Seq(BlockRecords) /\ \A i \in DOMAIN blocks : Shaped(blocks[i])
    /\ \A i, j \in DOMAIN blocks : blocks[i].id = blocks[j].id => i = j
    /\ held = Ids(blocks)

\* Offset u of block i is not beyond offset v of block j, in the order in which the chain
\* is filled.
UpTo(i, u, j, v) == i < j \/ (i = j /\ u <= v)

\* Allocations lie in the used part of their blocks, in the order they were made.
LiveInOrder ==
    /\ live \in Seq(Allocations)
    /\ \A a \in DOMAIN live :
          /\ live[a].from % Align = 0 /\ live[a].from <= live[a].to
          /\ \E i \in DOMAIN blocks : blocks[i].id = live[a].id /\ live[a].to <= blocks[i].used
    /\ \A a, b \in DOMAIN live : \A i, j \in DOMAIN blocks :
          a < b /\ blocks[i].id = live[a].id /\ blocks[j].id = live[b].id
              => UpTo(i, live[a].to, j, live[b].from)

\* A mark lies in the used part of the chain, or was taken before there was one.
MarksInChain ==
    /\ marks \in Seq(Marks)
    /\ \A m \in DOMAIN marks :
          /\ marks[m].count <= Len(live)
          /\ \/ marks[m].block = NoBlock /\ marks[m].count = 0
             \/ \E i \in DOMAIN blocks : blocks[i].id = marks[m].block
                                         /\ marks[m].used <= blocks[i].used

\* Older marks are not beyond newer ones, nor what was allocated before a mark beyond it.
MarksInOrder ==
    /\ \A m, n \in DOMAIN marks : m < n =>
          /\ marks[m].count <= marks[n].count
          /\ marks[n].block = NoBlock => marks[m].block = NoBlock
          /\ \A i, j \in DOMAIN blocks :
                blocks[i].id = marks[m].block /\ blocks[j].id = marks[n].block
                    => UpTo(i, marks[m].used, j, marks[n].used)
    /\ \A m \in DOMAIN marks : \A a \in 1 .. marks[m].count : \A i, j \in DOMAIN blocks :
          blocks[j].id = live[a].id /\ blocks[i].id = marks[m].block
              => UpTo(j, live[a].to, i, marks[m].used)

ArenaInv == Chain /\ LiveInOrder /\ MarksInChain /\ MarksInOrder
----------------------------------------------------------------------------
(* Arithmetic of pages and alignments.                                      *)

LEMMA PageAlignUp ==
  ASSUME NEW n \in Nat
  PROVE  PageAlign(n) \in Nat /\ n <= PageAlign(n)
<1>1. Page \in Nat \ {0}
  BY ArenaAssumption
<1>2. PICK q \in Int : q = (n + Page - 1) \div Page
  BY <1>1
<1>3. q * Page <= n + Page - 1 /\ n + Page - 1 < q * Page + Page /\ q >= 0
  BY <1>1, <1>2
<1>4. q * Page \in Nat
  BY <1>1, <1>3
<1> QED
  BY <1>1, <1>2, <1>3, <1>4 DEF PageAlign

\* The padding moves an offset up to the alignment.
LEMMA PaddingAligns ==
  ASSUME NEW b, b.used \in Nat
  PROVE  Padding(b) \in Nat /\ (b.used + Padding(b)) % Align = 0
<1>1. Align \in Nat \ {0}
  BY ArenaAssumption
<1>2. Padding(b) \in 0 .. Align - 1
  BY <1>1 DEF Padding
<1>3. PICK q \in Int : -b.used = q * Align + Padding(b)
  <2>1. \A n \in Int : n = (n \div Align) * Align + (n % Align) /\ n \div Align \in Int
    BY <1>1
  <2>2. -b.used \in Int
    OBVIOUS
  <2> QED
    BY <2>1, <2>2 DEF Padding
<1>4. b.used + Padding(b) = (-q) * Align
  BY <1>1, <1>2, <1>3
<1>5. ((-q) * Align) % Align = 0
  BY <1>1
<1> QED
  BY <1>2, <1>4, <1>5

----------------------------------------------------------------------------
(* What happens to one block.                                               *)

LEMMA AllocationPlaced ==
  ASSUME NEW b, b.used \in Nat, b.id \in Blocks, NEW size \in Sizes
  PROVE  /\ EndOf(b, size) \in Nat /\ Allocation(b, size) \in Allocations
         /\ Allocation(b, size).id = b.id
         /\ Allocation(b, size).from % Align = 0
         /\ b.used <= Allocation(b, size).from
         /\ Allocation(b, size).from <= Allocation(b, size).to
         /\ Allocation(b, size).to = EndOf(b, size)
<1>1. size \in Nat /\ Padding(b) \in Nat /\ (b.used + Padding(b)) % Align = 0
  BY PaddingAligns, ArenaAssumption
<1> QED
  BY <1>1 DEF EndOf, Allocation, Allocations

\* An allocation changes what the block has used and committed.
LEMMA AllocatedBlock ==
  ASSUME NEW b, Shaped(b), NEW size \in Sizes, Room(b, size), backend \in {"heap", "virtual"},
         NEW c \in Allocated(b, size)
  PROVE  Shaped(c) /\ c.id = b.id /\ c.capacity = b.capacity /\ c.used = EndOf(b, size)
<1> DEFINE used == EndOf(b, size)
<1>1. /\ b \in BlockRecords /\ b.id \in Blocks /\ b.capacity \in Nat /\ b.committed \in Nat
      /\ b.used \in Nat /\ b.size \in Nat
  BY DEF Shaped, BlockRecords
<1>2. used \in Nat /\ used <= b.capacity
  BY <1>1, AllocationPlaced DEF Room
<1>3. CASE NeedsCommit(b, used)
  <2>1. PICK m \in Commits(b, used) : c = [b EXCEPT !.used = used, !.committed = m]
    BY <1>3 DEF Allocated
  <2>2. Header \in Nat /\ PageAlign(CommitSize) \in Nat
    BY ArenaAssumption, PageAlignUp
  <2>3. PICK n \in AlignedUp(Header + used, PageAlign(CommitSize)) : m = AtMost(n, b.size)
    BY <2>1 DEF Commits
  <2>4. n \in Nat /\ Header + used <= n
    BY <1>2, <2>2, <2>3 DEF AlignedUp
  <2>5. backend = "virtual" /\ Header + used <= b.size
    BY <1>1, <1>2, <1>3, <2>2 DEF NeedsCommit, Shaped
  <2>6. m \in Nat /\ Header + used <= m /\ m <= b.size
    BY <1>1, <2>3, <2>4, <2>5 DEF AtMost
  <2> QED
    BY <1>1, <1>2, <2>1, <2>5, <2>6 DEF Shaped, BlockRecords
<1>4. CASE ~NeedsCommit(b, used)
  <2>1. c = [b EXCEPT !.used = used]
    BY <1>4 DEF Allocated
  <2>2. backend = "virtual" => Header + used <= b.committed
    BY <1>1, <1>2, <1>4, ArenaAssumption DEF NeedsCommit
  <2> QED
    BY <1>1, <1>2, <2>1, <2>2 DEF Shaped, BlockRecords
<1> QED
  BY <1>3, <1>4

\* A new block has room for the allocation it is made for.
LEMMA NewBlockShaped ==
  ASSUME NEW id \in Blocks, NEW size \in Sizes, backend \in {"heap", "virtual"}
  PROVE  /\ Shaped(NewBlock(id, size)) /\ Room(NewBlock(id, size), size)
         /\ NewBlock(id, size).id = id /\ NewBlock(id, size).used = 0
<1> DEFINE new == NewBlock(id, size)
<1>1. /\ size \in Nat /\ Align \in Nat \ {0} /\ Header \in Nat /\ Slack \in Nat
      /\ Header <= Slack /\ BlockSize \in Nat /\ DefaultCommit \in Nat
      /\ CapacityFor(size) \in Nat /\ size <= CapacityFor(size)
  BY ArenaAssumption DEF CapacityFor
<1>2. new.used = 0 /\ new.id = id
  BY DEF NewBlock, HeapBlock, VirtualBlock
<1>3. Padding(new) = 0
  BY <1>1, <1>2 DEF Padding
<1>4. CASE backend = "heap"
  BY <1>1, <1>2, <1>3, <1>4
     DEF NewBlock, HeapBlock, Shaped, BlockRecords, Room, EndOf, AtLeast
<1>5. CASE backend = "virtual"
  <2> DEFINE needed == CapacityFor(size) + Slack
             reserve == PageAlign(AtLeast(PageAlign(ReserveSize), needed))
             wanted == AtLeast(PageAlign(CommitSize), Slack)
             commit == IF wanted < needed /\ needed < DefaultCommit THEN needed ELSE wanted
  <2>1. new = [id |-> id, capacity |-> reserve - Header,
               committed |-> AtMost(PageAlign(commit), reserve), used |-> 0, size |-> reserve]
    BY <1>5 DEF NewBlock, VirtualBlock
  <2>2. needed \in Nat /\ Slack <= needed
    BY <1>1
  <2>3. PageAlign(ReserveSize) \in Nat /\ PageAlign(CommitSize) \in Nat
    BY ArenaAssumption, PageAlignUp
  <2>4. reserve \in Nat /\ needed <= reserve
    <3>1. AtLeast(PageAlign(ReserveSize), needed) \in Nat
          /\ needed <= AtLeast(PageAlign(ReserveSize), needed)
      BY <2>2, <2>3 DEF AtLeast
    <3> QED
      BY <2>2, <3>1, PageAlignUp
  <2>5. commit \in Nat /\ Slack <= commit
    BY <1>1, <2>2, <2>3 DEF AtLeast
  <2>6. PageAlign(commit) \in Nat /\ Slack <= PageAlign(commit)
    BY <1>1, <2>5, PageAlignUp
  <2>7. /\ AtMost(PageAlign(commit), reserve) \in Nat
        /\ Header <= AtMost(PageAlign(commit), reserve)
        /\ AtMost(PageAlign(commit), reserve) <= reserve
    BY <1>1, <2>2, <2>4, <2>6 DEF AtMost
  <2>8. needed = CapacityFor(size) + Slack
    OBVIOUS
  <2> HIDE DEF reserve, needed, commit
  <2> QED
    BY <1>1, <1>2, <1>3, <1>5, <2>1, <2>4, <2>7, <2>8 DEF Shaped, BlockRecords, Room, EndOf
<1> QED
  BY <1>2, <1>4, <1>5

----------------------------------------------------------------------------
(* The steps of the arena.                                                  *)

LEMMA InitInOrder == ArenaInit => ArenaInv
  BY DEF ArenaInit, ArenaInv, Chain, LiveInOrder, MarksInChain, MarksInOrder, Ids

LEMMA ChainDomain ==
  ASSUME Chain
  PROVE  /\ Len(blocks) \in Nat /\ DOMAIN blocks = 1 .. Len(blocks)
         /\ \A i \in DOMAIN blocks :
               /\ Shaped(blocks[i]) /\ blocks[i] \in BlockRecords
               /\ blocks[i].id \in Blocks /\ blocks[i].used \in Nat /\ blocks[i].capacity \in Nat
         /\ blocks # <<>> => Len(blocks) \in DOMAIN blocks
<1>1. /\ blocks \in Seq(BlockRecords)
      /\ \A i \in DOMAIN blocks : Shaped(blocks[i]) /\ blocks[i] \in BlockRecords
  BY DEF Chain, Shaped
<1>2. \A b \in BlockRecords : b.id \in Blocks /\ b.used \in Nat /\ b.capacity \in Nat
  BY DEF BlockRecords
<1> QED
  BY <1>1, <1>2

LEMMA LiveDomain ==
  ASSUME LiveInOrder
  PROVE  /\ Len(live) \in Nat /\ DOMAIN live = 1 .. Len(live)
         /\ \A a \in DOMAIN live : /\ live[a] \in Allocations /\ live[a].id \in Blocks
                                   /\ live[a].from \in Nat /\ live[a].to \in Nat
<1>1. live \in Seq(Allocations)
  BY DEF LiveInOrder
<1>2. \A a \in DOMAIN live : live[a] \in Allocations
  BY <1>1
<1>3. \A x \in Allocations : x.id \in Blocks /\ x.from \in Nat /\ x.to \in Nat
  BY DEF Allocations
<1> QED
  BY <1>1, <1>2, <1>3

LEMMA MarksDomain ==
  ASSUME MarksInChain
  PROVE  /\ Len(marks) \in Nat /\ DOMAIN marks = 1 .. Len(marks)
         /\ \A m \in DOMAIN marks : /\ marks[m] \in Marks
                                    /\ marks[m].used \in Nat /\ marks[m].count \in Nat
<1>1. marks \in Seq(Marks)
  BY DEF MarksInChain
<1>2. \A m \in DOMAIN marks : marks[m] \in Marks
  BY <1>1
<1>3. \A x \in Marks : x.used \in Nat /\ x.count \in Nat
  BY DEF Marks
<1> QED
  BY <1>1, <1>2, <1>3

LEMMA Appended ==
  ASSUME NEW S, NEW s \in Seq(S), NEW x \in S
  PROVE  /\ Append(s, x) \in Seq(S) /\ Len(Append(s, x)) = Len(s) + 1
         /\ DOMAIN s = 1 .. Len(s) /\ DOMAIN Append(s, x) = 1 .. Len(s) + 1
         /\ \A i \in DOMAIN s : Append(s, x)[i] = s[i]
         /\ Append(s, x)[Len(s) + 1] = x
  OBVIOUS

LEMMA Shortened ==
  ASSUME NEW S, NEW s \in Seq(S), NEW n \in 0 .. Len(s)
  PROVE  /\ SubSeq(s, 1, n) \in Seq(S) /\ Len(SubSeq(s, 1, n)) = n
         /\ DOMAIN s = 1 .. Len(s) /\ DOMAIN SubSeq(s, 1, n) = 1 .. n
         /\ \A i \in 1 .. n : SubSeq(s, 1, n)[i] = s[i]
  OBVIOUS

\* An allocation at the end of a chain that may have grown comes after all others and
\* leaves the marks where they are.
LEMMA AllocationKeepsOrder ==
  ASSUME ArenaInv, Chain', marks' = marks,
         \A i \in DOMAIN blocks : /\ i \in DOMAIN blocks' /\ blocks'[i].id = blocks[i].id
                                  /\ blocks[i].used <= blocks'[i].used,
         \/ live' = live
         \/ \E x \in Allocations :
               /\ live' = Append(live, x) /\ x.from % Align = 0 /\ x.from <= x.to
               /\ blocks' # <<>> /\ blocks'[Len(blocks')].id = x.id
               /\ x.to <= blocks'[Len(blocks')].used
               /\ Len(blocks') \in DOMAIN blocks => blocks[Len(blocks')].used <= x.from
  PROVE  ArenaInv'
<1> USE DEF ArenaInv
<1>1. /\ Len(blocks) \in Nat /\ DOMAIN blocks = 1 .. Len(blocks)
      /\ \A i \in DOMAIN blocks : blocks[i].used \in Nat
  BY ChainDomain
<1>2. /\ Len(blocks') \in Nat /\ DOMAIN blocks' = 1 .. Len(blocks')
      /\ blocks' # <<>> => Len(blocks') \in DOMAIN blocks'
      /\ \A i \in DOMAIN blocks' : blocks'[i].used \in Nat /\ blocks'[i].id \in Blocks
  <2>1. /\ blocks' \in Seq(BlockRecords)
        /\ \A i \in DOMAIN blocks' : blocks'[i] \in BlockRecords
    BY DEF Chain, Shaped
  <2> QED
    BY <2>1 DEF BlockRecords
<1>3. \A i, j \in DOMAIN blocks' : blocks'[i].id = blocks'[j].id => i = j
  BY DEF Chain
<1>4. /\ Len(live) \in Nat /\ DOMAIN live = 1 .. Len(live) /\ live \in Seq(Allocations)
      /\ \A a \in DOMAIN live : live[a].from \in Nat /\ live[a].to \in Nat
  BY LiveDomain DEF LiveInOrder
<1>5. /\ Len(marks) \in Nat /\ DOMAIN marks = 1 .. Len(marks)
      /\ \A m \in DOMAIN marks : /\ marks[m].used \in Nat /\ marks[m].count \in Nat
                                 /\ marks[m].count <= Len(live)
  BY MarksDomain DEF MarksInChain
<1>6. \A a \in DOMAIN live :
         \E i \in DOMAIN blocks : /\ blocks[i].id = live[a].id /\ live[a].to <= blocks[i].used
                                  /\ live[a].to <= blocks'[i].used
  BY <1>1, <1>2, <1>4 DEF LiveInOrder
<1>7. \A a, b \in DOMAIN live : \A i, j \in DOMAIN blocks' :
         a < b /\ blocks'[i].id = live[a].id /\ blocks'[j].id = live[b].id
             => UpTo(i, live[a].to, j, live[b].from)
  BY <1>3, <1>6 DEF LiveInOrder
<1>8. LiveInOrder'
  <2>1. CASE live' = live
    BY <1>6, <1>7, <2>1 DEF LiveInOrder, UpTo
  <2>2. CASE live' # live
    <3>1. PICK x \in Allocations :
               /\ live' = Append(live, x) /\ x.from % Align = 0 /\ x.from <= x.to
               /\ blocks' # <<>> /\ blocks'[Len(blocks')].id = x.id
               /\ x.to <= blocks'[Len(blocks')].used
               /\ Len(blocks') \in DOMAIN blocks => blocks[Len(blocks')].used <= x.from
      BY <2>2
    <3>2. /\ live' \in Seq(Allocations) /\ DOMAIN live' = 1 .. Len(live) + 1
          /\ \A a \in DOMAIN live : live'[a] = live[a]
          /\ live'[Len(live) + 1] = x
      <4>1. live' = Append(live, x) /\ live \in Seq(Allocations) /\ x \in Allocations
        BY <1>4, <3>1
      <4> QED
        BY <4>1, Appended
    <3>3. \A a \in DOMAIN live' :
             /\ live'[a].from % Align = 0 /\ live'[a].from <= live'[a].to
             /\ \E i \in DOMAIN blocks' :
                   blocks'[i].id = live'[a].id /\ live'[a].to <= blocks'[i].used
      <4> SUFFICES ASSUME NEW a \in DOMAIN live'
                   PROVE  /\ live'[a].from % Align = 0 /\ live'[a].from <= live'[a].to
                          /\ \E i \in DOMAIN blocks' :
                                blocks'[i].id = live'[a].id /\ live'[a].to <= blocks'[i].used
        OBVIOUS
      <4>1. CASE a \in DOMAIN live
        <5>1. live[a].from % Align = 0 /\ live[a].from <= live[a].to /\ live'[a] = live[a]
          BY <3>2, <4>1 DEF LiveInOrder
        <5> QED
          BY <1>6, <4>1, <5>1
      <4>2. CASE a = Len(live) + 1
        BY <1>2, <3>1, <3>2, <4>2
      <4> QED
        BY <1>4, <3>2, <4>1, <4>2
    <3>4. ASSUME NEW a \in DOMAIN live', NEW b \in DOMAIN live', a < b,
                 NEW i \in DOMAIN blocks', NEW j \in DOMAIN blocks',
                 blocks'[i].id = live'[a].id, blocks'[j].id = live'[b].id
          PROVE  UpTo(i, live'[a].to, j, live'[b].from)
      <4>1. a \in DOMAIN live /\ live'[a] = live[a]
        BY <1>4, <3>2, <3>4
      <4>2. CASE b \in DOMAIN live
        BY <1>7, <3>2, <3>4, <4>1, <4>2
      <4>3. CASE b = Len(live) + 1
        <5>1. j = Len(blocks') /\ live'[b] = x
          BY <1>2, <1>3, <3>1, <3>2, <3>4, <4>3
        <5>2. i \in DOMAIN blocks /\ live[a].to <= blocks[i].used
          BY <1>3, <1>6, <3>4, <4>1
        <5>3. x.from \in Nat /\ blocks[i].used \in Nat /\ live[a].to \in Nat
          BY <1>1, <1>4, <4>1, <5>2 DEF Allocations
        <5> QED
          BY <1>2, <3>1, <4>1, <5>1, <5>2, <5>3 DEF UpTo
      <4> QED
        BY <1>4, <3>2, <4>2, <4>3
    <3> QED
      BY <3>2, <3>3, <3>4 DEF LiveInOrder, UpTo
  <2> QED
    BY <2>1, <2>2
<1>9. DOMAIN live \subseteq DOMAIN live' /\ Len(live) <= Len(live')
      /\ \A a \in DOMAIN live : live'[a] = live[a]
  BY <1>4
<1>10. MarksInChain'
  <2>1. \A m \in DOMAIN marks :
           \/ marks[m].block = NoBlock /\ marks[m].count = 0
           \/ \E i \in DOMAIN blocks' :
                 blocks'[i].id = marks[m].block /\ marks[m].used <= blocks'[i].used
    BY <1>1, <1>2, <1>5 DEF MarksInChain
  <2>2. \A m \in DOMAIN marks : marks[m].count <= Len(live')
    BY <1>4, <1>5, <1>8, <1>9 DEF LiveInOrder
  <2> QED
    BY <2>1, <2>2 DEF MarksInChain
<1>11. \A m \in DOMAIN marks : \A i \in DOMAIN blocks' :
          blocks'[i].id = marks[m].block => i \in DOMAIN blocks /\ blocks[i].id = marks[m].block
  BY <1>2, <1>3, ArenaAssumption DEF MarksInChain
<1>12. MarksInOrder'
  <2>1. ASSUME NEW m \in DOMAIN marks, NEW n \in DOMAIN marks, m < n
        PROVE  /\ marks[m].count <= marks[n].count
               /\ marks[n].block = NoBlock => marks[m].block = NoBlock
               /\ \A i, j \in DOMAIN blocks' :
                     blocks'[i].id = marks[m].block /\ blocks'[j].id = marks[n].block
                         => UpTo(i, marks[m].used, j, marks[n].used)
    BY <1>11, <2>1 DEF MarksInOrder
  <2>2. ASSUME NEW m \in DOMAIN marks, NEW a \in 1 .. marks[m].count,
               NEW i \in DOMAIN blocks', NEW j \in DOMAIN blocks',
               blocks'[j].id = live'[a].id, blocks'[i].id = marks[m].block
        PROVE  UpTo(j, live'[a].to, i, marks[m].used)
    <3>1. a \in DOMAIN live /\ live'[a] = live[a]
      BY <1>4, <1>5, <1>9
    <3>2. j \in DOMAIN blocks /\ blocks[j].id = live[a].id
      BY <1>3, <1>6, <2>2, <3>1
    <3> QED
      BY <1>11, <2>2, <3>1, <3>2 DEF MarksInOrder
  <2> QED
    BY <2>1, <2>2 DEF MarksInOrder, UpTo
<1> QED
  BY <1>8, <1>10, <1>12

\* The newest block keeps its place when it is written.
LEMMA NewestWritten ==
  ASSUME Chain, backend' = backend, held' = held, blocks # <<>>,
         NEW c, Shaped(c), c.id = Newest.id, blocks' = WithNewest(c)
  PROVE  /\ Chain' /\ blocks' # <<>> /\ Len(blocks') = Len(blocks)
         /\ DOMAIN blocks' = DOMAIN blocks /\ blocks'[Len(blocks)] = c
         /\ \A i \in DOMAIN blocks : i # Len(blocks) => blocks'[i] = blocks[i]
<1>1. /\ Len(blocks) \in DOMAIN blocks /\ Len(blocks) \in Nat
      /\ DOMAIN blocks = 1 .. Len(blocks) /\ blocks \in Seq(BlockRecords) /\ c \in BlockRecords
  BY ChainDomain DEF Chain, Shaped
<1>2. /\ blocks' \in Seq(BlockRecords) /\ Len(blocks') = Len(blocks)
      /\ DOMAIN blocks' = DOMAIN blocks /\ blocks'[Len(blocks)] = c
      /\ \A i \in DOMAIN blocks : i # Len(blocks) => blocks'[i] = blocks[i]
  BY <1>1 DEF WithNewest
<1>3. \A i \in DOMAIN blocks : blocks'[i].id = blocks[i].id
  BY <1>2 DEF Newest
<1>4. \A i \in DOMAIN blocks : Shaped(blocks'[i])
  BY <1>2 DEF Chain
<1>5. \A i \in DOMAIN blocks' : Shaped(blocks[i])'
  BY <1>2, <1>4 DEF Shaped
<1>6. Ids(blocks') = Ids(blocks)
  BY <1>2, <1>3 DEF Ids
<1> QED
  BY <1>1, <1>2, <1>3, <1>5, <1>6 DEF Chain

\* A block that was not held joins the chain as its newest.
LEMMA BlockJoins ==
  ASSUME Chain, backend \in {"heap", "virtual"}, backend' = backend,
         NEW c, Shaped(c), c.id \notin held, held' = held \cup {c.id},
         blocks' = Append(blocks, c)
  PROVE  /\ Chain' /\ blocks' # <<>> /\ Len(blocks') = Len(blocks) + 1
         /\ Len(blocks) \in Nat /\ DOMAIN blocks = 1 .. Len(blocks)
         /\ blocks'[Len(blocks) + 1] = c
         /\ \A i \in DOMAIN blocks : i \in DOMAIN blocks' /\ blocks'[i] = blocks[i]
<1>1. blocks \in Seq(BlockRecords) /\ c \in BlockRecords
  BY DEF Chain, Shaped
<1>2. /\ blocks' \in Seq(BlockRecords) /\ Len(blocks') = Len(blocks) + 1
      /\ DOMAIN blocks = 1 .. Len(blocks) /\ DOMAIN blocks' = 1 .. Len(blocks) + 1
      /\ \A i \in DOMAIN blocks : blocks'[i] = blocks[i]
      /\ blocks'[Len(blocks) + 1] = c
  BY <1>1, Appended
<1>3. Len(blocks) \in Nat
  BY <1>1
<1>4. \A i \in DOMAIN blocks' : i \in DOMAIN blocks \/ i = Len(blocks) + 1
  BY <1>2, <1>3
<1>5. \A i \in DOMAIN blocks' : Shaped(blocks[i])'
  <2>1. \A i \in DOMAIN blocks' : Shaped(blocks'[i])
    BY <1>2, <1>4 DEF Chain
  <2> QED
    BY <2>1 DEF Shaped
<1>6. Ids(blocks') = Ids(blocks) \cup {c.id}
  BY <1>2, <1>3, <1>4 DEF Ids
<1>7. \A i \in DOMAIN blocks : blocks[i].id # c.id
  BY DEF Chain, Ids
<1>8. \A i, j \in DOMAIN blocks' : blocks'[i].id = blocks'[j].id => i = j
  BY <1>2, <1>4, <1>7 DEF Chain
<1> QED
  BY <1>2, <1>3, <1>5, <1>6, <1>8 DEF Chain

LEMMA NewestAllocates ==
  ASSUME ArenaInv, NEW size \in Sizes, AllocInNewest(size)
  PROVE  ArenaInv'
<1>1. /\ blocks # <<>> /\ Room(Newest, size) /\ backend \in {"heap", "virtual"}
      /\ Issue(Newest, size) /\ UNCHANGED <<backend, held, marks>>
  BY DEF ArenaInv, Chain, AllocInNewest, Asked
<1>2. PICK c \in Allocated(Newest, size) : blocks' = WithNewest(c)
  BY DEF AllocInNewest
<1>3. /\ Len(blocks) \in DOMAIN blocks /\ Len(blocks) \in Nat /\ DOMAIN blocks = 1 .. Len(blocks)
      /\ Shaped(Newest) /\ Newest.id \in Blocks /\ Newest.used \in Nat
      /\ Newest = blocks[Len(blocks)]
      /\ \A i \in DOMAIN blocks : blocks[i].used \in Nat
  BY <1>1, ChainDomain DEF ArenaInv, Newest
<1>4. Shaped(c) /\ c.id = Newest.id /\ c.used = EndOf(Newest, size)
  BY <1>1, <1>3, AllocatedBlock
<1> DEFINE x == Allocation(Newest, size)
<1>5. /\ x \in Allocations /\ x.id = Newest.id /\ x.from % Align = 0 /\ x.from <= x.to
      /\ Newest.used <= x.from /\ x.to = c.used /\ x.from \in Nat /\ x.to \in Nat
  BY <1>3, <1>4, AllocationPlaced DEF Allocations
<1>6. /\ Chain' /\ blocks' # <<>> /\ Len(blocks') = Len(blocks)
      /\ DOMAIN blocks' = DOMAIN blocks /\ blocks'[Len(blocks)] = c
      /\ \A i \in DOMAIN blocks : i # Len(blocks) => blocks'[i] = blocks[i]
  BY <1>1, <1>2, <1>4, NewestWritten DEF ArenaInv
<1>7. live' = Append(live, x)
  BY <1>1 DEF Issue
<1> HIDE DEF x
<1>8. \A i \in DOMAIN blocks : /\ i \in DOMAIN blocks' /\ blocks'[i].id = blocks[i].id
                               /\ blocks[i].used <= blocks'[i].used
  BY <1>3, <1>4, <1>5, <1>6
<1>9. /\ blocks'[Len(blocks')].id = x.id /\ x.to <= blocks'[Len(blocks')].used
      /\ blocks[Len(blocks')].used <= x.from
  BY <1>3, <1>4, <1>5, <1>6
<1> QED
  BY <1>1, <1>5, <1>6, <1>7, <1>8, <1>9, AllocationKeepsOrder

LEMMA NewAllocates ==
  ASSUME ArenaInv, NEW size \in Sizes, AllocInNew(size)
  PROVE  ArenaInv'
<1>1. backend \in {"heap", "virtual"} /\ UNCHANGED <<backend, marks>>
  BY DEF ArenaInv, Chain, AllocInNew, Asked
<1>2. PICK id \in Blocks \ held :
        LET new == NewBlock(id, size)
        IN  /\ held' = held \cup {id}
            /\ \/ /\ \E b \in Allocated(new, size) : blocks' = Append(blocks, b)
                  /\ Issue(new, size)
               \/ /\ NeedsCommit(new, EndOf(new, size))
                  /\ blocks' = Append(blocks, new)
                  /\ UNCHANGED live
  BY DEF AllocInNew
<1> DEFINE new == NewBlock(id, size)
           x == Allocation(new, size)
<1>3. Shaped(new) /\ Room(new, size) /\ new.id = id /\ new.used = 0
  BY <1>1, NewBlockShaped
<1>4. PICK c : /\ Shaped(c) /\ c.id = id /\ blocks' = Append(blocks, c)
               /\ \/ live' = live
                  \/ live' = Append(live, x) /\ c.used = EndOf(new, size)
  <2>1. CASE /\ \E b \in Allocated(new, size) : blocks' = Append(blocks, b)
             /\ Issue(new, size)
    BY <1>1, <1>3, <2>1, AllocatedBlock DEF Issue
  <2>2. CASE blocks' = Append(blocks, new) /\ UNCHANGED live
    BY <1>3, <2>2
  <2> QED
    BY <1>2, <2>1, <2>2
<1>5. held' = held \cup {id}
  BY <1>2
<1>6. /\ x \in Allocations /\ x.id = id /\ x.from % Align = 0 /\ x.from <= x.to
      /\ x.to = EndOf(new, size) /\ x.to \in Nat
  BY <1>3, AllocationPlaced DEF Allocations
<1>7. /\ Chain' /\ blocks' # <<>> /\ Len(blocks') = Len(blocks) + 1
      /\ Len(blocks) \in Nat /\ DOMAIN blocks = 1 .. Len(blocks)
      /\ blocks'[Len(blocks) + 1] = c
      /\ \A i \in DOMAIN blocks : i \in DOMAIN blocks' /\ blocks'[i] = blocks[i]
  BY <1>1, <1>4, <1>5, BlockJoins DEF ArenaInv
<1> HIDE DEF x, new
<1>8. Len(blocks') \notin DOMAIN blocks
  BY <1>7
<1>9. \A i \in DOMAIN blocks : /\ i \in DOMAIN blocks' /\ blocks'[i].id = blocks[i].id
                               /\ blocks[i].used <= blocks'[i].used
  BY <1>7, ChainDomain DEF ArenaInv
<1>10. \/ live' = live
       \/ /\ live' = Append(live, x)
          /\ blocks'[Len(blocks')].id = x.id /\ x.to <= blocks'[Len(blocks')].used
  BY <1>4, <1>6, <1>7
<1> QED
  BY <1>1, <1>4, <1>6, <1>7, <1>8, <1>9, <1>10, AllocationKeepsOrder

\* Shaped does not depend on the offsets below what is committed.
LEMMA UsedLess ==
  ASSUME NEW b, Shaped(b), NEW used \in Nat, used <= b.used
  PROVE  Shaped([b EXCEPT !.used = used])
<1>1. b \in BlockRecords /\ b.used \in Nat /\ b.capacity \in Nat /\ b.committed \in Nat
  BY DEF Shaped, BlockRecords
<1> QED
  BY <1>1, ArenaAssumption DEF Shaped, BlockRecords

LEMMA ChainEmptied ==
  ASSUME Chain, backend' = backend, held' = held, blocks' = Emptied(blocks)
  PROVE  Chain'
<1>1. /\ blocks \in Seq(BlockRecords) /\ Len(blocks) \in Nat /\ DOMAIN blocks = 1 .. Len(blocks)
      /\ \A i \in DOMAIN blocks : Shaped(blocks[i]) /\ blocks[i].used \in Nat
  BY ChainDomain DEF Chain
<1>2. /\ DOMAIN blocks' = DOMAIN blocks
      /\ \A i \in DOMAIN blocks : blocks'[i] = [blocks[i] EXCEPT !.used = 0]
  BY DEF Emptied
<1>3. \A i \in DOMAIN blocks : Shaped(blocks'[i]) /\ blocks'[i].id = blocks[i].id
  <2> TAKE i \in DOMAIN blocks
  <2>1. blocks[i] \in BlockRecords
    BY <1>1 DEF Shaped
  <2>2. Shaped([blocks[i] EXCEPT !.used = 0])
    BY <1>1, UsedLess
  <2> QED
    BY <1>2, <2>1, <2>2 DEF BlockRecords
<1>4. blocks' \in Seq(BlockRecords)
  <2>1. blocks' \in [1 .. Len(blocks) -> BlockRecords]
    BY <1>1, <1>2, <1>3 DEF Shaped, Emptied
  <2> QED
    BY <1>1, <2>1
<1>5. Ids(blocks') = Ids(blocks)
  BY <1>2, <1>3 DEF Ids
<1>6. \A i \in DOMAIN blocks' : Shaped(blocks[i])'
  BY <1>2, <1>3 DEF Shaped
<1>7. blocks = <<>> => blocks' = <<>>
  BY <1>1, <1>2, <1>4
<1> QED
  BY <1>2, <1>3, <1>4, <1>5, <1>6, <1>7 DEF Chain

LEMMA ResetEmpties == ASSUME ArenaInv, Reset PROVE ArenaInv'
<1>1. Chain'
  BY ChainEmptied DEF Reset, ArenaInv
<1>2. live' = <<>> /\ marks' = <<>> /\ DOMAIN live' = {} /\ DOMAIN marks' = {}
  BY DEF Reset
<1> QED
  BY <1>1, <1>2 DEF ArenaInv, LiveInOrder, MarksInChain, MarksInOrder

LEMMA DeinitEmpties == ASSUME ArenaInv, ArenaDeinit PROVE ArenaInv'
<1>1. /\ live' = <<>> /\ marks' = <<>> /\ blocks' = <<>> /\ backend' = "none"
      /\ DOMAIN live' = {} /\ DOMAIN marks' = {} /\ DOMAIN blocks' = {}
  BY DEF ArenaDeinit
<1>2. held' = Ids(blocks')
  BY <1>1 DEF ArenaDeinit, ArenaInv, Chain, Ids
<1> QED
  BY <1>1, <1>2 DEF ArenaInv, Chain, LiveInOrder, MarksInChain, MarksInOrder

\* What was allocated so far lies before a new mark, and so do the older marks.
LEMMA MarkKeepsOrder == ASSUME ArenaInv, Mark PROVE ArenaInv'
<1> USE DEF ArenaInv
<1> DEFINE mark == [block |-> IF blocks = <<>> THEN NoBlock ELSE Newest.id,
                    used |-> IF blocks = <<>> THEN 0 ELSE Newest.used,
                    count |-> Len(live)]
<1>1. marks' = Append(marks, mark) /\ UNCHANGED <<backend, blocks, held, live>>
  BY DEF Mark
<1>2. /\ Len(blocks) \in Nat /\ DOMAIN blocks = 1 .. Len(blocks)
      /\ \A i \in DOMAIN blocks : blocks[i].used \in Nat /\ blocks[i].id \in Blocks
      /\ blocks # <<>> => /\ Len(blocks) \in DOMAIN blocks /\ Newest = blocks[Len(blocks)]
      /\ \A i, j \in DOMAIN blocks : blocks[i].id = blocks[j].id => i = j
  BY ChainDomain DEF Newest, Chain
<1>3. /\ Len(live) \in Nat /\ DOMAIN live = 1 .. Len(live)
      /\ \A a \in DOMAIN live : live[a].to \in Nat
  BY LiveDomain
<1>4. mark \in Marks
  BY <1>2, <1>3 DEF Marks
<1>5. /\ mark.count = Len(live)
      /\ blocks = <<>> => mark.block = NoBlock
      /\ blocks # <<>> => mark.block = Newest.id /\ mark.used = Newest.used
  OBVIOUS
<1> HIDE DEF mark
<1>6. /\ marks \in Seq(Marks) /\ Len(marks) \in Nat /\ DOMAIN marks = 1 .. Len(marks)
      /\ \A m \in DOMAIN marks : marks[m].count \in Nat /\ marks[m].used \in Nat
  BY MarksDomain DEF MarksInChain
<1>7. /\ marks' \in Seq(Marks) /\ DOMAIN marks' = 1 .. Len(marks) + 1
      /\ \A m \in DOMAIN marks : marks'[m] = marks[m]
      /\ marks'[Len(marks) + 1] = mark
  BY <1>1, <1>4, <1>6, Appended
<1>8. \A m \in DOMAIN marks' : m \in DOMAIN marks \/ m = Len(marks) + 1
  BY <1>6, <1>7
<1>9. MarksInChain'
  <2>1. blocks = <<>> => Len(live) = 0
    <3>1. blocks = <<>> => DOMAIN blocks = {}
      OBVIOUS
    <3>2. blocks = <<>> => DOMAIN live = {}
      BY <3>1 DEF LiveInOrder
    <3> QED
      BY <1>3, <3>2
  <2>2. ASSUME NEW m \in DOMAIN marks'
        PROVE  /\ marks'[m].count <= Len(live)
               /\ \/ marks'[m].block = NoBlock /\ marks'[m].count = 0
                  \/ \E i \in DOMAIN blocks : blocks[i].id = marks'[m].block
                                              /\ marks'[m].used <= blocks[i].used
    <3>1. CASE m \in DOMAIN marks
      BY <1>7, <3>1 DEF MarksInChain
    <3>2. CASE m = Len(marks) + 1
      BY <1>2, <1>3, <1>5, <1>7, <2>1, <3>2
    <3> QED
      BY <1>8, <3>1, <3>2
  <2> QED
    BY <1>1, <1>7, <2>2 DEF MarksInChain
<1>10. MarksInOrder'
  <2>1. ASSUME NEW m \in DOMAIN marks', NEW n \in DOMAIN marks', m < n
        PROVE  /\ marks'[m].count <= marks'[n].count
               /\ marks'[n].block = NoBlock => marks'[m].block = NoBlock
               /\ \A i, j \in DOMAIN blocks :
                     blocks[i].id = marks'[m].block /\ blocks[j].id = marks'[n].block
                         => UpTo(i, marks'[m].used, j, marks'[n].used)
    <3>1. m \in DOMAIN marks
      BY <1>6, <1>7, <2>1
    <3>2. CASE n \in DOMAIN marks
      BY <1>7, <2>1, <3>1, <3>2 DEF MarksInOrder
    <3>3. CASE n = Len(marks) + 1
      <4>1. marks'[m] = marks[m] /\ marks'[n] = mark
        BY <1>7, <3>1, <3>3
      <4>2. marks[m].count <= mark.count
        BY <1>5, <3>1 DEF MarksInChain
      <4>3. ASSUME mark.block = NoBlock PROVE marks[m].block = NoBlock
        <5>1. blocks = <<>>
          BY <1>2, <1>5, <4>3, ArenaAssumption
        <5>2. DOMAIN blocks = {}
          BY <5>1
        <5> QED
          BY <3>1, <5>2 DEF MarksInChain
      <4>4. ASSUME NEW i \in DOMAIN blocks, NEW j \in DOMAIN blocks,
                   blocks[i].id = marks[m].block, blocks[j].id = mark.block
            PROVE  UpTo(i, marks[m].used, j, mark.used)
        <5>1. blocks # <<>>
          BY <1>2, <1>5, <4>4, ArenaAssumption
        <5>2. j = Len(blocks) /\ mark.used = blocks[j].used
          BY <1>2, <1>5, <4>4, <5>1
        <5>3. marks[m].used <= blocks[i].used
          BY <1>2, <3>1, <4>4, ArenaAssumption DEF MarksInChain
        <5> QED
          BY <1>2, <1>6, <3>1, <5>2, <5>3 DEF UpTo
      <4> QED
        BY <4>1, <4>2, <4>3, <4>4
    <3> QED
      BY <1>8, <3>2, <3>3
  <2>2. ASSUME NEW m \in DOMAIN marks', NEW a \in 1 .. marks'[m].count,
               NEW i \in DOMAIN blocks, NEW j \in DOMAIN blocks,
               blocks[j].id = live[a].id, blocks[i].id = marks'[m].block
        PROVE  UpTo(j, live[a].to, i, marks'[m].used)
    <3>1. CASE m \in DOMAIN marks
      BY <1>7, <2>2, <3>1 DEF MarksInOrder
    <3>2. CASE m = Len(marks) + 1
      <4>1. marks'[m] = mark /\ a \in DOMAIN live
        BY <1>3, <1>5, <1>7, <3>2
      <4>2. blocks # <<>>
        BY <1>2, <1>5, <2>2, <4>1, ArenaAssumption
      <4>3. i = Len(blocks) /\ mark.used = blocks[i].used
        BY <1>2, <1>5, <2>2, <4>1, <4>2
      <4>4. live[a].to <= blocks[j].used
        BY <1>2, <2>2, <4>1 DEF LiveInOrder
      <4> QED
        BY <1>2, <1>3, <4>1, <4>3, <4>4 DEF UpTo
    <3> QED
      BY <1>8, <3>1, <3>2
  <2> QED
    BY <1>1, <1>7, <2>1, <2>2 DEF MarksInOrder, UpTo
<1>11. Chain' /\ LiveInOrder'
  BY <1>1 DEF Chain, Shaped, LiveInOrder, UpTo, Ids
<1> QED
  BY <1>9, <1>10, <1>11

LEMMA NothingLive == ASSUME live' = <<>> PROVE LiveInOrder'
  BY DEF LiveInOrder

\* A rewind to a mark that was taken before the first block empties them all.
LEMMA RewindToStart ==
  ASSUME ArenaInv, NEW i \in DOMAIN marks, marks[i].block = NoBlock,
         UNCHANGED <<backend, held>>, blocks' = Emptied(blocks),
         live' = SubSeq(live, 1, marks[i].count), marks' = SubSeq(marks, 1, i)
  PROVE  ArenaInv'
<1> USE DEF ArenaInv
<1>1. /\ marks \in Seq(Marks) /\ Len(marks) \in Nat /\ DOMAIN marks = 1 .. Len(marks)
      /\ \A m \in DOMAIN marks : marks[m].count \in Nat
  BY MarksDomain DEF MarksInChain
<1>2. \A k \in DOMAIN blocks : blocks[k].id # NoBlock
  BY ChainDomain, ArenaAssumption
<1>3. \A m \in 1 .. i : m \in DOMAIN marks /\ marks[m].block = NoBlock
  <2> SUFFICES ASSUME NEW m \in 1 .. i PROVE m \in DOMAIN marks /\ marks[m].block = NoBlock
    OBVIOUS
  <2>1. m \in DOMAIN marks /\ (m < i \/ m = i)
    BY <1>1
  <2>2. MarksInOrder
    OBVIOUS
  <2> HIDE DEF ArenaInv
  <2>3. QED
    BY <2>1, <2>2 DEF MarksInOrder
<1>4. \A m \in 1 .. i : marks[m].count = 0
  BY <1>2, <1>3 DEF MarksInChain
<1>5. /\ marks' \in Seq(Marks) /\ DOMAIN marks' = 1 .. i
      /\ \A m \in 1 .. i : marks'[m] = marks[m]
  BY <1>1, Shortened
<1>6. live' = <<>> /\ DOMAIN live' = {} /\ Len(live') = 0
  <2>1. live \in Seq(Allocations) /\ marks[i].count = 0
    BY <1>1, <1>4 DEF LiveInOrder
  <2> QED
    BY <2>1
<1>7. Chain'
  BY ChainEmptied
<1>8. /\ DOMAIN blocks' = DOMAIN blocks
      /\ \A k \in DOMAIN blocks' : blocks'[k].id # NoBlock
  <2>1. \A k \in DOMAIN blocks : blocks[k] \in BlockRecords
    BY ChainDomain
  <2> QED
    BY <1>2, <2>1 DEF Emptied, BlockRecords
<1>9. LiveInOrder'
  BY <1>6, NothingLive
<1>10. MarksInChain'
  <2>1. \A m \in DOMAIN marks' : marks'[m].block = NoBlock /\ marks'[m].count = 0
    BY <1>3, <1>4, <1>5
  <2>2. marks' \in Seq(Marks)
    BY <1>5
  <2>3. \A m \in DOMAIN marks' : marks'[m].count <= Len(live')
    <3>1. Len(live') = 0
      BY <1>6, Zenon
    <3>2. 0 <= 0
      OBVIOUS
    <3> QED
      BY <2>1, <3>1, <3>2, Zenon
  <2> QED
    BY <2>1, <2>2, <2>3 DEF MarksInChain
<1>11. MarksInOrder'
  BY <1>3, <1>4, <1>5, <1>8 DEF MarksInOrder
<1> QED
  BY <1>7, <1>9, <1>10, <1>11

\* A rewind to a mark in a block drops the newer blocks, and what was allocated after.
LEMMA ChainRewound ==
  ASSUME ArenaInv, NEW place \in DOMAIN blocks, NEW used \in Nat, used <= blocks[place].used,
         backend' = backend, blocks' = Rewound(place, used),
         held' = held \ {blocks[n].id : n \in place + 1 .. Len(blocks)}
  PROVE  /\ Chain' /\ DOMAIN blocks' = 1 .. place
         /\ blocks'[place] = [blocks[place] EXCEPT !.used = used]
         /\ \A k \in 1 .. place : /\ k # place => blocks'[k] = blocks[k]
                                  /\ blocks'[k].id = blocks[k].id
<1> USE DEF ArenaInv
<1>1. /\ Len(blocks) \in Nat /\ DOMAIN blocks = 1 .. Len(blocks) /\ blocks \in Seq(BlockRecords)
      /\ \A k \in DOMAIN blocks : blocks[k].used \in Nat /\ Shaped(blocks[k])
                                  /\ blocks[k] \in BlockRecords
      /\ \A j, k \in DOMAIN blocks : blocks[j].id = blocks[k].id => j = k
  BY ChainDomain DEF Chain
<1> DEFINE kept == SubSeq(blocks, 1, place)
<1>2. /\ kept \in Seq(BlockRecords) /\ Len(kept) = place /\ DOMAIN kept = 1 .. place
      /\ \A k \in 1 .. place : kept[k] = blocks[k] /\ k \in DOMAIN blocks
  BY <1>1, Shortened
<1>3. blocks' = [kept EXCEPT ![place] = [blocks[place] EXCEPT !.used = used]]
  <2>1. AtMost(used, blocks[place].used) = used
    BY <1>1 DEF AtMost
  <2>2. kept[place] = blocks[place]
    BY <1>1, <1>2
  <2>3. blocks' = [kept EXCEPT ![place] =
                      [kept[place] EXCEPT !.used = AtMost(used, kept[place].used)]]
    BY DEF Rewound
  <2> HIDE DEF kept
  <2> QED
    BY <2>1, <2>2, <2>3
<1> HIDE DEF kept
<1>4. /\ DOMAIN blocks' = 1 .. place
      /\ blocks'[place] = [blocks[place] EXCEPT !.used = used]
      /\ \A k \in 1 .. place : k # place => blocks'[k] = blocks[k]
  BY <1>1, <1>2, <1>3
<1>5. /\ Shaped([blocks[place] EXCEPT !.used = used])
      /\ [blocks[place] EXCEPT !.used = used].id = blocks[place].id
  BY <1>1, UsedLess DEF BlockRecords
<1>6. \A k \in 1 .. place : Shaped(blocks'[k]) /\ blocks'[k].id = blocks[k].id
  BY <1>1, <1>2, <1>4, <1>5
<1>7. blocks' \in Seq(BlockRecords) /\ blocks' # <<>>
  <2>1. blocks' \in [1 .. place -> BlockRecords]
    BY <1>2, <1>3, <1>4, <1>6 DEF Shaped
  <2> QED
    BY <1>1, <1>4, <2>1
<1>8. \A k \in DOMAIN blocks' : Shaped(blocks[k])'
  BY <1>4, <1>6 DEF Shaped
<1>9. held' = Ids(blocks')
  <2>1. Ids(blocks') = {blocks[k].id : k \in 1 .. place}
    BY <1>4, <1>6 DEF Ids
  <2>2. Ids(blocks) = {blocks[k].id : k \in 1 .. Len(blocks)} /\ held = Ids(blocks)
    BY <1>1 DEF Ids, Chain
  <2> QED
    BY <1>1, <2>1, <2>2
<1>10. \A j, k \in DOMAIN blocks' : blocks'[j].id = blocks'[k].id => j = k
  BY <1>1, <1>2, <1>4, <1>6
<1>11. backend' # "none"
  BY <1>1 DEF Chain
<1> QED
  BY <1>4, <1>6, <1>7, <1>8, <1>9, <1>10, <1>11 DEF Chain

LEMMA RewindToBlock ==
  ASSUME ArenaInv, NEW i \in DOMAIN marks, NEW place \in DOMAIN blocks,
         blocks[place].id = marks[i].block, backend' = backend,
         blocks' = Rewound(place, marks[i].used),
         held' = held \ {blocks[n].id : n \in place + 1 .. Len(blocks)},
         live' = SubSeq(live, 1, marks[i].count), marks' = SubSeq(marks, 1, i)
  PROVE  ArenaInv'
<1> USE DEF ArenaInv
<1> DEFINE mark == marks[i]
<1>1. /\ Len(blocks) \in Nat /\ DOMAIN blocks = 1 .. Len(blocks)
      /\ \A k \in DOMAIN blocks : /\ blocks[k].used \in Nat /\ blocks[k].id # NoBlock
                                  /\ blocks[k] \in BlockRecords
      /\ \A j, k \in DOMAIN blocks : blocks[j].id = blocks[k].id => j = k
  BY ChainDomain, ArenaAssumption DEF Chain
<1>2. /\ marks \in Seq(Marks) /\ Len(marks) \in Nat /\ DOMAIN marks = 1 .. Len(marks)
      /\ \A m \in DOMAIN marks : marks[m].count \in Nat /\ marks[m].used \in Nat
  BY MarksDomain DEF MarksInChain
<1>3. /\ live \in Seq(Allocations) /\ Len(live) \in Nat /\ DOMAIN live = 1 .. Len(live)
      /\ \A a \in DOMAIN live : live[a].to \in Nat /\ live[a].from \in Nat
  BY LiveDomain DEF LiveInOrder
<1>4. mark.used <= blocks[place].used /\ mark.count \in 0 .. Len(live)
  BY <1>1, <1>2, <1>3 DEF MarksInChain
<1>5. /\ Chain' /\ DOMAIN blocks' = 1 .. place
      /\ blocks'[place] = [blocks[place] EXCEPT !.used = mark.used]
      /\ \A k \in 1 .. place : /\ k # place => blocks'[k] = blocks[k]
                               /\ blocks'[k].id = blocks[k].id
  BY <1>2, <1>4, ChainRewound
<1>6. blocks'[place].used = mark.used
  BY <1>1, <1>5 DEF BlockRecords
<1>7. /\ live' \in Seq(Allocations) /\ DOMAIN live' = 1 .. mark.count /\ Len(live') = mark.count
      /\ \A a \in 1 .. mark.count : live'[a] = live[a] /\ a \in DOMAIN live
  BY <1>3, <1>4, Shortened
<1>8. /\ marks' \in Seq(Marks) /\ DOMAIN marks' = 1 .. i
      /\ \A m \in 1 .. i : marks'[m] = marks[m] /\ m \in DOMAIN marks
  BY <1>2, Shortened
<1> HIDE DEF mark
<1>9. \A k \in 1 .. place : k \in DOMAIN blocks
  BY <1>1
<1>10. \A a \in 1 .. mark.count : \E k \in 1 .. place :
          /\ blocks[k].id = live[a].id /\ live[a].to <= blocks'[k].used
  <2> SUFFICES ASSUME NEW a \in 1 .. mark.count
               PROVE  \E k \in 1 .. place :
                         blocks[k].id = live[a].id /\ live[a].to <= blocks'[k].used
    OBVIOUS
  <2>1. PICK k \in DOMAIN blocks : blocks[k].id = live[a].id /\ live[a].to <= blocks[k].used
    BY <1>7 DEF LiveInOrder
  <2>2. UpTo(k, live[a].to, place, mark.used)
    BY <2>1 DEF MarksInOrder, mark
  <2>3. k \in 1 .. place
    BY <1>1, <2>2 DEF UpTo
  <2>4. live[a].to <= blocks'[k].used
    <3>1. CASE k = place
      BY <1>1, <1>6, <2>2, <3>1 DEF UpTo
    <3>2. CASE k # place
      BY <1>5, <2>1, <2>3, <3>2
    <3> QED
      BY <3>1, <3>2
  <2> QED
    BY <2>1, <2>3, <2>4
<1>11. LiveInOrder'
  <2>1. \A a \in DOMAIN live' :
          /\ live'[a].from % Align = 0 /\ live'[a].from <= live'[a].to
          /\ \E k \in DOMAIN blocks' :
                blocks'[k].id = live'[a].id /\ live'[a].to <= blocks'[k].used
    <3> TAKE a \in DOMAIN live'
    <3>1. a \in DOMAIN live /\ live'[a] = live[a] /\ a \in 1 .. mark.count
      BY <1>7
    <3>2. live[a].from % Align = 0 /\ live[a].from <= live[a].to
      BY <3>1 DEF LiveInOrder
    <3>3. PICK k \in 1 .. place : blocks[k].id = live[a].id /\ live[a].to <= blocks'[k].used
      BY <1>10, <3>1
    <3> QED
      BY <1>5, <3>1, <3>2, <3>3
  <2>2. ASSUME NEW a \in DOMAIN live', NEW b \in DOMAIN live', a < b,
               NEW j \in DOMAIN blocks', NEW k \in DOMAIN blocks',
               blocks'[j].id = live'[a].id, blocks'[k].id = live'[b].id
        PROVE  UpTo(j, live'[a].to, k, live'[b].from)
    BY <1>5, <1>7, <1>9, <2>2 DEF LiveInOrder
  <2>3. live' \in Seq(Allocations)
    BY <1>7
  <2> HIDE DEF ArenaInv
  <2> QED
    BY <2>1, <2>2, <2>3 DEF LiveInOrder, UpTo
<1>12. \A m \in 1 .. i : marks[m].count <= mark.count
  <2> SUFFICES ASSUME NEW m \in 1 .. i PROVE marks[m].count <= mark.count
    OBVIOUS
  <2>1. m \in DOMAIN marks /\ i \in DOMAIN marks /\ (m < i \/ m = i)
    BY <1>2, <1>8
  <2>2. MarksInOrder /\ mark = marks[i] /\ mark.count \in Nat
    BY <1>2 DEF mark
  <2> HIDE DEF ArenaInv
  <2>3. QED
    BY <2>1, <2>2 DEF MarksInOrder
<1>13. MarksInChain'
  <2>1. ASSUME NEW m \in 1 .. i
        PROVE  \/ marks[m].block = NoBlock /\ marks[m].count = 0
               \/ \E k \in 1 .. place :
                     blocks'[k].id = marks[m].block /\ marks[m].used <= blocks'[k].used
    <3>1. CASE m = i
      <4>1. blocks'[place].id = marks[i].block /\ place \in 1 .. place
        BY <1>1, <1>5
      <4>2. marks[i].used <= blocks'[place].used
        BY <1>2, <1>6 DEF mark
      <4> QED
        BY <3>1, <4>1, <4>2
    <3>2. CASE m # i
      <4>1. CASE marks[m].block = NoBlock /\ marks[m].count = 0
        BY <4>1
      <4>2. CASE \E k \in DOMAIN blocks :
                    blocks[k].id = marks[m].block /\ marks[m].used <= blocks[k].used
        <5>1. PICK k \in DOMAIN blocks :
                    blocks[k].id = marks[m].block /\ marks[m].used <= blocks[k].used
          BY <4>2
        <5>2. m \in DOMAIN marks /\ i \in DOMAIN marks /\ m < i
          BY <1>2, <3>2
        <5>3. UpTo(k, marks[m].used, place, mark.used)
          BY <5>1, <5>2 DEF MarksInOrder, mark
        <5>4. k \in 1 .. place
          BY <1>1, <5>3 DEF UpTo
        <5>5. marks[m].used <= blocks'[k].used
          <6>1. CASE k = place
            BY <1>1, <1>6, <5>3, <6>1 DEF UpTo
          <6>2. CASE k # place
            BY <1>5, <5>1, <5>4, <6>2
          <6> QED
            BY <6>1, <6>2
        <5> QED
          BY <1>5, <5>1, <5>4, <5>5
      <4> QED
        BY <1>8, <4>1, <4>2 DEF MarksInChain
    <3> QED
      BY <3>1, <3>2
  <2>2. \A m \in DOMAIN marks' :
           /\ marks'[m].count <= Len(live')
           /\ \/ marks'[m].block = NoBlock /\ marks'[m].count = 0
              \/ \E k \in DOMAIN blocks' :
                    blocks'[k].id = marks'[m].block /\ marks'[m].used <= blocks'[k].used
    BY <1>5, <1>7, <1>8, <1>12, <2>1
  <2> QED
    BY <1>8, <2>2 DEF MarksInChain
<1>14. MarksInOrder'
  <2>1. ASSUME NEW m \in DOMAIN marks', NEW n \in DOMAIN marks', m < n
        PROVE  /\ marks'[m].count <= marks'[n].count
               /\ marks'[n].block = NoBlock => marks'[m].block = NoBlock
               /\ \A j, k \in DOMAIN blocks' :
                     blocks'[j].id = marks'[m].block /\ blocks'[k].id = marks'[n].block
                         => UpTo(j, marks'[m].used, k, marks'[n].used)
    <3>1. m \in 1 .. i /\ n \in 1 .. i /\ m \in DOMAIN marks /\ n \in DOMAIN marks
          /\ marks'[m] = marks[m] /\ marks'[n] = marks[n]
      BY <1>8
    <3>2. \A k \in DOMAIN blocks' : k \in DOMAIN blocks /\ blocks'[k].id = blocks[k].id
      BY <1>5, <1>9
    <3>3. /\ marks[m].count <= marks[n].count
          /\ marks[n].block = NoBlock => marks[m].block = NoBlock
          /\ \A j, k \in DOMAIN blocks :
                blocks[j].id = marks[m].block /\ blocks[k].id = marks[n].block
                    => UpTo(j, marks[m].used, k, marks[n].used)
      BY <2>1, <3>1 DEF MarksInOrder
    <3> QED
      BY <3>1, <3>2, <3>3
  <2>2. ASSUME NEW m \in DOMAIN marks', NEW a \in 1 .. marks'[m].count,
               NEW j \in DOMAIN blocks', NEW k \in DOMAIN blocks',
               blocks'[k].id = live'[a].id, blocks'[j].id = marks'[m].block
        PROVE  UpTo(k, live'[a].to, j, marks'[m].used)
    <3>1. a \in 1 .. mark.count /\ marks'[m] = marks[m] /\ m \in DOMAIN marks
          /\ marks[m].count \in Nat /\ m \in 1 .. i
      BY <1>2, <1>4, <1>8, <1>12
    <3>2. live'[a] = live[a] /\ a \in 1 .. marks[m].count
      BY <1>7, <3>1
    <3> QED
      BY <1>5, <1>9, <2>2, <3>1, <3>2 DEF MarksInOrder
  <2>3. \A m, n \in DOMAIN marks' : m < n =>
           /\ marks'[m].count <= marks'[n].count
           /\ marks'[n].block = NoBlock => marks'[m].block = NoBlock
           /\ \A j, k \in DOMAIN blocks' :
                 blocks'[j].id = marks'[m].block /\ blocks'[k].id = marks'[n].block
                     => UpTo(j, marks'[m].used, k, marks'[n].used)
    BY <2>1
  <2>4. \A m \in DOMAIN marks' : \A a \in 1 .. marks'[m].count : \A j, k \in DOMAIN blocks' :
           blocks'[k].id = live'[a].id /\ blocks'[j].id = marks'[m].block
               => UpTo(k, live'[a].to, j, marks'[m].used)
    BY <2>2
  <2> HIDE DEF ArenaInv
  <2> QED
    BY <2>3, <2>4 DEF MarksInOrder, UpTo
<1> QED
  BY <1>5, <1>11, <1>13, <1>14

\* The chain has the block of every mark, so a rewind finds it.
LEMMA RewindKeepsOrder ==
  ASSUME ArenaInv, NEW i \in DOMAIN marks, Rewind(i)
  PROVE  ArenaInv'
<1>1. /\ live' = SubSeq(live, 1, marks[i].count) /\ marks' = SubSeq(marks, 1, i)
      /\ backend' = backend
  BY DEF Rewind
<1>2. CASE marks[i].block = NoBlock /\ blocks' = Emptied(blocks) /\ UNCHANGED held
  BY <1>1, <1>2, RewindToStart
<1>3. ASSUME NEW place \in DOMAIN blocks, blocks[place].id = marks[i].block,
             blocks' = Rewound(place, marks[i].used),
             held' = held \ {blocks[n].id : n \in place + 1 .. Len(blocks)}
      PROVE  ArenaInv'
  BY <1>1, <1>3, RewindToBlock
<1>4. marks[i].block \in Ids(blocks) \cup {NoBlock}
  BY DEF ArenaInv, MarksInChain, Ids
<1> QED
  BY <1>2, <1>3, <1>4 DEF Rewind

LEMMA NextInOrder == ArenaInv /\ [ArenaNext]_arenaVars => ArenaInv'
<1> SUFFICES ASSUME ArenaInv, [ArenaNext]_arenaVars PROVE ArenaInv'
  OBVIOUS
<1>1. CASE Reset
  BY <1>1, ResetEmpties
<1>2. CASE Mark
  BY <1>2, MarkKeepsOrder
<1>3. CASE ArenaDeinit
  BY <1>3, DeinitEmpties
<1>4. ASSUME NEW b \in {"heap", "virtual"}, InitConfig(b) PROVE ArenaInv'
  <2>1. blocks = <<>> /\ blocks' = <<>> /\ backend' \in {"heap", "virtual"}
        /\ UNCHANGED <<held, live, marks>> /\ DOMAIN blocks = {}
    BY <1>4 DEF InitConfig, ArenaInv, Chain
  <2>2. Chain'
    BY <2>1 DEF ArenaInv, Chain
  <2>3. LiveInOrder' /\ MarksInChain' /\ MarksInOrder'
    BY <2>1 DEF ArenaInv, LiveInOrder, MarksInChain, MarksInOrder
  <2> QED
    BY <2>2, <2>3 DEF ArenaInv
<1>5. ASSUME NEW size \in Sizes, AllocInNewest(size) PROVE ArenaInv'
  BY <1>5, NewestAllocates
<1>6. ASSUME NEW size \in Sizes, AllocInNew(size) PROVE ArenaInv'
  BY <1>6, NewAllocates
<1>7. CASE UNCHANGED arenaVars
  BY <1>7 DEF arenaVars, ArenaInv, Chain, Shaped, LiveInOrder, MarksInChain, MarksInOrder, Ids
<1>8. ASSUME NEW size \in Sizes, AllocFails(size) PROVE ArenaInv'
  <2>1. UNCHANGED arenaVars
    BY <1>8 DEF AllocFails, Uncommitted, arenaVars
  <2> QED
    BY <1>7, <2>1
<1>9. ASSUME NEW i \in DOMAIN marks, Rewind(i) PROVE ArenaInv'
  BY <1>9, RewindKeepsOrder
<1> QED
  BY <1>1, <1>2, <1>3, <1>4, <1>5, <1>6, <1>7, <1>8, <1>9 DEF ArenaNext

\* What is live lies in the chain, in the order it was allocated, and so do the marks.
THEOREM ArenaOrder == ArenaSpec => []ArenaInv
  BY InitInOrder, NextInOrder, PTL DEF ArenaSpec

\* The chain of blocks is what the arena owns, and a mark that was not rewound past can be
\* rewound to.
THEOREM ArenaChainKept == ArenaSpec => []ChainKept
<1>1. ASSUME ArenaInv PROVE ChainKept
  <2>1. /\ Len(blocks) \in Nat /\ DOMAIN blocks = 1 .. Len(blocks)
        /\ held = {blocks[i].id : i \in 1 .. Len(blocks)}
        /\ \A i, j \in 1 .. Len(blocks) : blocks[i].id = blocks[j].id => i = j
    BY <1>1, ChainDomain DEF ArenaInv, Chain, Ids
  <2> DEFINE f == [i \in 1 .. Len(blocks) |-> blocks[i].id]
  <2>2. f \in Bijection(1 .. Len(blocks), held)
    <3>1. f \in [1 .. Len(blocks) -> held]
      BY <2>1
    <3>2. \A i, j \in 1 .. Len(blocks) : f[i] = f[j] => i = j
      BY <2>1
    <3>3. \A x \in held : \E i \in 1 .. Len(blocks) : f[i] = x
      BY <2>1
    <3> QED
      BY <3>1, <3>2, <3>3 DEF Bijection, Injection, Surjection, IsInjective
  <2>3. ExistsBijection(1 .. Len(blocks), held)
    BY <2>2 DEF ExistsBijection
  <2>4. Cardinality(held) = Len(blocks)
    BY <2>1, <2>3, FS_Interval, FS_Bijection
  <2>5. HeldIsOwned
    BY <1>1, <2>4 DEF HeldIsOwned, ArenaInv, Chain
  <2>6. MarksUsable
    BY <1>1 DEF MarksUsable, ArenaInv, MarksInChain
  <2> QED
    BY <2>5, <2>6 DEF ChainKept
<1> QED
  BY <1>1, ArenaOrder, PTL

----------------------------------------------------------------------------
(* Totals.  Induction is over a set of numbers.                             *)

LEMMA CountUp ==
  ASSUME NEW N \in Nat, NEW P, 0 \in P, \A n \in 1 .. N : n - 1 \in P => n \in P
  PROVE  0 .. N \subseteq P
<1> DEFINE Rest == {n \in 0 .. N : n \notin P}
<1> SUFFICES ASSUME Rest # {} PROVE FALSE
  OBVIOUS
<1>1. PICK n \in Rest : \A m \in Rest : ~(<<m, n>> \in OpToRel(<, Nat))
  <2>1. Rest \subseteq Nat
    OBVIOUS
  <2> HIDE DEF Rest
  <2> QED
    BY <2>1, NatLessThanWellFounded, WFMin
<1>2. n \in 1 .. N /\ n - 1 \in 0 .. N
  OBVIOUS
<1>3. n - 1 \in Rest
  BY <1>2
<1>4. <<n - 1, n>> \in OpToRel(<, Nat)
  BY <1>2 DEF OpToRel
<1> QED
  BY <1>1, <1>3, <1>4

\* S is the sequence of the partial sums of s.
Sums(S, s) ==
    /\ S \in [0 .. Len(s) -> Nat] /\ S[0] = 0
    /\ \A n \in 1 .. Len(s) : S[n] = S[n - 1] + s[n]

LEMMA SumsExist ==
  ASSUME NEW s \in Seq(Nat)
  PROVE  \E S : Sums(S, s) /\ Sum(s) = S[Len(s)]
<1> DEFINE Has(n) == \E S \in [0 .. n -> Nat] :
                        S[0] = 0 /\ \A m \in 1 .. n : S[m] = S[m - 1] + s[m]
           P == {n \in 0 .. Len(s) : Has(n)}
<1>1. Len(s) \in Nat /\ \A n \in 1 .. Len(s) : s[n] \in Nat
  OBVIOUS
<1>2. 0 \in P
  <2> DEFINE Z == [n \in 0 .. 0 |-> 0]
  <2>1. Z \in [0 .. 0 -> Nat] /\ Z[0] = 0 /\ \A m \in 1 .. 0 : Z[m] = Z[m - 1] + s[m]
    OBVIOUS
  <2> HIDE DEF Z
  <2>2. Has(0)
    BY <2>1
  <2> QED
    BY <1>1, <2>2
<1>3. ASSUME NEW n \in 1 .. Len(s), n - 1 \in P PROVE n \in P
  <2>1. PICK S \in [0 .. n - 1 -> Nat] :
           S[0] = 0 /\ \A m \in 1 .. n - 1 : S[m] = S[m - 1] + s[m]
    BY <1>3
  <2> DEFINE T == [m \in 0 .. n |-> IF m = n THEN S[n - 1] + s[n] ELSE S[m]]
  <2>2. T \in [0 .. n -> Nat] /\ T[0] = 0
    BY <1>1, <2>1
  <2>3. \A m \in 1 .. n : T[m] = T[m - 1] + s[m]
    BY <1>1, <2>1
  <2> HIDE DEF T
  <2>4. Has(n)
    BY <2>2, <2>3
  <2>5. n \in 0 .. Len(s)
    BY <1>1
  <2> HIDE DEF Has
  <2> QED
    BY <2>4, <2>5
<1>4. Has(Len(s))
  <2> HIDE DEF P
  <2>1. 0 .. Len(s) \subseteq P
    BY <1>1, <1>2, <1>3, CountUp
  <2>2. Len(s) \in P
    BY <1>1, <2>1
  <2> QED
    BY <2>2 DEF P
<1>5. PICK S \in [0 .. Len(s) -> Nat] :
         S[0] = 0 /\ \A m \in 1 .. Len(s) : S[m] = S[m - 1] + s[m]
  BY <1>4
<1> DEFINE Def(T) == T = [n \in 0 .. Len(s) |-> IF n = 0 THEN 0 ELSE T[n - 1] + s[n]]
<1>6. Def(S)
  BY <1>1, <1>5
<1> DEFINE T == CHOOSE f : Def(f)
<1>7. Def(T)
  BY <1>6
<1>8. Sum(s) = T[Len(s)]
  BY DEF Sum
<1> HIDE DEF T
<1>9. T[0] = 0 /\ \A n \in 1 .. Len(s) : T[n] = T[n - 1] + s[n]
  BY <1>1, <1>7
<1>10. 0 .. Len(s) \subseteq {n \in 0 .. Len(s) : T[n] = S[n]}
  <2> DEFINE Q == {n \in 0 .. Len(s) : T[n] = S[n]}
  <2>1. 0 \in Q
    BY <1>1, <1>5, <1>9
  <2>2. \A n \in 1 .. Len(s) : n - 1 \in Q => n \in Q
    BY <1>1, <1>5, <1>9
  <2> HIDE DEF Q
  <2>3. 0 .. Len(s) \subseteq Q
    BY <1>1, <2>1, <2>2, CountUp
  <2> QED
    BY <2>3 DEF Q
<1>11. Sum(s) = S[Len(s)]
  BY <1>1, <1>8, <1>10
<1>12. Sums(S, s)
  BY <1>5 DEF Sums
<1> QED
  BY <1>11, <1>12

LEMMA SumsGrow ==
  ASSUME NEW s \in Seq(Nat), NEW S, Sums(S, s), NEW m \in 0 .. Len(s)
  PROVE  \A n \in m .. Len(s) : S[m] <= S[n]
<1> DEFINE P == {n \in 0 .. Len(s) : m <= n => S[m] <= S[n]}
<1>1. /\ Len(s) \in Nat /\ S \in [0 .. Len(s) -> Nat]
      /\ \A n \in 1 .. Len(s) : S[n] = S[n - 1] + s[n] /\ s[n] \in Nat
  BY DEF Sums
<1>2. 0 \in P
  BY <1>1
<1>3. ASSUME NEW n \in 1 .. Len(s), n - 1 \in P PROVE n \in P
  <2>0. n \in 0 .. Len(s) /\ n - 1 \in 0 .. Len(s)
    BY <1>1
  <2>1. S[n] \in Nat /\ S[n - 1] \in Nat
    BY <1>1, <2>0
  <2>2. S[n] = S[n - 1] + s[n] /\ s[n] \in Nat
    BY <1>1
  <2>3. m <= n - 1 => S[m] <= S[n - 1]
    BY <1>3
  <2>4. m <= n => S[m] <= S[n]
    <3>1. CASE m = n
      BY <2>1, <3>1
    <3>2. CASE m # n
      <4>1. S[m] \in Nat
        BY <1>1
      <4>2. m <= n => m <= n - 1
        BY <1>1, <3>2
      <4> QED
        BY <2>1, <2>2, <2>3, <4>1, <4>2
    <3> QED
      BY <3>1, <3>2
  <2> QED
    BY <2>0, <2>4
<1> HIDE DEF P
<1>4. 0 .. Len(s) \subseteq P
  BY <1>1, <1>2, <1>3, CountUp
<1> QED
  BY <1>4 DEF P

LEMMA NumbersIn ==
  ASSUME NEW s \in Seq(Nat)
  PROVE  \A n \in 1 .. Len(s) : s[n] \in Nat
OBVIOUS

\* A sum of larger numbers is larger.
LEMMA SumLarger ==
  ASSUME NEW s \in Seq(Nat), NEW t \in Seq(Nat), Len(s) = Len(t),
         \A i \in DOMAIN s : s[i] <= t[i]
  PROVE  Sum(s) <= Sum(t)
<1>1. PICK S : Sums(S, s) /\ Sum(s) = S[Len(s)]
  BY SumsExist
<1>2. PICK T : Sums(T, t) /\ Sum(t) = T[Len(t)]
  BY SumsExist
<1>3. /\ Len(s) \in Nat /\ DOMAIN s = 1 .. Len(s)
      /\ \A n \in 1 .. Len(s) : s[n] \in Nat /\ t[n] \in Nat /\ s[n] <= t[n]
  <2>1. Len(s) \in Nat /\ DOMAIN s = 1 .. Len(s)
    OBVIOUS
  <2>2. \A n \in 1 .. Len(s) : s[n] \in Nat
    BY NumbersIn
  <2>3. \A n \in 1 .. Len(t) : t[n] \in Nat
    BY NumbersIn
  <2>4. QED
    BY <2>1, <2>2, <2>3
<1> DEFINE P == {n \in 0 .. Len(s) : S[n] <= T[n]}
<1>4. 0 \in P
  BY <1>1, <1>2, <1>3 DEF Sums
<1>5. ASSUME NEW n \in 1 .. Len(s), n - 1 \in P PROVE n \in P
  <2>0. n \in 0 .. Len(s) /\ n - 1 \in 0 .. Len(s) /\ Len(t) = Len(s)
    BY <1>3
  <2>1. /\ S[n] = S[n - 1] + s[n] /\ T[n] = T[n - 1] + t[n]
        /\ S[n - 1] \in Nat /\ T[n - 1] \in Nat
    BY <1>1, <1>2, <2>0 DEF Sums
  <2>2. S[n - 1] <= T[n - 1]
    BY <1>5
  <2> QED
    BY <1>3, <2>0, <2>1, <2>2
<1> HIDE DEF P
<1>6. 0 .. Len(s) \subseteq P
  BY <1>3, <1>4, <1>5, CountUp
<1> QED
  BY <1>1, <1>2, <1>3, <1>6 DEF P

LEMMA AddedBehind ==
  ASSUME NEW sum \in Nat, NEW base \in Nat, NEW from \in Nat, NEW to \in Nat, NEW last \in Nat,
         \/ sum <= base + last /\ last <= from
         \/ sum <= base
  PROVE  sum + to - from <= base + to
  OBVIOUS

\* The sizes of the live allocations add up to no more than what is used.
LEMMA LiveWithinUsed ==
  ASSUME ArenaInv
  PROVE  Sum([a \in DOMAIN live |-> live[a].to - live[a].from]) <= Used
<1> DEFINE s == [a \in DOMAIN live |-> live[a].to - live[a].from]
           t == [i \in DOMAIN blocks |-> blocks[i].used]
<1>1. /\ Len(live) \in Nat /\ DOMAIN live = 1 .. Len(live)
      /\ \A a \in DOMAIN live : /\ live[a].from \in Nat /\ live[a].to \in Nat
                                /\ live[a].from <= live[a].to
  BY LiveDomain DEF ArenaInv, LiveInOrder
<1>2. /\ Len(blocks) \in Nat /\ DOMAIN blocks = 1 .. Len(blocks)
      /\ \A i \in DOMAIN blocks : blocks[i].used \in Nat
  BY ChainDomain DEF ArenaInv
<1>3. s \in Seq(Nat) /\ Len(s) = Len(live)
  BY <1>1
<1>4. t \in Seq(Nat) /\ Len(t) = Len(blocks)
  BY <1>2
<1>5. /\ \A a \in DOMAIN live : s[a] = live[a].to - live[a].from
      /\ \A i \in DOMAIN blocks : t[i] = blocks[i].used
  OBVIOUS
<1> HIDE DEF s, t
<1>6. PICK S : Sums(S, s) /\ Sum(s) = S[Len(s)]
  BY <1>3, SumsExist
<1>7. PICK T : Sums(T, t) /\ Sum(t) = T[Len(t)]
  BY <1>4, SumsExist
<1>8. /\ S[0] = 0 /\ \A n \in 1 .. Len(live) : S[n] = S[n - 1] + s[n]
      /\ \A n \in 0 .. Len(live) : S[n] \in Nat
  BY <1>3, <1>6 DEF Sums
<1>9. /\ \A n \in 1 .. Len(blocks) : T[n] = T[n - 1] + t[n]
      /\ \A n \in 0 .. Len(blocks) : T[n] \in Nat
      /\ \A m \in 0 .. Len(blocks) : \A n \in m .. Len(blocks) : T[m] <= T[n]
  BY <1>4, <1>7, SumsGrow DEF Sums
<1> DEFINE P == {a \in 0 .. Len(live) :
                    a # 0 => \A i \in DOMAIN blocks :
                                blocks[i].id = live[a].id => S[a] <= T[i - 1] + live[a].to}
<1>10. 0 \in P
  BY <1>1
<1>11. ASSUME NEW a \in 1 .. Len(live), a - 1 \in P PROVE a \in P
  <2> SUFFICES ASSUME NEW i \in DOMAIN blocks, blocks[i].id = live[a].id
               PROVE  S[a] <= T[i - 1] + live[a].to
    BY <1>1
  <2>0. a - 1 # 0 => \A j \in DOMAIN blocks :
           blocks[j].id = live[a - 1].id => S[a - 1] <= T[j - 1] + live[a - 1].to
    BY <1>11
  <2> HIDE DEF P
  <2>1. /\ S[a] = S[a - 1] + live[a].to - live[a].from /\ S[a - 1] \in Nat
        /\ i \in 1 .. Len(blocks) /\ T[i - 1] \in Nat
        /\ live[a].from \in Nat /\ live[a].to \in Nat /\ live[a].from <= live[a].to
    BY <1>1, <1>2, <1>5, <1>8, <1>9
  <2>2. CASE a = 1
    BY <1>8, <2>1, <2>2
  <2>3. CASE a # 1
    <3>1. PICK b \in 1 .. Len(live) : b = a - 1
      BY <1>1, <2>3
    <3>2. /\ b \in DOMAIN live /\ a \in DOMAIN live /\ b < a /\ b # 0 /\ b \in 0 .. Len(live)
      BY <1>1, <3>1
    <3>11. live[b].to \in Nat /\ S[b] \in Nat
      BY <1>1, <1>8, <3>2
    <3>3. PICK j \in DOMAIN blocks : blocks[j].id = live[b].id /\ live[b].to <= blocks[j].used
      BY <3>2 DEF ArenaInv, LiveInOrder
    <3>4. UpTo(j, live[b].to, i, live[a].from)
      BY <3>2, <3>3 DEF ArenaInv, LiveInOrder
    <3>5. j \in 1 .. Len(blocks) /\ j \in 0 .. Len(blocks) /\ j - 1 \in 0 .. Len(blocks)
      BY <1>2
    <3>6. /\ T[j] = T[j - 1] + blocks[j].used
          /\ T[j - 1] \in Nat /\ T[j] \in Nat /\ blocks[j].used \in Nat
      BY <1>2, <1>5, <1>9, <3>5
    <3>7. S[b] <= T[j - 1] + live[b].to
      BY <2>0, <3>1, <3>2, <3>3
    <3>8. S[a] = S[b] + live[a].to - live[a].from
      BY <2>1, <3>1
    <3>12. T[i - 1] \in Nat /\ live[a].from \in Nat /\ live[a].to \in Nat
      BY <2>1
    <3> HIDE DEF ArenaInv, s, t
    <3>9. CASE i = j
      <4>1. live[b].to <= live[a].from
        BY <3>4, <3>5, <3>9 DEF UpTo
      <4>2. T[j - 1] = T[i - 1]
        BY <3>9
      <4>3. S[b] <= T[i - 1] + live[b].to
        BY <3>7, <4>2
      <4>4. S[b] + live[a].to - live[a].from <= T[i - 1] + live[a].to
        BY <3>11, <3>12, <4>1, <4>3, AddedBehind
      <4> QED
        BY <3>8, <4>4
    <3>10. CASE i # j
      <4>1. j < i
        BY <3>4, <3>10 DEF UpTo
      <4>0. /\ Len(blocks) \in Nat /\ i \in 1 .. Len(blocks)
            /\ j \in 1 .. Len(blocks)
        BY <1>2
      <4>2. i - 1 \in j .. Len(blocks)
        BY <4>0, <4>1
      <4>3. T[j] <= T[i - 1]
        BY <1>9, <3>5, <4>2
      <4>4. S[b] <= T[j]
        BY <3>3, <3>6, <3>7, <3>11
      <4>5. S[b] <= T[i - 1]
        BY <3>6, <3>11, <3>12, <4>3, <4>4
      <4>6. S[b] + live[a].to - live[a].from <= T[i - 1] + live[a].to
        BY <3>11, <3>12, <4>5, AddedBehind
      <4> QED
        BY <3>8, <4>6
    <3> QED
      BY <3>9, <3>10
  <2> QED
    BY <2>2, <2>3
<1> HIDE DEF P
<1>12. 0 .. Len(live) \subseteq P
  BY <1>1, <1>10, <1>11, CountUp
<1>13. S[Len(live)] <= T[Len(blocks)]
  <2>1. CASE Len(live) = 0
    BY <1>2, <1>8, <1>9, <2>1
  <2>2. CASE Len(live) # 0
    <3> DEFINE a == Len(live)
    <3>1. a \in DOMAIN live /\ a \in P /\ live[a].to \in Nat
      BY <1>1, <1>12, <2>2
    <3>2. PICK i \in DOMAIN blocks : blocks[i].id = live[a].id /\ live[a].to <= blocks[i].used
      BY <3>1 DEF ArenaInv, LiveInOrder
    <3>3. S[a] <= T[i - 1] + live[a].to
      BY <2>2, <3>1, <3>2 DEF P
    <3>4. /\ i \in 1 .. Len(blocks) /\ T[i] = T[i - 1] + blocks[i].used
          /\ T[i - 1] \in Nat /\ T[i] \in Nat /\ blocks[i].used \in Nat
      BY <1>2, <1>5, <1>9
    <3>5. T[i] <= T[Len(blocks)] /\ T[Len(blocks)] \in Nat
      BY <1>2, <1>9, <3>4
    <3>6. S[a] \in Nat
      BY <1>1, <1>8
    <3> HIDE DEF a
    <3>7. S[a] <= T[i]
      BY <3>1, <3>2, <3>3, <3>4, <3>6
    <3>8. S[a] <= T[Len(blocks)]
      BY <3>4, <3>5, <3>6, <3>7
    <3> QED
      BY <3>8 DEF a
  <2> QED
    BY <2>1, <2>2
<1>14. Sum(s) <= Sum(t)
  BY <1>3, <1>4, <1>6, <1>7, <1>13
<1> QED
  BY <1>14 DEF s, t, Used

LEMMA TotalsAgree == ASSUME ArenaInv PROVE TotalsOrdered
<1> DEFINE used == [i \in DOMAIN blocks |-> blocks[i].used]
           capacity == [i \in DOMAIN blocks |-> blocks[i].capacity]
           usable(b) == IF backend = "virtual" THEN AtLeast(0, b.committed - Header)
                        ELSE b.committed
           committed == [i \in DOMAIN blocks |-> usable(blocks[i])]
<1>1. /\ Len(blocks) \in Nat /\ DOMAIN blocks = 1 .. Len(blocks)
      /\ \A i \in DOMAIN blocks : Shaped(blocks[i])
      /\ backend \in {"heap", "virtual"} \/ DOMAIN blocks = {}
  BY ChainDomain DEF ArenaInv, Chain
<1>2. ASSUME NEW i \in DOMAIN blocks
      PROVE  /\ blocks[i].used \in Nat /\ blocks[i].capacity \in Nat
             /\ usable(blocks[i]) \in Nat
             /\ blocks[i].used <= usable(blocks[i])
             /\ usable(blocks[i]) <= blocks[i].capacity
             /\ backend = "heap" => usable(blocks[i]) = blocks[i].capacity
  <2>1. /\ blocks[i].used \in Nat /\ blocks[i].capacity \in Nat
        /\ blocks[i].committed \in Nat /\ blocks[i].size \in Nat
        /\ Shaped(blocks[i]) /\ Header \in Nat
    BY <1>1, ArenaAssumption DEF Shaped, BlockRecords
  <2>2. CASE backend = "heap"
    BY <2>1, <2>2 DEF Shaped
  <2>3. CASE backend = "virtual"
    BY <2>1, <2>3 DEF Shaped, AtLeast
  <2> QED
    BY <1>1, <2>2, <2>3
<1> HIDE DEF usable
<1>3. /\ used \in Seq(Nat) /\ capacity \in Seq(Nat) /\ committed \in Seq(Nat)
      /\ Len(used) = Len(blocks) /\ Len(capacity) = Len(blocks)
      /\ Len(committed) = Len(blocks)
  BY <1>1, <1>2
<1>4. Sum(used) <= Sum(committed)
  <2>1. \A i \in DOMAIN used : used[i] <= committed[i]
    BY <1>2
  <2> HIDE DEF used, committed
  <2> QED
    BY <1>3, <2>1, SumLarger
<1>5. Sum(committed) <= Sum(capacity)
  <2>1. \A i \in DOMAIN committed : committed[i] <= capacity[i]
    BY <1>2
  <2> HIDE DEF capacity, committed
  <2> QED
    BY <1>3, <2>1, SumLarger
<1>6. backend = "heap" => committed = capacity
  BY <1>2
<1>7. Used = Sum(used) /\ Capacity = Sum(capacity) /\ Committed = Sum(committed)
  BY DEF Used, Capacity, Committed, usable
<1>8. backend = "heap" => Sum(committed) = Sum(capacity)
  <2> HIDE DEF capacity, committed
  <2> QED
    BY <1>6
<1> HIDE DEF used, capacity, committed
<1> QED
  BY <1>4, <1>5, <1>7, <1>8, LiveWithinUsed DEF TotalsOrdered

\* An allocation lies in a block of the arena, aligned and committed, shares no byte with
\* another one, and the totals of the arena bound each other.
THEOREM ArenaAllocationsSound == ArenaSpec => []AllocationsSound
<1>1. ASSUME ArenaInv PROVE AllocationsSound
  <2> USE <1>1
  <2>1. ArenaTypeOK
    <3>1. held \subseteq Blocks
      BY ChainDomain DEF ArenaInv, Chain, Ids
    <3> QED
      BY <3>1 DEF ArenaTypeOK, ArenaInv, Chain, Shaped, LiveInOrder, MarksInChain
  <2>2. LiveBacked
    BY DEF LiveBacked, ArenaInv, LiveInOrder
  <2>3. NoOverlap
    <3>1. ASSUME NEW a \in DOMAIN live, NEW b \in DOMAIN live, a < b, live[a].id = live[b].id
          PROVE  live[a].to <= live[b].from
      <4>1. PICK i \in DOMAIN blocks : blocks[i].id = live[a].id
        BY DEF ArenaInv, LiveInOrder
      <4>2. UpTo(i, live[a].to, i, live[b].from) /\ i \in Nat
        BY <3>1, <4>1, ChainDomain DEF ArenaInv, LiveInOrder
      <4> QED
        BY <4>2 DEF UpTo
    <3>2. \A a, b \in DOMAIN live : a # b => a < b \/ b < a
      BY LiveDomain DEF ArenaInv
    <3> QED
      BY <3>1, <3>2 DEF NoOverlap
  <2>4. CommitCovers
    BY ChainDomain DEF CommitCovers, ArenaInv, Shaped
  <2>5. TotalsOrdered
    BY TotalsAgree
  <2> QED
    BY <2>1, <2>2, <2>3, <2>4, <2>5 DEF AllocationsSound
<1> QED
  BY <1>1, ArenaOrder, PTL
----------------------------------------------------------------------------
(* Scratch scopes nest correctly to any depth.                              *)

\* The result of a scope goes to the arena of an outer one, and no scope from
\* there on has borrowed that arena.
Results ==
    \A d \in DOMAIN scopes :
        scopes[d].result # Nowhere =>
            /\ scopes[d].owner \in 1 .. d - 1
            /\ scopes[scopes[d].owner].arena = scopes[d].result
            /\ \A e \in scopes[d].owner + 1 .. d : scopes[e].arena # scopes[d].result

\* An allocation is in the arena that its owner has borrowed.
Owners ==
    \A a \in Arenas : \A i \in DOMAIN arena[a] :
        /\ arena[a][i] \in 1 .. Depth
        /\ scopes[arena[a][i]].arena = a

\* The mark of a scope separates what outer scopes own from the rest.
Separated ==
    \A d \in DOMAIN scopes : \A i \in DOMAIN arena[scopes[d].arena] :
        arena[scopes[d].arena][i] >= d <=> i > scopes[d].mark

ScratchInv == TypeOK /\ Results /\ Owners /\ Separated

\* What the types say of the three variables.
LEMMA Domains ==
  ASSUME TypeOK
  PROVE  /\ Depth \in Nat /\ DOMAIN scopes = 1 .. Depth
         /\ \A a \in Arenas : /\ arena[a] \in Seq(Nat) /\ Len(arena[a]) \in Nat
                              /\ DOMAIN arena[a] = 1 .. Len(arena[a])
         /\ \A d \in 1 .. Depth : /\ scopes[d] \in Scopes
                                  /\ scopes[d].arena \in Arenas /\ scopes[d].mark \in Nat
                                  /\ scopes[d].mark <= Len(arena[scopes[d].arena])
<1>1. /\ Depth \in Nat /\ DOMAIN scopes = 1 .. Depth
      /\ \A d \in 1 .. Depth : scopes[d] \in Scopes
  BY DEF TypeOK, Depth
<1>2. ASSUME NEW a \in Arenas
      PROVE  /\ arena[a] \in Seq(Nat) /\ Len(arena[a]) \in Nat
             /\ DOMAIN arena[a] = 1 .. Len(arena[a])
  <2>1. arena[a] \in Seq(Nat)
    BY DEF TypeOK
  <2> QED
    BY <2>1
<1>3. ASSUME NEW d \in 1 .. Depth
      PROVE  /\ scopes[d].arena \in Arenas /\ scopes[d].mark \in Nat
             /\ scopes[d].mark <= Len(arena[scopes[d].arena])
  <2>1. scopes[d] \in Scopes /\ d \in DOMAIN scopes
    BY <1>1
  <2>2. scopes[d].mark <= Len(arena[scopes[d].arena])
    BY <2>1 DEF TypeOK
  <2> QED
    BY <2>1, <2>2 DEF Scopes
<1> QED
  BY <1>1, <1>2, <1>3

\* What truncating a sequence leaves.
LEMMA Prefix ==
  ASSUME NEW S, NEW s \in Seq(S), NEW m \in Nat, m <= Len(s)
  PROVE  /\ SubSeq(s, 1, m) \in Seq(S) /\ Len(SubSeq(s, 1, m)) = m
         /\ DOMAIN SubSeq(s, 1, m) = 1 .. m
         /\ \A i \in 1 .. m : SubSeq(s, 1, m)[i] = s[i]
  OBVIOUS

\* No scope is open at the start.
LEMMA InitScopes == ScratchInit => ScratchInv
<1> SUFFICES ASSUME ScratchInit PROVE ScratchInv
  OBVIOUS
<1>1. scopes = <<>> /\ DOMAIN scopes = {} /\ \A a \in Arenas : arena[a] = <<>>
  BY DEF ScratchInit
<1>2. TypeOK
  BY <1>1 DEF ScratchInit, TypeOK
<1> QED
  BY <1>1, <1>2 DEF ScratchInv, Results, Owners, Separated

\* lor_scratch_begin, wherever the result goes.
LEMMA BorrowStep ==
  ASSUME ScratchInv, NEW a \in Arenas, NEW result \in Arenas \cup {Nowhere},
         NEW owner \in Nat, Borrow(a, result, owner),
         result # Nowhere =>
             /\ owner \in 1 .. Depth /\ scopes[owner].arena = result /\ a # result
             /\ \A e \in owner + 1 .. Depth : scopes[e].arena # result
  PROVE  ScratchInv'
<1> DEFINE new == [arena |-> a, mark |-> Len(arena[a]), result |-> result, owner |-> owner]
<1>1. /\ inited' = [inited EXCEPT ![a] = TRUE] /\ scopes' = Append(scopes, new)
      /\ arena' = arena
  BY DEF Borrow, Marked
<1>2. TypeOK
  BY DEF ScratchInv
<1>3. new \in Scopes
  BY <1>2, Domains DEF Scopes
<1>4. /\ scopes' \in Seq(Scopes) /\ Depth' = Depth + 1 /\ DOMAIN scopes' = 1 .. Depth + 1
      /\ \A d \in 1 .. Depth : scopes'[d] = scopes[d]
      /\ scopes'[Depth + 1] = new
  <2> HIDE DEF new
  <2> QED
    BY <1>1, <1>2, <1>3 DEF TypeOK, Depth
<1>5. \A d \in 1 .. Depth + 1 : d \in 1 .. Depth \/ d = Depth + 1
  BY <1>2, Domains
<1>6. TypeOK'
  <2>1. inited' \in [Arenas -> BOOLEAN] /\ arena' \in [Arenas -> Seq(Nat)]
    BY <1>1, <1>2 DEF TypeOK
  <2>2. \A d \in 1 .. Depth + 1 : scopes'[d].mark <= Len(arena'[scopes'[d].arena])
    BY <1>1, <1>2, <1>4, <1>5, Domains
  <2> QED
    BY <1>4, <2>1, <2>2 DEF TypeOK
<1>7. Results'
  <2> SUFFICES ASSUME NEW d \in 1 .. Depth + 1, scopes'[d].result # Nowhere
               PROVE  /\ scopes'[d].owner \in 1 .. d - 1
                      /\ scopes'[scopes'[d].owner].arena = scopes'[d].result
                      /\ \A e \in scopes'[d].owner + 1 .. d :
                             scopes'[e].arena # scopes'[d].result
    BY <1>4 DEF Results
  <2>1. CASE d = Depth + 1
    <3>1. scopes'[d].owner = owner /\ scopes'[d].result = result /\ scopes'[d].arena = a
      BY <1>4, <2>1
    <3>2. owner \in 1 .. Depth /\ \A e \in 1 .. Depth : scopes'[e] = scopes[e]
      BY <1>4, <3>1
    <3>3. scopes'[owner].arena = result
      BY <3>1, <3>2
    <3>4. ASSUME NEW e \in owner + 1 .. d PROVE scopes'[e].arena # result
      <4>1. CASE e = d
        BY <3>1, <4>1
      <4>2. CASE e \in owner + 1 .. Depth
        <5>1. e \in 1 .. Depth
          BY <1>2, <3>2, <4>2, Domains
        <5> QED
          BY <3>1, <3>2, <4>2, <5>1
      <4> QED
        BY <1>2, <2>1, <3>2, <4>1, <4>2, Domains
    <3> QED
      BY <1>2, <2>1, <3>1, <3>2, <3>3, <3>4, Domains
  <2>2. CASE d \in 1 .. Depth
    <3>1. /\ scopes[d].owner \in 1 .. d - 1
          /\ scopes[scopes[d].owner].arena = scopes[d].result
          /\ \A e \in scopes[d].owner + 1 .. d : scopes[e].arena # scopes[d].result
      BY <1>2, <1>4, <2>2, Domains DEF ScratchInv, Results
    <3>2. \A e \in 1 .. d : scopes'[e] = scopes[e]
      BY <1>2, <1>4, <2>2, Domains
    <3>3. scopes'[d] = scopes[d] /\ scopes[d].owner \in 1 .. d
      BY <1>2, <2>2, <3>1, <3>2, Domains
    <3> QED
      BY <2>2, <3>1, <3>2, <3>3
  <2> QED
    BY <1>5, <2>1, <2>2
<1>8. Owners'
  <2> SUFFICES ASSUME NEW b \in Arenas, NEW i \in DOMAIN arena[b]
               PROVE  arena[b][i] \in 1 .. Depth + 1 /\ scopes'[arena[b][i]].arena = b
    BY <1>1, <1>4 DEF Owners
  <2>1. arena[b][i] \in 1 .. Depth /\ scopes[arena[b][i]].arena = b
    BY DEF ScratchInv, Owners
  <2> QED
    BY <1>2, <1>4, <2>1, Domains
<1>9. Separated'
  <2> SUFFICES ASSUME NEW d \in 1 .. Depth + 1, NEW i \in DOMAIN arena[scopes'[d].arena]
               PROVE  arena[scopes'[d].arena][i] >= d <=> i > scopes'[d].mark
    BY <1>1, <1>4 DEF Separated
  <2>1. CASE d = Depth + 1
    <3>1. scopes'[d].arena = a /\ scopes'[d].mark = Len(arena[a])
      BY <1>4, <2>1
    <3>2. arena[a][i] \in 1 .. Depth /\ i \in 1 .. Len(arena[a])
      BY <1>2, <3>1, Domains DEF ScratchInv, Owners
    <3> QED
      BY <1>2, <2>1, <3>1, <3>2, Domains
  <2>2. CASE d \in 1 .. Depth
    BY <1>2, <1>4, <2>2, Domains DEF ScratchInv, Separated
  <2> QED
    BY <1>5, <2>1, <2>2
<1> QED
  BY <1>6, <1>7, <1>8, <1>9 DEF ScratchInv

\* An allocation that belongs to the innermost scope that has borrowed its arena.
LEMMA StoreStep ==
  ASSUME ScratchInv, NEW a \in Arenas, NEW owner \in 1 .. Depth, Store(a, owner),
         scopes[owner].arena = a, \A e \in owner + 1 .. Depth : scopes[e].arena # a
  PROVE  ScratchInv'
<1>1. arena' = [arena EXCEPT ![a] = Append(@, owner)] /\ UNCHANGED <<inited, scopes>>
  BY DEF Store
<1>2. TypeOK
  BY DEF ScratchInv
<1>3. /\ arena'[a] \in Seq(Nat) /\ DOMAIN arena'[a] = 1 .. Len(arena[a]) + 1
      /\ Len(arena'[a]) = Len(arena[a]) + 1
      /\ arena'[a][Len(arena[a]) + 1] = owner
      /\ \A i \in 1 .. Len(arena[a]) : arena'[a][i] = arena[a][i]
  <2>1. arena'[a] = Append(arena[a], owner) /\ arena[a] \in Seq(Nat) /\ owner \in Nat
    BY <1>1, <1>2, Domains DEF TypeOK
  <2> QED
    BY <2>1
<1>4. \A b \in Arenas : b # a => arena'[b] = arena[b]
  BY <1>1, <1>2 DEF TypeOK
<1>5. ASSUME NEW b \in Arenas, NEW i \in DOMAIN arena'[b]
      PROVE  \/ b = a /\ i = Len(arena[a]) + 1
             \/ i \in DOMAIN arena[b] /\ arena'[b][i] = arena[b][i]
  <2>1. CASE b = a
    <3>1. DOMAIN arena[a] = 1 .. Len(arena[a]) /\ Len(arena[a]) \in Nat
      BY <1>2, Domains
    <3>2. i \in 1 .. Len(arena[a]) + 1
      BY <1>3, <1>5, <2>1
    <3> QED
      BY <1>3, <2>1, <3>1, <3>2
  <2>2. CASE b # a
    BY <1>4, <1>5, <2>2
  <2> QED
    BY <2>1, <2>2
<1>6. TypeOK'
  <2>1. arena' \in [Arenas -> Seq(Nat)]
    BY <1>1, <1>2, <1>3 DEF TypeOK
  <2>2. \A d \in DOMAIN scopes : scopes[d].mark <= Len(arena'[scopes[d].arena])
    <3>1. \A b \in Arenas : Len(arena[b]) \in Nat /\ Len(arena[b]) <= Len(arena'[b])
      <4>1. \A b \in Arenas : Len(arena[b]) \in Nat
        BY <1>2, Domains
      <4>2. Len(arena[a]) <= Len(arena'[a])
        BY <1>3, <4>1
      <4>3. \A b \in Arenas : b # a => Len(arena[b]) <= Len(arena'[b])
        BY <1>4, <4>1
      <4> QED
        BY <4>1, <4>2, <4>3
    <3>2. \A b \in Arenas : Len(arena'[b]) \in Nat
      BY <2>1
    <3>3. \A d \in DOMAIN scopes : /\ scopes[d].arena \in Arenas /\ scopes[d].mark \in Nat
                                    /\ scopes[d].mark <= Len(arena[scopes[d].arena])
      BY <1>2, Domains
    <3> QED
      BY <3>1, <3>2, <3>3
  <2> QED
    BY <1>1, <1>2, <2>1, <2>2 DEF TypeOK
<1>7. Results' /\ Depth' = Depth
  BY <1>1 DEF ScratchInv, Results, Depth
<1>8. Owners'
  <2> SUFFICES ASSUME NEW b \in Arenas, NEW i \in DOMAIN arena'[b]
               PROVE  arena'[b][i] \in 1 .. Depth /\ scopes[arena'[b][i]].arena = b
    BY <1>1, <1>7 DEF Owners
  <2>1. CASE b = a /\ i = Len(arena[a]) + 1
    BY <1>3, <2>1
  <2>2. CASE i \in DOMAIN arena[b] /\ arena'[b][i] = arena[b][i]
    BY <2>2 DEF ScratchInv, Owners
  <2> QED
    BY <1>5, <2>1, <2>2
<1>9. Separated'
  <2> SUFFICES ASSUME NEW d \in 1 .. Depth, NEW i \in DOMAIN arena'[scopes[d].arena]
               PROVE  arena'[scopes[d].arena][i] >= d <=> i > scopes[d].mark
    BY <1>1, <1>2, Domains DEF Separated
  <2>1. CASE scopes[d].arena = a /\ i = Len(arena[a]) + 1
    <3>1. d <= owner
      BY <1>2, <2>1, Domains
    <3>2. scopes[d].mark <= Len(arena[a]) /\ scopes[d].mark \in Nat /\ Len(arena[a]) \in Nat
      BY <1>2, <2>1, Domains
    <3> QED
      BY <1>3, <2>1, <3>1, <3>2
  <2>2. CASE /\ i \in DOMAIN arena[scopes[d].arena]
             /\ arena'[scopes[d].arena][i] = arena[scopes[d].arena][i]
    BY <1>2, <2>2, Domains DEF ScratchInv, Separated
  <2>3. scopes[d].arena \in Arenas
    BY <1>2, Domains
  <2> QED
    BY <1>5, <2>1, <2>2, <2>3
<1> QED
  BY <1>6, <1>7, <1>8, <1>9 DEF ScratchInv

\* What lor_scratch_end leaves of the two arenas.
LEMMA ScopeEnds ==
  ASSUME ScratchInv, End
  PROVE  /\ Depth \in Nat \ {0} /\ Depth' = Depth - 1 /\ DOMAIN scopes' = 1 .. Depth - 1
         /\ scopes' \in Seq(Scopes)
         /\ \A d \in 1 .. Depth - 1 : scopes'[d] = scopes[d]
         /\ arena' \in [Arenas -> Seq(Nat)]
         /\ \A a \in Arenas : \A i \in DOMAIN arena[a] :
                i \in DOMAIN arena'[a] <=> arena[a][i] < Depth
         /\ \A a \in Arenas : \A i \in DOMAIN arena'[a] :
                i \in DOMAIN arena[a] /\ arena'[a][i] = arena[a][i]
<1>1. /\ scopes # <<>> /\ inited' = inited
      /\ arena' = [arena EXCEPT ![Innermost.arena] = SubSeq(@, 1, Innermost.mark)]
      /\ scopes' = SubSeq(scopes, 1, Depth - 1)
  BY DEF End
<1>2. TypeOK
  BY DEF ScratchInv
<1>3. Depth \in Nat \ {0}
  BY <1>1, <1>2 DEF TypeOK, Depth
<1>4. /\ Depth' = Depth - 1 /\ DOMAIN scopes' = 1 .. Depth - 1 /\ scopes' \in Seq(Scopes)
      /\ \A d \in 1 .. Depth - 1 : scopes'[d] = scopes[d]
  <2>1. scopes \in Seq(Scopes) /\ Depth - 1 \in Nat /\ Depth - 1 <= Len(scopes)
    BY <1>2, <1>3 DEF TypeOK, Depth
  <2>2. /\ Len(scopes') = Depth - 1 /\ DOMAIN scopes' = 1 .. Depth - 1
        /\ scopes' \in Seq(Scopes) /\ \A d \in 1 .. Depth - 1 : scopes'[d] = scopes[d]
    BY <1>1, <2>1, Prefix
  <2> QED
    BY <2>2 DEF Depth
<1> DEFINE m == Innermost.mark
           r == Innermost.arena
<1>5. r \in Arenas /\ m \in Nat /\ m <= Len(arena[r]) /\ arena[r] \in Seq(Nat)
  BY <1>2, <1>3, Domains DEF Innermost
<1>6. \A i \in DOMAIN arena[r] : arena[r][i] >= Depth <=> i > m
  BY <1>2, <1>3, Domains DEF ScratchInv, Separated, Innermost
<1> HIDE DEF m, r
<1>7. /\ arena'[r] = SubSeq(arena[r], 1, m)
      /\ \A b \in Arenas : b # r => arena'[b] = arena[b]
  BY <1>1, <1>2, <1>5 DEF TypeOK, m, r
<1>8. /\ arena'[r] \in Seq(Nat) /\ DOMAIN arena'[r] = 1 .. m
      /\ \A i \in 1 .. m : arena'[r][i] = arena[r][i]
  BY <1>5, <1>7
<1>9. ASSUME NEW a \in Arenas, NEW i \in DOMAIN arena[a]
      PROVE  i \in DOMAIN arena'[a] <=> arena[a][i] < Depth
  <2>1. arena[a][i] \in 1 .. Depth /\ scopes[arena[a][i]].arena = a
    BY DEF ScratchInv, Owners
  <2>2. CASE a = r
    <3>1. i \in 1 .. Len(arena[r]) /\ (arena[r][i] >= Depth <=> i > m)
      BY <1>2, <1>5, <1>6, <2>2, Domains
    <3> QED
      BY <1>3, <1>5, <1>8, <2>1, <2>2, <3>1
  <2>3. CASE a # r
    <3>1. arena[a][i] # Depth
      BY <2>1, <2>3 DEF r, Innermost
    <3> QED
      BY <1>3, <1>7, <2>1, <2>3, <3>1
  <2> QED
    BY <2>2, <2>3
<1>10. ASSUME NEW a \in Arenas, NEW i \in DOMAIN arena'[a]
       PROVE  i \in DOMAIN arena[a] /\ arena'[a][i] = arena[a][i]
  <2>1. CASE a = r
    <3>1. i \in 1 .. m /\ DOMAIN arena[r] = 1 .. Len(arena[r]) /\ Len(arena[r]) \in Nat
      BY <1>5, <1>8, <2>1
    <3> QED
      BY <1>5, <1>8, <2>1, <3>1
  <2>2. CASE a # r
    BY <1>7, <2>2
  <2> QED
    BY <2>1, <2>2
<1>11. arena' \in [Arenas -> Seq(Nat)]
  BY <1>1, <1>2, <1>5, <1>7, <1>8 DEF TypeOK, r
<1> QED
  BY <1>3, <1>4, <1>9, <1>10, <1>11

\* lor_scratch_end.
LEMMA EndStep ==
  ASSUME ScratchInv, End
  PROVE  ScratchInv'
<1>1. TypeOK
  BY DEF ScratchInv
<1>2. \A a \in Arenas : DOMAIN arena'[a] = 1 .. Len(arena'[a]) /\ Len(arena'[a]) \in Nat
  <2>1. \A a \in Arenas : arena'[a] \in Seq(Nat)
    BY ScopeEnds
  <2> QED
    BY <2>1
<1>3. TypeOK'
  <2>1. inited' \in [Arenas -> BOOLEAN]
    BY <1>1 DEF End, TypeOK
  <2>2. ASSUME NEW d \in 1 .. Depth - 1
        PROVE  scopes'[d].mark <= Len(arena'[scopes'[d].arena])
    <3> DEFINE a == scopes[d].arena
               m == scopes[d].mark
    <3>1. d \in 1 .. Depth /\ a \in Arenas /\ m \in Nat /\ m <= Len(arena[a])
          /\ DOMAIN arena[a] = 1 .. Len(arena[a]) /\ Len(arena[a]) \in Nat
      BY <1>1, Domains, ScopeEnds
    <3>2. CASE m = 0
      BY <1>2, <3>1, <3>2, ScopeEnds
    <3>3. CASE m # 0
      <4>1. m \in DOMAIN arena[a] /\ ~(arena[a][m] >= d) /\ arena[a][m] \in Nat
        <5>1. m \in DOMAIN arena[a]
          BY <3>1, <3>3
        <5>2. d \in DOMAIN scopes /\ ~(m > m)
          BY <1>1, <3>1, Domains
        <5>3. ~(arena[a][m] >= d)
          BY <5>1, <5>2 DEF ScratchInv, Separated
        <5>4. arena[a] \in Seq(Nat)
          BY <1>1, <3>1, Domains
        <5> QED
          BY <3>1, <5>1, <5>3, <5>4
      <4>2. arena[a][m] < Depth
        BY <3>1, <4>1, ScopeEnds
      <4>3. m \in DOMAIN arena'[a]
        BY <3>1, <4>1, <4>2, ScopeEnds
      <4> QED
        BY <1>2, <3>1, <4>3, ScopeEnds
    <3> QED
      BY <3>2, <3>3
  <2> QED
    BY <2>1, <2>2, ScopeEnds DEF TypeOK
<1>4. Results'
  <2> SUFFICES ASSUME NEW d \in 1 .. Depth - 1, scopes[d].result # Nowhere
               PROVE  /\ scopes[d].owner \in 1 .. d - 1
                      /\ scopes'[scopes[d].owner].arena = scopes[d].result
                      /\ \A e \in scopes[d].owner + 1 .. d :
                             scopes'[e].arena # scopes[d].result
    BY ScopeEnds DEF Results
  <2>1. /\ scopes[d].owner \in 1 .. d - 1
        /\ scopes[scopes[d].owner].arena = scopes[d].result
        /\ \A e \in scopes[d].owner + 1 .. d : scopes[e].arena # scopes[d].result
    <3>1. d \in DOMAIN scopes
      BY <1>1, Domains, ScopeEnds
    <3> QED
      BY <3>1 DEF ScratchInv, Results
  <2>2. \A e \in 1 .. d : scopes'[e] = scopes[e]
    BY ScopeEnds
  <2> QED
    BY <2>1, <2>2
<1>5. Owners'
  <2> SUFFICES ASSUME NEW a \in Arenas, NEW i \in DOMAIN arena'[a]
               PROVE  arena'[a][i] \in 1 .. Depth - 1 /\ scopes'[arena'[a][i]].arena = a
    BY ScopeEnds DEF Owners
  <2>1. i \in DOMAIN arena[a] /\ arena'[a][i] = arena[a][i] /\ arena[a][i] < Depth
    BY ScopeEnds
  <2>2. arena[a][i] \in 1 .. Depth /\ scopes[arena[a][i]].arena = a
    BY <2>1 DEF ScratchInv, Owners
  <2> QED
    BY <2>1, <2>2, ScopeEnds
<1>6. Separated'
  <2> SUFFICES ASSUME NEW d \in 1 .. Depth - 1, NEW i \in DOMAIN arena'[scopes[d].arena]
               PROVE  arena'[scopes[d].arena][i] >= d <=> i > scopes[d].mark
    BY ScopeEnds DEF Separated
  <2>1. d \in 1 .. Depth /\ scopes[d].arena \in Arenas
    BY <1>1, Domains, ScopeEnds
  <2>2. /\ i \in DOMAIN arena[scopes[d].arena]
        /\ arena'[scopes[d].arena][i] = arena[scopes[d].arena][i]
    BY <2>1, ScopeEnds
  <2> QED
    BY <1>1, <2>1, <2>2, Domains DEF ScratchInv, Separated
<1> QED
  BY <1>3, <1>4, <1>5, <1>6 DEF ScratchInv

\* Nothing is in an arena when no scope is open.
LEMMA CleanupStep ==
  ASSUME ScratchInv, Cleanup
  PROVE  ScratchInv'
<1>1. scopes = <<>> /\ scopes' = <<>> /\ DOMAIN scopes' = {} /\ Depth = 0
  BY DEF Cleanup, Depth
<1>2. \A a \in Arenas : arena[a] = <<>>
  <2> SUFFICES ASSUME NEW a \in Arenas PROVE arena[a] = <<>>
    OBVIOUS
  <2>1. arena[a] \in Seq(Nat)
    BY DEF ScratchInv, TypeOK
  <2>2. \A i \in DOMAIN arena[a] : FALSE
    BY <1>1 DEF ScratchInv, Owners
  <2>3. DOMAIN arena[a] = 1 .. Len(arena[a]) /\ Len(arena[a]) \in Nat
    BY <2>1
  <2>4. Len(arena[a]) = 0
    BY <2>2, <2>3
  <2> QED
    BY <2>1, <2>4
<1>3. arena' = [a \in Arenas |-> <<>>] /\ inited' = [a \in Arenas |-> FALSE]
  BY <1>2 DEF Cleanup
<1>4. TypeOK'
  BY <1>1, <1>3 DEF TypeOK
<1> QED
  BY <1>1, <1>3, <1>4 DEF ScratchInv, Results, Owners, Separated

\* Every operation keeps the invariant.
LEMMA NextScopes == ScratchInv /\ [ScratchNext]_scratchVars => ScratchInv'
<1> SUFFICES ASSUME ScratchInv, [ScratchNext]_scratchVars PROVE ScratchInv'
  OBVIOUS
<1>1. /\ Depth \in Nat /\ DOMAIN scopes = 1 .. Depth
      /\ \A d \in 1 .. Depth : /\ scopes[d] \in Scopes /\ scopes[d].arena \in Arenas
                               /\ scopes[d].result \in Arenas \cup {Nowhere}
                               /\ scopes[d].owner \in Nat
      /\ scopes # <<>> => Depth \in 1 .. Depth
  <2>1. TypeOK
    BY DEF ScratchInv
  <2>2. scopes # <<>> => Depth # 0
    BY <2>1 DEF TypeOK, Depth
  <2> QED
    BY <2>1, <2>2, Domains DEF Scopes
<1>2. \A conflict : Borrowed(conflict) \in Arenas /\ Borrowed(conflict) # conflict
  BY DEF Borrowed, Arenas
<1>3. ASSUME NEW conflict \in Arenas \cup {Nowhere}, Begin(conflict) PROVE ScratchInv'
  BY <1>2, <1>3, BorrowStep DEF Begin
<1>4. CASE BeginForCaller
  <2>1. /\ Borrow(Borrowed(Innermost.arena), Innermost.arena, Depth) /\ Depth \in 1 .. Depth
        /\ Innermost = scopes[Depth] /\ Innermost.arena \in Arenas
    BY <1>1, <1>4 DEF BeginForCaller, Innermost
  <2>2. \A e \in Depth + 1 .. Depth : FALSE
    BY <1>1
  <2> QED
    BY <1>1, <1>2, <2>1, <2>2, BorrowStep
<1>5. ASSUME scopes # <<>>, Innermost.result # Nowhere
      PROVE  /\ Innermost.result \in Arenas /\ Innermost.owner \in 1 .. Depth
             /\ Innermost.owner \in Nat
             /\ scopes[Innermost.owner].arena = Innermost.result
             /\ \A e \in Innermost.owner + 1 .. Depth : scopes[e].arena # Innermost.result
  <2>1. Depth \in DOMAIN scopes /\ Innermost = scopes[Depth]
    BY <1>1, <1>5 DEF Innermost
  <2>2. /\ Innermost.owner \in 1 .. Depth - 1
        /\ scopes[Innermost.owner].arena = Innermost.result
        /\ \A e \in Innermost.owner + 1 .. Depth : scopes[e].arena # Innermost.result
    BY <1>5, <2>1 DEF ScratchInv, Results
  <2> QED
    BY <1>1, <1>5, <2>1, <2>2
<1>6. CASE BeginForwarding
  BY <1>2, <1>5, <1>6, BorrowStep DEF BeginForwarding
<1>7. CASE AllocTemporary
  <2>1. /\ Store(Innermost.arena, Depth) /\ Depth \in 1 .. Depth
        /\ Innermost = scopes[Depth] /\ Innermost.arena \in Arenas
    BY <1>1, <1>7 DEF AllocTemporary, Innermost
  <2>2. \A e \in Depth + 1 .. Depth : FALSE
    BY <1>1
  <2> QED
    BY <2>1, <2>2, StoreStep
<1>8. CASE AllocResult
  BY <1>5, <1>8, StoreStep DEF AllocResult
<1>9. CASE UNCHANGED scratchVars
  BY <1>9 DEF scratchVars, ScratchInv, TypeOK, Results, Owners, Separated, Depth
<1> QED
  BY <1>3, <1>4, <1>6, <1>7, <1>8, <1>9, EndStep, CleanupStep DEF ScratchNext

\* The invariant holds throughout.
LEMMA ScratchInvariant == ScratchSpec => []ScratchInv
<1> QED
  BY InitScopes, NextScopes, PTL DEF ScratchSpec

\* Scopes are well formed and every mark lies within its arena, so the assertion
\* of lor_arena_rewind holds at every lor_scratch_end.
THEOREM ScratchTypes == ScratchSpec => []TypeOK
<1>1. ScratchInv => TypeOK
  BY DEF ScratchInv
<1> QED
  BY <1>1, ScratchInvariant, PTL

\* lor_scratch_end takes away exactly what its scope owns, however deeply scopes
\* are nested and results are handed on.
THEOREM ScratchEndTakesItsOwn == ScratchSpec => EndTakesItsOwn
<1> DEFINE Exact == scopes' = SubSeq(scopes, 1, Depth - 1) /\ scopes # <<>> =>
        \A a \in Arenas : \A i \in DOMAIN arena[a] :
            i \in DOMAIN arena'[a] <=> arena[a][i] < Depth
<1>1. ScratchInv /\ [ScratchNext]_scratchVars => [Exact]_scratchVars
  <2> SUFFICES ASSUME ScratchInv, ScratchNext, scopes' = SubSeq(scopes, 1, Depth - 1), scopes # <<>>
               PROVE  End
    BY ScopeEnds
  <2>1. /\ scopes \in Seq(Scopes) /\ Depth \in Nat \ {0}
    BY DEF ScratchInv, TypeOK, Depth
  <2>2. Len(scopes') = Depth - 1
    <3>1. Depth - 1 \in Nat /\ Depth - 1 <= Len(scopes)
      BY <2>1 DEF Depth
    <3> QED
      BY <2>1, <3>1, Prefix
  <2>3. ASSUME NEW a, NEW result, NEW owner, Borrow(a, result, owner) PROVE FALSE
    <3>1. \E s : scopes' = Append(scopes, s)
      BY <2>3 DEF Borrow
    <3>2. Len(scopes') = Depth + 1
      BY <2>1, <3>1 DEF Depth
    <3> QED
      BY <2>1, <2>2, <3>2
  <2>4. scopes' = scopes => FALSE
    BY <2>1, <2>2 DEF Depth
  <2>5. ~BeginForCaller /\ ~BeginForwarding
        /\ \A conflict \in Arenas \cup {Nowhere} : ~Begin(conflict)
    BY <2>3 DEF BeginForCaller, BeginForwarding, Begin
  <2>6. ~AllocTemporary /\ ~AllocResult
    BY <2>4 DEF AllocTemporary, AllocResult, Store
  <2>7. ~Cleanup
    BY <2>4 DEF Cleanup
  <2> QED
    BY <2>5, <2>6, <2>7 DEF ScratchNext
<1> QED
  BY <1>1, ScratchInvariant, PTL DEF ScratchSpec, EndTakesItsOwn

----------------------------------------------------------------------------
(* Printing: the least of a set of numbers.                                 *)

Least(T) == CHOOSE k \in T : \A y \in T : k <= y

\* Of natural numbers one is the least: of the intervals up to them one is in no other.
LEMMA LeastNatural ==
  ASSUME NEW T \in SUBSET Nat, T # {}
  PROVE  Least(T) \in T /\ \A y \in T : Least(T) <= y
<1> DEFINE R == StrictSubsetOrdering(Nat)
           F == FiniteSubsetsOf(Nat)
           U == {0 .. x : x \in T}
<1>1. IsWellFoundedOn(R, F)
  BY FS_StrictSubsetOrderingWellFounded
<1>2. U \subseteq F
  <2> SUFFICES ASSUME NEW x \in T PROVE 0 .. x \in F
    OBVIOUS
  <2>1. IsFiniteSet(0 .. x)
    BY FS_Interval
  <2> QED
    BY <2>1 DEF FiniteSubsetsOf
<1>3. PICK u \in U : \A k \in U : ~(<<k, u>> \in R)
  <2>1. U # {}
    OBVIOUS
  <2> HIDE DEF R, F, U
  <2> QED
    BY <1>1, <1>2, <2>1, WFMin
<1>4. PICK x \in T : u = 0 .. x
  OBVIOUS
<1>5. ASSUME NEW y \in T, y < x PROVE FALSE
  <2>1. <<0 .. y, 0 .. x>> \in R
    BY <1>5 DEF StrictSubsetOrdering
  <2> QED
    BY <2>1, <1>3, <1>4
<1>6. \E k \in T : \A y \in T : k <= y
  BY <1>5
<1>7. QED
  BY <1>6 DEF Least

----------------------------------------------------------------------------
(* Concatenation of many sequences.                                         *)

Associative(S) == \A a, b, c \in Seq(S) : (a \o b) \o c = a \o (b \o c)

LEMMA Associates ==
  \A S : Associative(S)
<1> TAKE S
<1>1. ASSUME NEW a \in Seq(S), NEW b \in Seq(S), NEW c \in Seq(S)
      PROVE  (a \o b) \o c = a \o (b \o c)
  BY ConcatAssociative
<1> QED
  BY <1>1 DEF Associative

\* J joins the first parts of P, which are sequences over S.
Joins(S, n, P, J) ==
    /\ J \in [0 .. n -> Seq(S)] /\ J[0] = << >>
    /\ \A k \in 1 .. n : J[k] = J[k - 1] \o P[k]

\* Sequence s begins with sequence b.
BeginsWith(S, s, b) == \E rest \in Seq(S) : s = b \o rest

LEMMA JoinsExist ==
  ASSUME NEW S, NEW n \in Nat, NEW P, \A k \in 1 .. n : P[k] \in Seq(S)
  PROVE  \E J : Joins(S, n, P, J)
<1> DEFINE T == {m \in 0 .. n : ~ \E J : Joins(S, m, P, J)}
<1>1. SUFFICES T = {}
  BY <1>1
<1>2. SUFFICES ASSUME T # {}
               PROVE  FALSE
  OBVIOUS
<1>3. T \in SUBSET Nat
  OBVIOUS
<1>4. PICK m \in T : \A y \in T : m <= y
  <2> HIDE DEF T
  <2> QED
    BY <1>2, <1>3, LeastNatural
<1>5. m \in 0 .. n /\ ~ \E J : Joins(S, m, P, J)
  BY <1>4
<1>6. CASE m = 0
  <2>1. [k \in 0 .. m |-> << >>] \in [0 .. m -> Seq(S)]
    OBVIOUS
  <2>2. Joins(S, m, P, [k \in 0 .. m |-> << >>])
    BY <1>6, <2>1 DEF Joins
  <2> QED
    BY <1>5, <2>2
<1>7. CASE m # 0
  <2>1. m - 1 \in 0 .. n /\ m \in 1 .. n /\ m - 1 < m
    BY <1>5, <1>7
  <2>2. m - 1 \notin T
    BY <1>4, <2>1
  <2>3. PICK J : Joins(S, m - 1, P, J)
    BY <2>1, <2>2
  <2>4. J[m - 1] \in Seq(S) /\ P[m] \in Seq(S)
    BY <2>1, <2>3 DEF Joins
  <2>5. PICK x \in Seq(S) : x = J[m - 1] \o P[m]
    BY <2>4, ConcatProperties
  <2>6. PICK K : K = [k \in 0 .. m |-> IF k = m THEN x ELSE J[k]]
    OBVIOUS
  <2>7. K \in [0 .. m -> Seq(S)]
    <3>1. \A k \in 0 .. m : k # m => k \in 0 .. m - 1
      BY <2>1
    <3>2. \A k \in 0 .. m - 1 : J[k] \in Seq(S)
      BY <2>3 DEF Joins
    <3> QED
      BY <3>1, <3>2, <2>6
  <2>8. K[0] = << >>
    BY <1>7, <2>1, <2>3, <2>6 DEF Joins
  <2>9. ASSUME NEW k \in 1 .. m
        PROVE  K[k] = K[k - 1] \o P[k]
    <3>1. k \in 0 .. m /\ k - 1 \in 0 .. m /\ k - 1 # m
      BY <2>1
    <3>2. K[k - 1] = J[k - 1]
      BY <3>1, <2>6
    <3>3. CASE k = m
      BY <3>1, <3>2, <3>3, <2>5, <2>6
    <3>4. CASE k # m
      <4>1. k \in 1 .. m - 1
        BY <3>4, <2>1
      <4>2. J[k] = J[k - 1] \o P[k]
        BY <4>1, <2>3 DEF Joins
      <4> QED
        BY <4>2, <3>1, <3>2, <3>4, <2>6
    <3> QED
      BY <3>3, <3>4
  <2>10. Joins(S, m, P, K)
    BY <2>7, <2>8, <2>9 DEF Joins
  <2> QED
    BY <1>5, <2>10
<1> QED
  BY <1>6, <1>7

\* Q is a sequence of the first parts of P.
FirstParts(S, n, P, Q) ==
    Q \in Seq(Seq(S)) /\ Len(Q) <= n /\ \A k \in 1 .. Len(Q) : Q[k] = P[k]

FlattensTo(Q, s) == SeqExt!FlattenSeq(Q) = s

\* What is joined from parts is what FlattenSeq gives for them.
LEMMA FlattenJoins ==
  ASSUME NEW S, NEW n \in Nat, NEW P, NEW J, Joins(S, n, P, J), NEW Q, FirstParts(S, n, P, Q)
  PROVE  FlattensTo(Q, J[Len(Q)])
<1>0. Q \in Seq(Seq(S)) /\ Len(Q) <= n /\ \A k \in 1 .. Len(Q) : Q[k] = P[k]
  BY DEF FirstParts
<1>. SUFFICES SeqExt!FlattenSeq(Q) = J[Len(Q)]
  BY DEF FlattensTo
<1>. USE <1>0
<1>1. PICK q \in Nat : q = Len(Q)
  OBVIOUS
<1>2. CASE q = 0
  <2>1. Q = << >>
    BY <1>1, <1>2, EmptySeq
  <2>2. SeqExt!FlattenSeq(Q) = Q
    BY <1>1, <1>2 DEF SeqExt!FlattenSeq
  <2> QED
    BY <2>1, <2>2, <1>1, <1>2 DEF Joins
<1>3. CASE q # 0
  <2> DEFINE G(f) == f = [i \in 1 .. q |-> IF i = 1 THEN Q[i] ELSE f[i - 1] \o Q[i]]
  <2>1. SeqExt!FlattenSeq(Q) = (CHOOSE f : G(f))[q]
    BY <1>1, <1>3 DEF SeqExt!FlattenSeq
  <2>2. \A k \in 1 .. q : J[k] \in Seq(S) /\ Q[k] = P[k] /\ J[k] = J[k - 1] \o Q[k]
    <3>1. \A k \in 1 .. q : k \in 0 .. n /\ k \in 1 .. n
      BY <1>1
    <3> QED
      BY <3>1, <1>1 DEF Joins
  <2>3. J[1] = Q[1]
    <3>1. 1 \in 1 .. q
      BY <1>3
    <3>2. J[1] = << >> \o Q[1]
      <4>1. J[1] = J[1 - 1] \o Q[1] /\ J[0] = << >>
        BY <3>1, <2>2 DEF Joins
      <4>2. 1 - 1 = 0
        OBVIOUS
      <4> QED
        BY <4>1, <4>2
    <3>3. Q[1] \in Seq(S)
      BY <3>1, <1>1
    <3> QED
      BY <3>2, <3>3, ConcatEmptySeq
  <2>4. G([i \in 1 .. q |-> J[i]])
    <3>1. PICK g : g = [i \in 1 .. q |-> J[i]]
      OBVIOUS
    <3>2. ASSUME NEW i \in 1 .. q
          PROVE  g[i] = IF i = 1 THEN Q[i] ELSE g[i - 1] \o Q[i]
      <4>1. CASE i = 1
        BY <4>1, <3>1, <2>3
      <4>2. CASE i # 1
        <5>1. i - 1 \in 1 .. q
          BY <4>2
        <5> QED
          BY <5>1, <4>2, <3>1, <2>2
      <4> QED
        BY <4>1, <4>2
    <3>3. g = [i \in 1 .. q |-> IF i = 1 THEN Q[i] ELSE g[i - 1] \o Q[i]]
      BY <3>1, <3>2
    <3> QED
      BY <3>1, <3>3
  <2>5. PICK f : f = (CHOOSE g : G(g)) /\ G(f)
    BY <2>4
  <2>6. f[1] = Q[1] /\ \A i \in 2 .. q : f[i] = f[i - 1] \o Q[i]
    <3>1. 1 \in 1 .. q /\ \A i \in 2 .. q : i \in 1 .. q /\ i # 1
      BY <1>3
    <3> QED
      BY <3>1, <2>5
  <2> DEFINE T == {k \in 1 .. q : f[k] # J[k]}
  <2>7. T = {}
    <3>1. SUFFICES ASSUME T # {}
                   PROVE  FALSE
      OBVIOUS
    <3>2. T \in SUBSET Nat
      OBVIOUS
    <3>3. PICK m \in T : \A y \in T : m <= y
      <4> HIDE DEF T
      <4> QED
        BY <3>1, <3>2, LeastNatural
    <3>4. CASE m = 1
      BY <3>3, <3>4, <2>3, <2>6
    <3>5. CASE m # 1
      <4>1. m \in 2 .. q /\ m - 1 \in 1 .. q /\ m - 1 < m
        BY <3>3, <3>5
      <4>2. f[m - 1] = J[m - 1]
        BY <3>3, <4>1
      <4>3. f[m] = J[m]
        BY <4>1, <4>2, <2>2, <2>6
      <4> QED
        BY <4>3, <3>3
    <3> QED
      BY <3>4, <3>5
  <2>8. q \in 1 .. q
    BY <1>3
  <2>9. f[q] = J[q]
    BY <2>7, <2>8
  <2> HIDE DEF G
  <2> QED
    BY <2>1, <2>5, <2>9, <1>1
<1> QED
  BY <1>2, <1>3

\* Whatever is joined begins with the join of its first parts.
LEMMA JoinsBegin ==
  ASSUME NEW S, NEW n \in Nat, NEW P, NEW J, Joins(S, n, P, J),
         \A k \in 1 .. n : P[k] \in Seq(S)
  PROVE  \A m \in 0 .. n : BeginsWith(S, J[n], J[m])
<1> SUFFICES ASSUME NEW m \in 0 .. n
             PROVE  \E rest \in Seq(S) : J[n] = J[m] \o rest
  BY DEF BeginsWith
<1> DEFINE T == {d \in 0 .. n : ~ \E rest \in Seq(S) : J[n] = J[n - d] \o rest}
<1>1. T = {}
  <2>1. SUFFICES ASSUME T # {}
                 PROVE  FALSE
    OBVIOUS
  <2>2. T \in SUBSET Nat
    OBVIOUS
  <2>3. PICK d \in T : \A y \in T : d <= y
    <3> HIDE DEF T
    <3> QED
      BY <2>1, <2>2, LeastNatural
  <2>4. CASE d = 0
    <3>1. n - d = n /\ n \in 0 .. n
      BY <2>4
    <3>2. J[n] \in Seq(S) /\ << >> \in Seq(S)
      BY <3>1 DEF Joins
    <3>3. J[n] = J[n] \o << >>
      BY <3>2, ConcatEmptySeq
    <3> QED
      BY <2>3, <3>1, <3>2, <3>3
  <2>5. CASE d # 0
    <3>1. PICK k : k = n - d
      OBVIOUS
    <3>2. k \in 0 .. n /\ k + 1 \in 1 .. n /\ n - (d - 1) = k + 1 /\ (k + 1) - 1 = k
          /\ d - 1 \in 0 .. n /\ d - 1 < d
      BY <2>3, <2>5, <3>1
    <3>3. PICK rest \in Seq(S) : J[n] = J[k + 1] \o rest
      <4>1. d - 1 \notin T
        <5>1. d - 1 \in Nat /\ d \in Nat /\ ~(d <= d - 1)
          BY <2>3, <3>2
        <5> HIDE DEF T
        <5> QED
          BY <5>1, <2>3
      <4> QED
        BY <4>1, <3>2
    <3>4. J[k + 1] = J[k] \o P[k + 1] /\ J[k] \in Seq(S) /\ P[k + 1] \in Seq(S)
      BY <3>2 DEF Joins
    <3>5. J[n] = J[k] \o (P[k + 1] \o rest)
      <4>1. \A a, b, c \in Seq(S) : (a \o b) \o c = a \o (b \o c)
        <5>1. Associative(S)
          BY Associates
        <5> QED
          BY <5>1, Zenon DEF Associative
      <4>2. J[n] = (J[k] \o P[k + 1]) \o rest
        BY <3>3, <3>4, Zenon
      <4>3. (J[k] \o P[k + 1]) \o rest = J[k] \o (P[k + 1] \o rest)
        BY <4>1, <3>3, <3>4, Zenon
      <4> QED
        BY <4>2, <4>3, Zenon
    <3>6. P[k + 1] \o rest \in Seq(S)
      BY <3>4, ConcatProperties
    <3> QED
      BY <2>3, <3>1, <3>5, <3>6
  <2> QED
    BY <2>4, <2>5
<1>2. n - m \in 0 .. n /\ n - (n - m) = m
  OBVIOUS
<1> QED
  BY <1>1, <1>2
----------------------------------------------------------------------------
(* Printable: what is written for an argument, and what it says.            *)

\* The names of types are strings, and so are the other roles.
Roles == STRING \cup {"byte", "letter", "hex", "number", "(null)", "custom", ": ", ", ",
                     "empty", "open", "close", "signed", "unsigned", "floating"}
TokenSet == Roles \X Int

LEMMA TokenTyped ==
  \A role \in Roles : \A n \in Int :
     /\ Token(role, n) \in TokenSet /\ Token(role, n)[1] = role /\ Token(role, n)[2] = n
     /\ <<Token(role, n)>> \in Seq(TokenSet) /\ Len(<<Token(role, n)>>) = 1
     /\ <<Token(role, n)>>[1] = Token(role, n)
<1> SUFFICES ASSUME NEW role \in Roles, NEW n \in Int
             PROVE  /\ Token(role, n) \in TokenSet
                    /\ Token(role, n)[1] = role /\ Token(role, n)[2] = n
                    /\ <<Token(role, n)>> \in Seq(TokenSet) /\ Len(<<Token(role, n)>>) = 1
                    /\ <<Token(role, n)>>[1] = Token(role, n)
  OBVIOUS
<1>1. /\ Token(role, n) \in TokenSet /\ Token(role, n)[1] = role /\ Token(role, n)[2] = n
  BY DEF Token, TokenSet
<1>2. \A S : \A x \in S : <<x>> \in Seq(S) /\ Len(<<x>>) = 1 /\ <<x>>[1] = x
  OBVIOUS
<1> QED
  BY <1>1, <1>2

LEMMA ByteTyped ==
  \A n \in Int :
     /\ Token("byte", n) \in TokenSet /\ Token("byte", n)[2] = n
     /\ <<Token("byte", n)>> \in Seq(TokenSet) /\ Len(<<Token("byte", n)>>) = 1
     /\ <<Token("byte", n)>>[1] = Token("byte", n)
<1>1. "byte" \in Roles
  BY DEF Roles
<1> QED
  BY <1>1, TokenTyped, Zenon

LEMMA PlainTyped ==
  ASSUME NEW s \in Seq(Int)
  PROVE  Plain(s) \in Seq(TokenSet) /\ Len(Plain(s)) = Len(s)
<1>1. PICK n \in Nat : n = Len(s)
  OBVIOUS
<1>2. DOMAIN s = 1 .. n /\ \A k \in 1 .. n : s[k] \in Int
  BY <1>1
<1>3. \A k \in 1 .. n : Token("byte", s[k]) \in TokenSet
  BY <1>2, ByteTyped, Zenon
<1>4. Plain(s) = [k \in 1 .. n |-> Token("byte", s[k])]
  BY <1>2 DEF Plain
<1> QED
  BY <1>1, <1>3, <1>4

\* One byte of a quoted text: itself, or an escape in which it is found.
LEMMA EscapedSays ==
  ASSUME NEW b \in Int
  PROVE  /\ Escaped(b) \in Seq(TokenSet)
         /\ \/ /\ Len(Escaped(b)) = 1
               /\ Escaped(b)[1] # Token("byte", Backslash) /\ Escaped(b)[1][2] = b
            \/ /\ Len(Escaped(b)) = 2
               /\ Escaped(b)[1] = Token("byte", Backslash) /\ Escaped(b)[2][2] = b
<1>1. Backslash \in Int
  BY DEF Backslash
<1>2. \A S : \A x, y \in S : /\ <<x, y>> \in Seq(S) /\ Len(<<x, y>>) = 2
                             /\ <<x, y>>[1] = x /\ <<x, y>>[2] = y
  OBVIOUS
<1>3. ASSUME NEW role \in Roles,
             Escaped(b) = <<Token("byte", Backslash), Token(role, b)>>
      PROVE  /\ Escaped(b) \in Seq(TokenSet) /\ Len(Escaped(b)) = 2
             /\ Escaped(b)[1] = Token("byte", Backslash) /\ Escaped(b)[2][2] = b
  <2>1. PICK x \in TokenSet, y \in TokenSet :
           x = Token("byte", Backslash) /\ y = Token(role, b) /\ y[2] = b
    <3>1. Token("byte", Backslash) \in TokenSet
      BY <1>1, ByteTyped, Zenon
    <3>2. Token(role, b) \in TokenSet /\ Token(role, b)[2] = b
      BY TokenTyped, Zenon
    <3> QED
      BY <3>1, <3>2, Zenon
  <2> QED
    BY <2>1, <1>2, <1>3
<1>4. CASE b \in {Quote, Backslash} \cup Controls \/ b \notin Visible \cup Controls
  <2>1. \E role \in {"byte", "letter", "hex"} :
           Escaped(b) = <<Token("byte", Backslash), Token(role, b)>>
    BY <1>4 DEF Escaped, Quote, Backslash, Controls, Visible
  <2>2. {"byte", "letter", "hex"} \subseteq Roles
    BY DEF Roles
  <2> QED
    BY <2>1, <2>2, <1>3
<1>5. CASE ~(b \in {Quote, Backslash} \cup Controls \/ b \notin Visible \cup Controls)
  <2>1. Escaped(b) = <<Token("byte", b)>> /\ b # Backslash
    BY <1>5 DEF Escaped
  <2>2. PICK x \in TokenSet : x = Token("byte", b) /\ x[2] = b /\ <<x>> \in Seq(TokenSet)
                              /\ Len(<<x>>) = 1 /\ <<x>>[1] = x
    BY ByteTyped, Zenon
  <2>3. Token("byte", Backslash)[2] = Backslash
    BY <1>1, ByteTyped, Zenon
  <2> QED
    BY <2>1, <2>2, <2>3
<1> QED
  BY <1>4, <1>5

\* A quoted text says that text: the reader is where the next character begins.
LEMMA QuotedSays ==
  ASSUME NEW s \in Seq(Int)
  PROVE  Quoted(s) \in Seq(TokenSet) /\ SaysText(Quoted(s), s)
<1>1. PICK n \in Nat : n = Len(s) /\ DOMAIN s = 1 .. n
  OBVIOUS
<1>2. PICK P : P = [k \in 1 .. n |-> Escaped(s[k])]
  OBVIOUS
<1>3. \A k \in 1 .. n : s[k] \in Int /\ P[k] = Escaped(s[k]) /\ P[k] \in Seq(TokenSet)
  <2>1. \A k \in 1 .. n : s[k] \in Int
    BY <1>1
  <2> QED
    BY <2>1, <1>2, EscapedSays
<1>4. P \in Seq(Seq(TokenSet)) /\ Len(P) = n
  BY <1>2, <1>3
<1>5. PICK J : Joins(TokenSet, n, P, J)
  BY <1>3, JoinsExist
<1>6. SeqExt!FlattenSeq(P) = J[n] /\ J[n] \in Seq(TokenSet)
  <2>1. n \in 0 .. n
    OBVIOUS
  <2>2. J[n] \in Seq(TokenSet)
    BY <2>1, <1>5 DEF Joins
  <2>3. FirstParts(TokenSet, n, P, P)
    BY <1>4 DEF FirstParts
  <2>4. FlattensTo(P, J[Len(P)])
    BY <2>3, <1>5, FlattenJoins, Zenon
  <2> QED
    BY <2>2, <2>4, <1>4 DEF FlattensTo
<1>7. PICK q, tokens : q = <<Token("byte", Quote)>> /\ tokens = Quoted(s)
  OBVIOUS
<1>8. q \in Seq(TokenSet) /\ Len(q) = 1
  <2>1. Quote \in Int
    BY DEF Quote
  <2> QED
    BY <2>1, <1>7, ByteTyped, Zenon
<1>9. tokens = (q \o J[n]) \o q
  BY <1>1, <1>2, <1>6, <1>7 DEF Quoted
<1>10. /\ tokens \in Seq(TokenSet) /\ Len(tokens) = Len(J[n]) + 2 /\ Len(J[n]) \in Nat
       /\ \A i \in 1 .. Len(J[n]) : tokens[i + 1] = J[n][i]
  <2>1. /\ q \o J[n] \in Seq(TokenSet) /\ Len(q \o J[n]) = Len(J[n]) + 1 /\ Len(J[n]) \in Nat
        /\ \A i \in 1 .. Len(q) + Len(J[n]) :
              (q \o J[n])[i] = IF i <= Len(q) THEN q[i] ELSE J[n][i - Len(q)]
    <3>1. PICK j \in Seq(TokenSet) : j = J[n]
      BY <1>6
    <3>2. /\ q \o j \in Seq(TokenSet) /\ Len(q \o j) = Len(q) + Len(j)
          /\ \A i \in 1 .. Len(q) + Len(j) : (q \o j)[i] = IF i <= Len(q) THEN q[i]
                                                            ELSE j[i - Len(q)]
      BY <1>8, ConcatProperties
    <3>3. Len(j) \in Nat /\ Len(q) + Len(j) = Len(j) + 1
      BY <1>8
    <3> QED
      BY <3>1, <3>2, <3>3
  <2>2. PICK r : r = q \o J[n]
    OBVIOUS
  <2>3. /\ tokens \in Seq(TokenSet) /\ Len(tokens) = Len(r) + Len(q)
        /\ \A i \in 1 .. Len(r) + Len(q) :
              tokens[i] = IF i <= Len(r) THEN r[i] ELSE q[i - Len(r)]
    BY <2>1, <2>2, <1>8, <1>9, ConcatProperties
  <2>4. ASSUME NEW i \in 1 .. Len(J[n])
        PROVE  tokens[i + 1] = J[n][i]
    <3>1. /\ i + 1 \in 1 .. Len(r) + Len(q) /\ i + 1 <= Len(r)
          /\ i + 1 \in 1 .. Len(q) + Len(J[n]) /\ ~(i + 1 <= Len(q)) /\ i + 1 - Len(q) = i
      BY <2>1, <2>2, <1>8
    <3> QED
      BY <3>1, <2>1, <2>2, <2>3
  <2> QED
    BY <2>1, <2>2, <2>3, <2>4, <1>8
<1>11. \A k \in 0 .. n : J[k] \in Seq(TokenSet) /\ Len(J[k]) \in Nat
  BY <1>5 DEF Joins
\* What the reader finds at the place of character k.
<1>12. ASSUME NEW k \in 1 .. n
       PROVE  LET p == 2 + Len(J[k - 1])
              IN /\ 2 + Len(J[k]) = p + (IF Escapes(tokens, p) THEN 2 ELSE 1)
                 /\ s[k] = tokens[IF Escapes(tokens, p) THEN p + 1 ELSE p][2]
  <2>1. k \in 0 .. n /\ k - 1 \in 0 .. n
    OBVIOUS
  <2>2. J[k - 1] \in Seq(TokenSet) /\ J[k] \in Seq(TokenSet) /\ J[k] = J[k - 1] \o P[k]
    BY <2>1, <1>5, <1>11 DEF Joins
  <2>3. PICK rest \in Seq(TokenSet) : J[n] = J[k] \o rest
    <3>1. \A i \in 1 .. n : P[i] \in Seq(TokenSet)
      BY <1>3
    <3>2. PICK j \in 0 .. n : j = k
      BY <2>1
    <3>3. \E rest \in Seq(TokenSet) : J[n] = J[j] \o rest
      <4>1. \A i \in 0 .. n : BeginsWith(TokenSet, J[n], J[i])
        BY <3>1, <1>5, JoinsBegin
      <4> QED
        BY <4>1 DEF BeginsWith
    <3> QED
      BY <3>2, <3>3
  <2>4. PICK l, e, m \in Nat : l = Len(J[k - 1]) /\ e = Len(P[k]) /\ m = Len(J[n])
    BY <2>2, <1>3, <1>10
  <2>5. /\ Len(J[k]) = l + e /\ l + e <= m
        /\ \A i \in 1 .. e : J[k][l + i] = P[k][i]
    <3>1. /\ Len(J[k]) = l + e
          /\ \A i \in 1 .. l + e : J[k][i] = IF i <= l THEN J[k - 1][i] ELSE P[k][i - l]
      <4>1. PICK x \in Seq(TokenSet), y \in Seq(TokenSet) : x = J[k - 1] /\ y = P[k]
        BY <2>2, <1>3
      <4>2. /\ Len(x \o y) = Len(x) + Len(y)
            /\ \A i \in 1 .. Len(x) + Len(y) : (x \o y)[i] = IF i <= Len(x) THEN x[i]
                                                              ELSE y[i - Len(x)]
        BY ConcatProperties
      <4> QED
        BY <4>1, <4>2, <2>2, <2>4
    <3>2. Len(J[n]) = Len(J[k]) + Len(rest) /\ Len(rest) \in Nat
      <4>1. PICK x \in Seq(TokenSet) : x = J[k]
        BY <2>2
      <4>2. Len(x \o rest) = Len(x) + Len(rest) /\ Len(rest) \in Nat
        BY ConcatProperties
      <4> QED
        BY <4>1, <4>2, <2>3
    <3>3. ASSUME NEW i \in 1 .. e
          PROVE  J[k][l + i] = P[k][i]
      <4>1. l + i \in 1 .. l + e /\ ~(l + i <= l) /\ (l + i) - l = i
        <5>1. \A a, b \in Nat : \A j \in 1 .. b :
                 a + j \in 1 .. a + b /\ ~(a + j <= a) /\ (a + j) - a = j
          OBVIOUS
        <5>2. l \in Nat /\ e \in Nat
          OBVIOUS
        <5> QED
          BY <5>1, <5>2, Zenon
      <4> QED
        BY <4>1, <3>1
    <3>4. l + e <= m
      <4>1. \A a, b, c \in Nat : c = a + b => a <= c
        OBVIOUS
      <4>2. m = (l + e) + Len(rest)
        BY <3>1, <3>2, <2>4, Zenon
      <4>3. l + e \in Nat
        OBVIOUS
      <4> QED
        BY <4>1, <4>2, <4>3, <3>2
    <3> QED
      BY <3>1, <3>3, <3>4
  <2>6. ASSUME NEW i \in 1 .. e
        PROVE  tokens[l + i + 1] = P[k][i]
    <3>1. l + i \in 1 .. m /\ l + i \in 1 .. Len(J[k]) + Len(rest) /\ l + i <= Len(J[k])
      BY <2>2, <2>3, <2>5, ConcatProperties
    <3>2. J[n][l + i] = J[k][l + i]
      BY <3>1, <2>2, <2>3, ConcatProperties
    <3>3. tokens[(l + i) + 1] = J[n][l + i]
      BY <3>1, <2>4, <1>10
    <3> QED
      BY <3>2, <3>3, <2>5
  <2>7. PICK p \in Nat : p = 2 + l
    OBVIOUS
  <2>8. /\ \/ /\ e = 1 /\ P[k][1] # Token("byte", Backslash) /\ P[k][1][2] = s[k]
           \/ /\ e = 2 /\ P[k][1] = Token("byte", Backslash) /\ P[k][2][2] = s[k]
    BY <2>4, <1>3, EscapedSays
  <2>9. tokens[p] = P[k][1] /\ p < Len(tokens)
    <3>1. 1 \in 1 .. e /\ l + 1 + 1 = p
      BY <2>7, <2>8
    <3>2. p < Len(tokens)
      <4>1. Len(tokens) = m + 2 /\ 1 <= e /\ l + e <= m
        <5>1. Len(tokens) = m + 2
          BY <2>4, <1>10
        <5>2. 1 <= e
          BY <2>8
        <5> QED
          BY <5>1, <5>2, <2>5
      <4>2. \A a, b, c \in Nat : 1 <= b /\ a + b <= c => 2 + a < c + 2
        OBVIOUS
      <4>3. l \in Nat /\ e \in Nat /\ m \in Nat
        OBVIOUS
      <4> QED
        BY <4>1, <4>2, <4>3, <2>7
    <3> QED
      BY <3>1, <3>2, <2>6
  <2>10. CASE e = 1 /\ P[k][1] # Token("byte", Backslash) /\ P[k][1][2] = s[k]
    <3>1. ~Escapes(tokens, p)
      BY <2>9, <2>10 DEF Escapes
    <3>2. 2 + Len(J[k]) = p + 1
      BY <2>5, <2>7, <2>10
    <3> QED
      BY <3>1, <3>2, <2>4, <2>7, <2>9, <2>10
  <2>11. CASE e = 2 /\ P[k][1] = Token("byte", Backslash) /\ P[k][2][2] = s[k]
    <3>1. Escapes(tokens, p)
      BY <2>9, <2>11 DEF Escapes
    <3>2. 2 + Len(J[k]) = p + 2
      BY <2>5, <2>7, <2>11
    <3>3. tokens[p + 1] = P[k][2]
      <4>1. 2 \in 1 .. e /\ l + 2 + 1 = p + 1
        BY <2>7, <2>11
      <4> QED
        BY <4>1, <2>6
    <3> QED
      BY <3>1, <3>2, <3>3, <2>4, <2>7, <2>11
  <2> QED
    BY <2>8, <2>10, <2>11
<1>13. PICK place : place = PlaceAfter(tokens, n)
  OBVIOUS
<1>14. \A k \in 0 .. n : place[k] = 2 + Len(J[k])
  <2> DEFINE G(f) == f = [k \in 0 .. n |->
                            IF k = 0 THEN 2
                            ELSE f[k - 1] + (IF Escapes(tokens, f[k - 1]) THEN 2 ELSE 1)]
  <2>1. place = CHOOSE f : G(f)
    BY <1>13 DEF PlaceAfter
  <2>2. J[0] = << >> /\ 2 + Len(J[0]) = 2
    BY <1>5 DEF Joins
  <2>3. \E f : G(f)
    <3>1. PICK g : g = [k \in 0 .. n |-> 2 + Len(J[k])]
      OBVIOUS
    <3>2. ASSUME NEW k \in 0 .. n
          PROVE  g[k] = IF k = 0 THEN 2
                        ELSE g[k - 1] + (IF Escapes(tokens, g[k - 1]) THEN 2 ELSE 1)
      <4>1. CASE k = 0
        BY <4>1, <3>1, <2>2
      <4>2. CASE k # 0
        <5>1. k \in 1 .. n /\ k - 1 \in 0 .. n
          BY <4>2
        <5>2. g[k] = 2 + Len(J[k]) /\ g[k - 1] = 2 + Len(J[k - 1])
          BY <5>1, <3>1
        <5>3. 2 + Len(J[k]) = (2 + Len(J[k - 1]))
                              + (IF Escapes(tokens, 2 + Len(J[k - 1])) THEN 2 ELSE 1)
          BY <5>1, <1>12
        <5> QED
          BY <5>2, <5>3, <4>2
      <4> QED
        BY <4>1, <4>2
    <3>3. g = [k \in 0 .. n |-> IF k = 0 THEN 2
                                ELSE g[k - 1] + (IF Escapes(tokens, g[k - 1]) THEN 2 ELSE 1)]
      BY <3>1, <3>2
    <3> QED
      BY <3>3
  <2>4. G(place)
    <3> HIDE DEF G
    <3> QED
      BY <2>1, <2>3
  <2>5. /\ place[0] = 2
        /\ \A k \in 1 .. n :
              place[k] = place[k - 1] + (IF Escapes(tokens, place[k - 1]) THEN 2 ELSE 1)
    <3>1. 0 \in 0 .. n /\ \A k \in 1 .. n : k \in 0 .. n /\ k # 0
      OBVIOUS
    <3> QED
      BY <3>1, <2>4
  <2> HIDE DEF G
  <2> DEFINE T == {k \in 0 .. n : place[k] # 2 + Len(J[k])}
  <2>6. SUFFICES ASSUME T # {}
                 PROVE  FALSE
    OBVIOUS
  <2>7. T \in SUBSET Nat
    OBVIOUS
  <2>8. PICK k \in T : \A y \in T : k <= y
    <3> HIDE DEF T
    <3> QED
      BY <2>6, <2>7, LeastNatural
  <2>9. k \in 0 .. n /\ place[k] # 2 + Len(J[k]) /\ k # 0
    BY <2>2, <2>5, <2>8
  <2>10. k \in 1 .. n /\ k - 1 \in 0 .. n /\ ~(k <= k - 1)
    BY <2>9
  <2>11. k - 1 \notin T
    <3> HIDE DEF T
    <3> QED
      BY <2>8, <2>10
  <2>12. place[k - 1] = 2 + Len(J[k - 1])
    BY <2>10, <2>11
  <2>13. 2 + Len(J[k]) = (2 + Len(J[k - 1]))
                         + (IF Escapes(tokens, 2 + Len(J[k - 1])) THEN 2 ELSE 1)
    BY <2>10, <1>12
  <2> QED
    BY <2>5, <2>9, <2>10, <2>12, <2>13
<1>15. place[n] = Len(tokens)
  BY <1>10, <1>14
<1>16. ASSUME NEW k \in 1 .. n
       PROVE  LET p == place[k - 1]
              IN s[k] = tokens[IF Escapes(tokens, p) THEN p + 1 ELSE p][2]
  <2>1. k - 1 \in 0 .. n
    OBVIOUS
  <2> QED
    BY <2>1, <1>12, <1>14
<1> QED
  BY <1>1, <1>7, <1>10, <1>13, <1>15, <1>16 DEF SaysText
----------------------------------------------------------------------------
(* Printable: arguments are turned into values, and values into tokens.     *)

\* In memory of any width an integer keeps its value.
LEMMA IntegerLoads ==
  ASSUME NEW type \in IntegerTypes, NEW n \in ValuesOf(type),
         NEW wide \in {Span[type], Span["llong"]}
  PROVE  /\ n \in Int /\ Stored(n, wide) \in Int
         /\ Loaded(Stored(n, wide), wide, type \in SignedTypes) = n
<1>1. "llong" \in IntegerTypes
  BY DEF IntegerTypes, SignedTypes
<1>2. PICK s \in Nat, w \in Nat :
         s = Span[type] /\ w = wide /\ s # 0 /\ w # 0 /\ s % 2 = 0 /\ w % 2 = 0 /\ s <= w
  BY <1>1, PrintAssumption
<1>3. \A x \in Nat : x % 2 = 0 => \E h \in Nat : x = 2 * h /\ x \div 2 = h
  OBVIOUS
<1>4. PICK g \in Nat, h \in Nat : s = 2 * g /\ s \div 2 = g /\ w = 2 * h /\ w \div 2 = h
  BY <1>2, <1>3, Zenon
<1>5. g <= h /\ h > 0
  BY <1>2, <1>4
<1>6. n \in Int /\ IF type \in SignedTypes THEN -g <= n /\ n <= g - 1 ELSE 0 <= n /\ n < s
  BY <1>2, <1>4 DEF ValuesOf
<1>7. \A x \in Nat : \A m \in 0 .. x - 1 : m % x = m
  OBVIOUS
<1>8. \A x \in Nat \ {0} : \A m \in Int : -x <= m /\ m < 0 => m % x = m + x
  OBVIOUS
<1>9. CASE 0 <= n
  <2>1. n \in 0 .. w - 1
    BY <1>2, <1>4, <1>5, <1>6, <1>9
  <2>2. n % w = n
    BY <2>1, <1>7
  <2>3. type \in SignedTypes => ~(n >= h)
    BY <1>5, <1>6
  <2> QED
    BY <2>2, <2>3, <1>2, <1>4, <1>6 DEF Stored, Loaded
<1>10. CASE ~(0 <= n)
  <2>1. type \in SignedTypes
    BY <1>6, <1>10
  <2>2. w \in Nat \ {0} /\ -w <= n /\ n < 0
    BY <2>1, <1>2, <1>4, <1>5, <1>6, <1>10
  <2>3. n % w = n + w
    BY <2>2, <1>6, <1>8
  <2>4. n + w >= h /\ (n + w) - w = n /\ n + w \in Int
    BY <2>1, <1>4, <1>5, <1>6
  <2> QED
    BY <2>1, <2>3, <2>4, <1>2, <1>4, <1>6 DEF Stored, Loaded
<1> QED
  BY <1>9, <1>10

LEMMA TypesApart ==
  ASSUME NEW type
  PROVE  /\ type \in IntegerTypes =>
               type \notin TextTypes /\ type \notin {"float", "double", "ldouble"}
         /\ type \in TextTypes =>
               /\ type \notin IntegerTypes
               /\ type \notin {"float", "double", "ldouble", "array", "set", "map", "end", "custom"}
         /\ "cstring" \in TextTypes
  BY DEF IntegerTypes, SignedTypes, UnsignedTypes, TextTypes

\* An element of a container, from the memory of the container.
LEMMA ElementSays ==
  ASSUME NEW type \in STRING, NEW value \in Seq(Int), OfType(type, value)
  PROVE  /\ Element(type, InMemory(type, value)) \in Seq(TokenSet)
         /\ Recognized(Element(type, InMemory(type, value)), type, value, TRUE)
<1>1. CASE type \in IntegerTypes
  <2>1. PICK n \in ValuesOf(type) : value = <<n>>
    BY <1>1 DEF OfType
  <2>2. PICK m : m = Stored(n, Span[type])
    OBVIOUS
  <2>3. InMemory(type, value) = <<m>>
    BY <1>1, <2>1, <2>2 DEF InMemory
  <2>4. n \in Int /\ Loaded(m, Span[type], type \in SignedTypes) = n
    BY <1>1, <2>2, IntegerLoads
  <2>5. Element(type, InMemory(type, value)) = <<Token("number", n)>>
    <3>1. InMemory(type, value)[1] = m
      BY <2>3
    <3>2. type \notin TextTypes /\ type # "cstring" /\ type \notin {"float", "double", "ldouble"}
      BY <1>1, TypesApart, Zenon
    <3>3. Element(type, InMemory(type, value)) =
             <<Token("number", Loaded(InMemory(type, value)[1], Span[type],
                                      type \in SignedTypes))>>
      BY <1>1, <3>2 DEF Element, Loaded
    <3> QED
      BY <3>1, <3>3, <2>4, Zenon
  <2>6. <<Token("number", n)>> \in Seq(TokenSet)
    <3>1. "number" \in Roles
      BY DEF Roles
    <3> QED
      BY <3>1, <2>4, TokenTyped, Zenon
  <2>7. Recognized(<<Token("number", n)>>, type, value, TRUE)
    <3>1. value[1] = n
      BY <2>1
    <3> QED
      BY <1>1, <3>1, TypesApart DEF Recognized
  <2> QED
    BY <2>5, <2>6, <2>7
<1>2. CASE type \in TextTypes /\ value # NullText
  <2>1. type \notin IntegerTypes
    BY <1>2 DEF IntegerTypes, SignedTypes, UnsignedTypes, TextTypes
  <2>2. Element(type, InMemory(type, value)) = Quoted(value)
    <3>1. InMemory(type, value) = value
      BY <2>1 DEF InMemory
    <3>2. type \notin {"float", "double", "ldouble"}
      BY <1>2, TypesApart
    <3>3. Element(type, value) = Quoted(value)
      BY <1>2, <2>1, <3>2, SMT DEF Element
    <3> QED
      BY <3>1, <3>3
  <2>3. Quoted(value) \in Seq(TokenSet) /\ SaysText(Quoted(value), value)
    BY QuotedSays
  <2>4. Recognized(Quoted(value), type, value, TRUE)
    BY <1>2, <2>1, <2>3 DEF Recognized
  <2> QED
    BY <2>2, <2>3, <2>4
<1>3. CASE type \notin IntegerTypes /\ ~(type \in TextTypes /\ value # NullText)
  <2>1. value[1] \in Int
    <3>1. CASE value = NullText
      BY <3>1 DEF NullText
    <3>2. CASE value # NullText
      <4>1. Len(value) = 1
        BY <1>3, <3>2 DEF OfType
      <4> QED
        BY <4>1
    <3> QED
      BY <3>1, <3>2
  <2>2. PICK role \in Roles, n \in Int :
           Element(type, InMemory(type, value)) = <<Token(role, n)>>
    <3>1. type \in Roles /\ "floating" \in Roles /\ "(null)" \in Roles
      BY DEF Roles
    <3>2. \E role \in {"floating", "(null)", type}, n \in {0, value[1]} :
             Element(type, InMemory(type, value)) = <<Token(role, n)>>
      BY <1>3 DEF Element, InMemory
    <3> QED
      BY <3>1, <3>2, <2>1
  <2>3. <<Token(role, n)>> \in Seq(TokenSet) /\ Len(<<Token(role, n)>>) = 1
    BY TokenTyped, Zenon
  <2>4. Recognized(<<Token(role, n)>>, type, value, TRUE)
    BY <1>3, <2>3 DEF Recognized
  <2> QED
    BY <2>2, <2>3, <2>4
<1> QED
  BY <1>1, <1>2, <1>3

\* What the macros leave alone, and what they convert.
LEMMA ValueIs ==
  ASSUME NEW a, WellFormed(a)
  PROVE  /\ Value(a).type = Kind(a.type) /\ Value(a).value = Converted(a.type, a.value)
         /\ Value(a).types = a.types /\ Value(a).functions = a.functions
         /\ Value(a).elements =
               [k \in DOMAIN a.elements |-> InMemory(TypeAt(a, k), a.elements[k])]
<1> DEFINE A == [type : STRING, value : Seq(Int), types : Seq(STRING), functions : Seq(BOOLEAN),
                 elements : Seq(Seq(Int))]
<1>1. a \in A
  BY DEF WellFormed
<1>2. PICK z : z = [k \in DOMAIN a.elements |-> InMemory(TypeAt(a, k), a.elements[k])]
  OBVIOUS
<1>3. Value(a) = [a EXCEPT !.type = Kind(a.type), !.value = Converted(a.type, a.value),
                           !.elements = z]
  BY <1>1, <1>2 DEF Value
<1>4. PICK x, y : x = Kind(a.type) /\ y = Converted(a.type, a.value)
  OBVIOUS
<1>5. PICK v : v = [a EXCEPT !.type = x, !.value = y, !.elements = z]
  OBVIOUS
<1>6. /\ v.type = x /\ v.value = y /\ v.types = a.types /\ v.functions = a.functions
      /\ v.elements = z
  BY <1>1, <1>5
<1> QED
  BY <1>2, <1>3, <1>4, <1>5, <1>6

LEMMA ElementFaithful ==
  ASSUME NEW a, WellFormed(a), NEW k \in DOMAIN a.elements
  PROVE  /\ k \in Nat /\ ElementOf(Value(a), k) \in Seq(TokenSet)
         /\ \/ FunctionAt(a, k)
            \/ Recognized(ElementOf(Value(a), k), TypeAt(a, k), a.elements[k], TRUE)
<1>1. /\ a.types \in Seq(STRING) /\ a.types # << >> /\ a.elements \in Seq(Seq(Int))
      /\ OfType(TypeAt(a, k), a.elements[k])
  BY DEF WellFormed
<1>2. k \in 1 .. Len(a.elements) /\ a.elements[k] \in Seq(Int)
  BY <1>1
<1>3. TypeAt(a, k) \in STRING
  <2>1. PICK n \in Nat : n = Len(a.types) /\ n # 0
    BY <1>1, EmptySeq
  <2>2. \A x \in Nat, y \in Nat \ {0} : (x % y) + 1 \in 1 .. y
    OBVIOUS
  <2>3. k - 1 \in Nat
    BY <1>2
  <2>4. ((k - 1) % n) + 1 \in 1 .. n
    BY <2>1, <2>2, <2>3
  <2> QED
    BY <1>1, <2>1, <2>4 DEF TypeAt, Turn
<1>4. /\ FunctionAt(Value(a), k) = FunctionAt(a, k) /\ TypeAt(Value(a), k) = TypeAt(a, k)
      /\ Value(a).elements[k] = InMemory(TypeAt(a, k), a.elements[k])
  <2>1. Value(a).types = a.types /\ Value(a).functions = a.functions
    BY ValueIs, Zenon
  <2>2. Value(a).elements = [i \in DOMAIN a.elements |-> InMemory(TypeAt(a, i), a.elements[i])]
    BY ValueIs, Zenon
  <2>3. Value(a).elements[k] = InMemory(TypeAt(a, k), a.elements[k])
    BY <2>2, Zenon
  <2> QED
    BY <2>1, <2>3, Zenon DEF FunctionAt, TypeAt
<1>5. /\ Element(TypeAt(a, k), InMemory(TypeAt(a, k), a.elements[k])) \in Seq(TokenSet)
      /\ Recognized(Element(TypeAt(a, k), InMemory(TypeAt(a, k), a.elements[k])),
                    TypeAt(a, k), a.elements[k], TRUE)
  BY <1>1, <1>2, <1>3, ElementSays, Zenon
<1>6. CASE FunctionAt(a, k)
  <2>1. "custom" \in Roles /\ 0 \in Int
    BY DEF Roles
  <2>2. <<Token("custom", 0)>> \in Seq(TokenSet)
    BY <2>1, TokenTyped, Zenon
  <2> QED
    BY <2>2, <1>2, <1>4, <1>6 DEF ElementOf
<1>7. CASE ~FunctionAt(a, k)
  <2>1. ElementOf(Value(a), k) = Element(TypeAt(a, k), InMemory(TypeAt(a, k), a.elements[k]))
    BY <1>4, <1>7, Zenon DEF ElementOf
  <2>2. k \in Nat
    BY <1>2
  <2> QED
    BY <2>1, <2>2, <1>5, Zenon
<1> QED
  BY <1>6, <1>7

LEMMA KindIs ==
  ASSUME NEW type \in STRING
  PROVE  /\ type \in SignedTypes => Kind(type) = "signed"
         /\ type \in UnsignedTypes => Kind(type) = "unsigned"
         /\ type \in TextTypes \cup {"array", "set", "map", "custom", "end", "signed", "unsigned"}
               => Kind(type) = type
         /\ \/ type \in IntegerTypes \cup TextTypes
            \/ type \in {"array", "set", "map", "custom", "end", "signed", "unsigned"}
            \/ /\ Kind(type) \notin TextTypes
               /\ Kind(type) \notin {"signed", "unsigned", "array", "set", "map", "custom", "end"}
         /\ Kind(type) \in Roles
<1>1. CASE type \in SignedTypes
  BY <1>1 DEF Kind, SignedTypes, UnsignedTypes, IntegerTypes, TextTypes, Roles
<1>2. CASE type \in UnsignedTypes
  BY <1>2 DEF Kind, SignedTypes, UnsignedTypes, IntegerTypes, TextTypes, Roles
<1>3. CASE type \in {"float", "double", "ldouble"}
  BY <1>3 DEF Kind, SignedTypes, UnsignedTypes, TextTypes, Roles
<1>4. CASE type \notin SignedTypes /\ type \notin UnsignedTypes
           /\ type \notin {"float", "double", "ldouble"}
  <2>1. Kind(type) = type
    BY <1>4 DEF Kind
  <2> QED
    BY <2>1, <1>4 DEF IntegerTypes, Roles
<1> QED
  BY <1>1, <1>2, <1>3, <1>4

\* A container is written as its elements with what stands between them.
LEMMA ElementsTyped ==
  ASSUME NEW a, WellFormed(a)
  PROVE  Elements(Value(a)) \in Seq(TokenSet)
<1>1. PICK v : v = Value(a)
  OBVIOUS
<1>2. {"empty", "open", "close", ": ", ", "} \subseteq Roles
  BY DEF Roles
<1>3. \A role \in {"empty", "open", "close", ": ", ", "} : <<Token(role, 0)>> \in Seq(TokenSet)
  <2>1. 0 \in Int
    OBVIOUS
  <2> QED
    BY <2>1, <1>2, TokenTyped
<1>4. PICK n \in Nat : n = Len(a.elements) /\ DOMAIN a.elements = 1 .. n
  BY DEF WellFormed
<1>5. DOMAIN v.elements = 1 .. n
  BY <1>1, <1>4, ValueIs
<1>6. PICK P : P = [k \in 1 .. n |-> Preceding(v, k) \o ElementOf(v, k)]
  OBVIOUS
<1>7. ASSUME NEW k \in 1 .. n
      PROVE  P[k] \in Seq(TokenSet)
  <2>1. ElementOf(v, k) \in Seq(TokenSet)
    BY <1>1, <1>4, ElementFaithful, Zenon
  <2>2. Preceding(v, k) \in Seq(TokenSet)
    <3>1. Preceding(v, k) \in {<< >>, <<Token(": ", 0)>>, <<Token(", ", 0)>>}
      <4>1. CASE k = 1
        BY <4>1, SMT DEF Preceding
      <4>2. CASE k # 1
        BY <4>2, SMT DEF Preceding
      <4> QED
        BY <4>1, <4>2
    <3>2. << >> \in Seq(TokenSet)
      OBVIOUS
    <3> QED
      BY <3>1, <3>2, <1>3
  <2>3. Preceding(v, k) \o ElementOf(v, k) \in Seq(TokenSet)
    BY <2>1, <2>2, ConcatProperties
  <2> QED
    BY <2>3, <1>6
<1>8. P \in Seq(Seq(TokenSet)) /\ Len(P) = n
  BY <1>6, <1>7
<1>9. PICK J : Joins(TokenSet, n, P, J)
  BY <1>7, JoinsExist
<1>10. SeqExt!FlattenSeq(P) = J[n] /\ J[n] \in Seq(TokenSet)
  <2>1. n \in 0 .. n
    OBVIOUS
  <2>2. J[n] \in Seq(TokenSet)
    BY <2>1, <1>9 DEF Joins
  <2>3. FirstParts(TokenSet, n, P, P)
    BY <1>8 DEF FirstParts
  <2>4. FlattensTo(P, J[Len(P)])
    BY <2>3, <1>9, FlattenJoins, Zenon
  <2> QED
    BY <2>2, <2>4, <1>8 DEF FlattensTo
<1>11. PICK o \in Seq(TokenSet), c \in Seq(TokenSet) :
          o = <<Token("open", 0)>> /\ c = <<Token("close", 0)>>
  BY <1>3
<1>12. (o \o J[n]) \o c \in Seq(TokenSet)
  BY <1>10, ConcatProperties
<1>13. Elements(v) \in {<<Token("empty", 0)>>, (o \o J[n]) \o c}
  BY <1>5, <1>6, <1>10, <1>11 DEF Elements
<1> QED
  BY <1>1, <1>3, <1>12, <1>13

\* An argument is faithfully written.
LEMMA ArgumentFaithful ==
  ASSUME NEW a, WellFormed(a)
  PROVE  Chunks(Value(a)) \in Seq(TokenSet) /\ Faithful(a)
<1>1. PICK v : v = Value(a)
  OBVIOUS
<1>2. /\ a.type \in STRING /\ a.value \in Seq(Int)
      /\ a.type \in {"end", "custom", "array", "set", "map"} \/ OfType(a.type, a.value)
  BY DEF WellFormed
<1>3. v.type = Kind(a.type) /\ v.value = Converted(a.type, a.value)
  BY <1>1, ValueIs, Zenon
<1>4. SUFFICES /\ Chunks(v) \in Seq(TokenSet)
               /\ a.type \notin {"array", "set", "map", "end", "custom"} =>
                     Recognized(Chunks(v), a.type, a.value, FALSE)
  <2>1. a.type \in {"array", "set", "map"} =>
           \A k \in DOMAIN a.elements :
              FunctionAt(a, k)
                 \/ Recognized(ElementOf(v, k), TypeAt(a, k), a.elements[k], TRUE)
    BY <1>1, ElementFaithful, Zenon
  <2> QED
    BY <1>1, <1>4, <2>1 DEF Faithful
<1>5. CASE a.type \in IntegerTypes
  <2>1. a.type \notin {"end", "custom", "array", "set", "map"} /\ a.type \notin TextTypes
    BY <1>5 DEF IntegerTypes, SignedTypes, UnsignedTypes, TextTypes
  <2>2. PICK n \in ValuesOf(a.type) : a.value = <<n>>
    BY <1>2, <1>5, <2>1 DEF OfType
  <2>3. PICK m : m = Stored(n, Span["llong"])
    OBVIOUS
  <2>4. n \in Int /\ Loaded(m, Span["llong"], a.type \in SignedTypes) = n
    BY <1>5, <2>3, IntegerLoads
  <2>5. /\ v.type \in {"signed", "unsigned"} /\ (v.type = "signed" <=> a.type \in SignedTypes)
        /\ v.type \notin TextTypes
    <3>1. a.type \in SignedTypes => v.type = "signed"
      BY <1>2, <1>3, KindIs
    <3>2. a.type \in UnsignedTypes => v.type = "unsigned"
      BY <1>2, <1>3, KindIs
    <3> QED
      BY <3>1, <3>2, <1>5 DEF IntegerTypes, TextTypes
  <2>6. v.value[1] = m
    <3>1. Kind(a.type) \in {"signed", "unsigned"}
      BY <1>3, <2>5
    <3>2. v.value = <<Stored(a.value[1], Span["llong"])>>
      BY <1>3, <3>1 DEF Converted
    <3>3. a.value[1] = n
      BY <2>2
    <3> QED
      BY <3>2, <3>3, <2>3
  <2>7. Chunks(v) = <<Token("number", Loaded(v.value[1], Span["llong"], v.type = "signed"))>>
    <3>1. v.type \notin {"cstring", "array", "set", "map", "custom", "end"}
      BY <2>5
    <3> QED
      BY <2>5, <3>1 DEF Chunks, Loaded
  <2>8. Loaded(m, Span["llong"], v.type = "signed") = n
    BY <2>4, <2>5 DEF Loaded
  <2>9. Chunks(v) = <<Token("number", n)>>
    BY <2>6, <2>7, <2>8, Zenon
  <2>10. <<Token("number", n)>> \in Seq(TokenSet)
    <3>1. "number" \in Roles
      BY DEF Roles
    <3> QED
      BY <3>1, <2>4, TokenTyped, Zenon
  <2>11. Recognized(<<Token("number", n)>>, a.type, a.value, FALSE)
    <3>1. a.value[1] = n
      BY <2>2
    <3> QED
      BY <1>5, <3>1, TypesApart DEF Recognized
  <2> QED
    BY <2>9, <2>10, <2>11
<1>6. CASE a.type \in TextTypes /\ a.value # NullText
  <2>1. v.type = a.type
    BY <1>2, <1>3, <1>6, KindIs
  <2>2. v.type \notin {"signed", "unsigned", "array", "set", "map", "custom", "end"}
    BY <1>6, <2>1 DEF TextTypes
  <2>3. v.value = a.value
    BY <1>3, <2>2 DEF Converted
  <2>4. Chunks(v) = Plain(a.value)
    BY <1>6, <2>1, <2>2, <2>3 DEF Chunks
  <2>5. Plain(a.value) \in Seq(TokenSet)
    BY <1>2, PlainTyped
  <2>6. Recognized(Plain(a.value), a.type, a.value, FALSE)
    BY <1>6, TypesApart DEF Recognized
  <2> QED
    BY <2>4, <2>5, <2>6
<1>7. CASE a.type \in {"array", "set", "map"}
  <2>1. v.type = a.type
    BY <1>2, <1>3, <1>7, KindIs
  <2>2. v.type \notin {"signed", "unsigned", "custom", "end", "cstring"} /\ v.type \notin TextTypes
    BY <1>7, <2>1 DEF TextTypes
  <2>3. Chunks(v) = Elements(v)
    BY <1>7, <2>1, <2>2 DEF Chunks
  <2> QED
    BY <2>3, <1>1, <1>7, ElementsTyped
<1>8. CASE a.type \in {"custom", "end"}
  <2>1. v.type = a.type
    BY <1>2, <1>3, <1>8, KindIs
  <2>2. /\ v.type \notin {"signed", "unsigned", "array", "set", "map", "cstring"}
        /\ v.type \notin TextTypes
    BY <1>8, <2>1 DEF TextTypes
  <2>3. Chunks(v) \in {<< >>, <<Token("custom", 0)>>}
    BY <1>8, <2>1, <2>2 DEF Chunks
  <2>4. <<Token("custom", 0)>> \in Seq(TokenSet) /\ << >> \in Seq(TokenSet)
    <3>1. "custom" \in Roles /\ 0 \in Int
      BY DEF Roles
    <3> QED
      BY <3>1, TokenTyped
  <2> QED
    BY <2>3, <2>4, <1>8
<1>9. CASE /\ a.type \notin {"array", "set", "map", "custom", "end"}
           /\ a.type \notin IntegerTypes /\ ~(a.type \in TextTypes /\ a.value # NullText)
  <2>1. OfType(a.type, a.value)
    BY <1>2, <1>9
  <2>2. a.value[1] \in Int
    <3>1. CASE a.value = NullText
      BY <3>1 DEF NullText
    <3>2. CASE a.value # NullText
      <4>1. Len(a.value) = 1
        BY <1>9, <2>1, <3>2 DEF OfType
      <4> QED
        BY <4>1, <1>2
    <3> QED
      BY <3>1, <3>2
  <2>3. PICK role \in Roles, n \in Int : Chunks(v) = <<Token(role, n)>>
    <3>1. CASE a.type \in {"signed", "unsigned"}
      <4>1. v.type = a.type
        BY <1>2, <1>3, <3>1, KindIs
      <4>2. v.type \in {"signed", "unsigned"} /\ v.type \notin TextTypes
            /\ v.type \notin {"cstring", "array", "set", "map", "custom", "end"}
        BY <3>1, <4>1 DEF TextTypes
      <4>3. PICK m : m = Loaded(v.value[1], Span["llong"], v.type = "signed")
        OBVIOUS
      <4>4. Chunks(v) = <<Token("number", m)>>
        BY <4>2, <4>3 DEF Chunks, Loaded
      <4>5. m \in Int
        <5>1. PICK w \in Nat : w = Span["llong"] /\ w # 0
          <6>1. "llong" \in IntegerTypes
            BY DEF IntegerTypes, SignedTypes
          <6> QED
            BY <6>1, PrintAssumption
        <5>2. v.value = <<Stored(a.value[1], w)>>
          BY <1>3, <4>1, <4>2, <5>1 DEF Converted
        <5>3. \A x \in Int, y \in Nat \ {0} : x % y \in Int
          OBVIOUS
        <5>4. v.value[1] \in Int
          BY <2>2, <5>1, <5>2, <5>3 DEF Stored
        <5> QED
          BY <4>3, <5>1, <5>4 DEF Loaded
      <4>6. "number" \in Roles
        BY DEF Roles
      <4> QED
        BY <4>4, <4>5, <4>6
    <3>2. CASE a.type \in TextTypes
      <4>1. v.type = a.type /\ a.value = NullText
        BY <1>2, <1>3, <1>9, <3>2, KindIs
      <4>2. v.type \notin {"signed", "unsigned", "array", "set", "map", "custom", "end"}
        BY <3>2, <4>1 DEF TextTypes
      <4>3. v.value = NullText
        BY <1>3, <4>1, <4>2 DEF Converted
      <4>4. NullText[1] \in Int
        BY <2>2, <4>1
      <4>5. v.type \in Roles /\ "(null)" \in Roles
        BY <1>2, <4>1 DEF Roles
      <4>6. CASE v.type = "cstring"
        <5>1. Chunks(v) = <<Token("(null)", 0)>>
          BY <4>2, <4>3, <4>6 DEF Chunks
        <5> QED
          BY <5>1, <4>5
      <4>7. CASE v.type # "cstring"
        <5>1. Chunks(v) = <<Token(v.type, v.value[1])>>
          BY <4>2, <4>3, <4>7 DEF Chunks
        <5> QED
          BY <5>1, <4>3, <4>4, <4>5
      <4> QED
        BY <4>6, <4>7
    <3>3. CASE a.type \notin TextTypes /\ a.type \notin {"signed", "unsigned"}
      <4>1. /\ v.type \notin {"signed", "unsigned", "array", "set", "map", "custom", "end"}
            /\ v.type \notin TextTypes /\ v.type \in Roles
        BY <1>2, <1>3, <1>9, <3>3, KindIs
      <4>2. v.type # "cstring"
        BY <4>1, TypesApart
      <4>3. Chunks(v) = <<Token(v.type, v.value[1])>>
        BY <4>1, <4>2 DEF Chunks
      <4>4. v.value = a.value
        BY <1>3, <4>1 DEF Converted
      <4> QED
        BY <4>1, <4>3, <4>4, <2>2
    <3> QED
      BY <3>1, <3>2, <3>3
  <2>4. <<Token(role, n)>> \in Seq(TokenSet) /\ Len(<<Token(role, n)>>) = 1
    BY TokenTyped, Zenon
  <2>5. Recognized(<<Token(role, n)>>, a.type, a.value, FALSE)
    BY <1>9, <2>4 DEF Recognized
  <2> QED
    BY <2>3, <2>4, <2>5
<1> QED
  BY <1>5, <1>6, <1>7, <1>8, <1>9
----------------------------------------------------------------------------
(* Printing: the invariant.                                                 *)

PrintTypes ==
    /\ arguments \in Seq(Arguments)
    /\ values = [k \in DOMAIN arguments |-> Value(arguments[k])]
    /\ printing \in {"check", "separator", "value", "returned"}
    /\ index \in Nat \ {0} /\ chunk \in Nat /\ printed_count \in Nat /\ ending \in Seq(Int)

\* The first pass has the ending of the values it has seen.
Checking ==
    printing = "check" =>
        /\ output = << >> /\ print_status = "OK" /\ printed_count = 0 /\ chunk = 0
        /\ index <= Len(values) + 1 /\ ending = LastEnding(values, index - 1)

\* The second pass has counted the values before this one that are no endings.
Passing ==
    printing \in {"separator", "value"} =>
        /\ print_status = "OK" /\ ending = LastEnding(values, Len(values))
        /\ index <= Len(values) + 1
        /\ printed_count # 0 <=> \E k \in 1 .. index - 1 : values[k].type # "end"

Separating ==
    printing = "separator" => output = Line(values, index - 1) /\ chunk = 0

\* What is written of a value when some of its tokens are.
Partial(vs, n, c) == Between(vs, n) \o SubSeq(Chunks(vs[n]), 1, c)

Writing ==
    printing = "value" =>
        /\ index <= Len(values) /\ values[index].type # "end"
        /\ chunk <= Len(Chunks(values[index]))
        /\ output = Line(values, index - 1) \o Partial(values, index, chunk)

PrintInv == PrintTypes /\ Checking /\ Passing /\ Separating /\ Writing /\ PrintsInOrder

\* A line is the line of the values before the last one, and what that is written as.
LEMMA LinesAre ==
  ASSUME NEW vs, NEW n \in Nat, \A k \in 1 .. n : Chunks(vs[k]) \in Seq(TokenSet)
  PROVE  /\ Line(vs, 0) = << >>
         /\ \A k \in 1 .. n : /\ Between(vs, k) \in Seq(TokenSet) /\ Piece(vs, k) \in Seq(TokenSet)
                              /\ Line(vs, k) = Line(vs, k - 1) \o Piece(vs, k)
         /\ \A k \in 0 .. n : /\ Line(vs, k) \in Seq(TokenSet)
                              /\ BeginsWith(TokenSet, Line(vs, n), Line(vs, k))
<1>1. Plain(BlankBetween) \in Seq(TokenSet)
  <2>1. BlankBetween \in Seq(Int)
    BY DEF BlankBetween
  <2> QED
    BY <2>1, PlainTyped
<1>2. << >> \in Seq(TokenSet)
  OBVIOUS
<1>3. \A k \in 1 .. n : Between(vs, k) \in Seq(TokenSet)
  BY <1>1, <1>2 DEF Between
<1>4. \A k \in 1 .. n : Piece(vs, k) \in Seq(TokenSet)
  <2> TAKE k \in 1 .. n
  <2>1. Between(vs, k) \o Chunks(vs[k]) \in Seq(TokenSet)
    BY <1>3, ConcatProperties
  <2> QED
    BY <2>1, <1>2 DEF Piece
<1>5. PICK P : P = [k \in 1 .. n |-> Piece(vs, k)]
  OBVIOUS
<1>6. \A k \in 1 .. n : P[k] = Piece(vs, k) /\ P[k] \in Seq(TokenSet)
  BY <1>4, <1>5
<1>7. PICK J : Joins(TokenSet, n, P, J)
  BY <1>6, JoinsExist
<1>8. \A k \in 0 .. n : BeginsWith(TokenSet, J[n], J[k])
  BY <1>6, <1>7, JoinsBegin
<1>9. ASSUME NEW k \in 0 .. n
      PROVE  Line(vs, k) = J[k]
  <2>1. PICK Q : Q = [i \in 1 .. k |-> Piece(vs, i)]
    OBVIOUS
  <2>2. \A i \in 1 .. k : i \in 1 .. n
    OBVIOUS
  <2>3. \A i \in 1 .. k : Q[i] = P[i] /\ Q[i] \in Seq(TokenSet)
    BY <2>1, <2>2, <1>6
  <2>4. Q \in Seq(Seq(TokenSet)) /\ Len(Q) = k
    BY <2>1, <2>3
  <2>5. FirstParts(TokenSet, n, P, Q)
    BY <2>3, <2>4 DEF FirstParts
  <2>6. FlattensTo(Q, J[Len(Q)])
    BY <2>5, <1>7, FlattenJoins, Zenon
  <2> QED
    BY <2>1, <2>4, <2>6 DEF Line, FlattensTo
<1>10. /\ J[0] = << >> /\ \A k \in 0 .. n : J[k] \in Seq(TokenSet)
       /\ \A k \in 1 .. n : J[k] = J[k - 1] \o P[k]
  BY <1>7 DEF Joins
<1>11. 0 \in 0 .. n /\ n \in 0 .. n /\ \A k \in 1 .. n : k \in 0 .. n /\ k - 1 \in 0 .. n
  OBVIOUS
<1> QED
  BY <1>3, <1>4, <1>6, <1>8, <1>9, <1>10, <1>11

LEMMA LastEndingIs ==
  ASSUME NEW vs, NEW n \in Nat
  PROVE  /\ LastEnding(vs, 0) = NewLine
         /\ LastEnding(vs, n + 1) = IF vs[n + 1].type = "end" THEN vs[n + 1].value
                                    ELSE LastEnding(vs, n)
<1> DEFINE E(m) == {k \in 1 .. m : vs[k].type = "end"}
<1>1. LastEnding(vs, 0) = NewLine
  <2>1. E(0) = {}
    OBVIOUS
  <2> QED
    BY <2>1 DEF LastEnding
<1>2. ASSUME vs[n + 1].type = "end"
      PROVE  LastEnding(vs, n + 1) = vs[n + 1].value
  <2>1. n + 1 \in E(n + 1) /\ \A l \in E(n + 1) : l <= n + 1
    BY <1>2
  <2>2. \A m \in E(n + 1) : (\A l \in E(n + 1) : l <= m) => m = n + 1
    BY <2>1
  <2>3. (CHOOSE k \in E(n + 1) : \A l \in E(n + 1) : l <= k) = n + 1
    <3> HIDE DEF E
    <3> QED
      BY <2>1, <2>2
  <2> QED
    BY <2>1, <2>3, <1>1, <1>2 DEF LastEnding
<1>3. ASSUME vs[n + 1].type # "end"
      PROVE  LastEnding(vs, n + 1) = LastEnding(vs, n)
  <2>1. E(n + 1) = E(n)
    BY <1>3
  <2>2. \A m : LastEnding(vs, m) =
           IF E(m) = {} THEN NewLine ELSE vs[CHOOSE k \in E(m) : \A l \in E(m) : l <= k].value
    BY Zenon DEF LastEnding
  <2> HIDE DEF E
  <2>3. LastEnding(vs, n + 1) =
           IF E(n) = {} THEN NewLine ELSE vs[CHOOSE k \in E(n) : \A l \in E(n) : l <= k].value
    BY <2>1, <2>2, Zenon
  <2> QED
    BY <2>2, <2>3, Zenon
<1> QED
  BY <1>1, <1>2, <1>3, Zenon

\* A beginning is found again at the beginning.
LEMMA BeginningFound ==
  ASSUME NEW S, NEW s, NEW b \in Seq(S), BeginsWith(S, s, b)
  PROVE  s \in Seq(S) /\ Len(b) <= Len(s) /\ b = SubSeq(s, 1, Len(b))
<1>1. PICK rest \in Seq(S) : s = b \o rest
  BY DEF BeginsWith
<1>2. PICK n \in Nat, m \in Nat : n = Len(b) /\ m = Len(rest)
  OBVIOUS
<1>3. /\ s \in Seq(S) /\ Len(s) = n + m
      /\ \A i \in 1 .. n + m : s[i] = IF i <= n THEN b[i] ELSE rest[i - n]
  BY <1>1, <1>2, ConcatProperties
<1>4. \A i \in 1 .. n : i \in 1 .. n + m /\ s[i] = b[i] /\ s[i] \in S
  BY <1>2, <1>3
<1>5. SubSeq(s, 1, n) = [i \in 1 .. n |-> s[i]]
  BY <1>3, <1>2
<1>6. b = [i \in 1 .. n |-> b[i]]
  BY <1>2
<1>7. b = SubSeq(s, 1, n)
  BY <1>4, <1>5, <1>6
<1> QED
  BY <1>2, <1>3, <1>7

LEMMA BeginningOf ==
  ASSUME NEW S, NEW a \in Seq(S), NEW b \in Seq(S), NEW c \in Seq(S)
  PROVE  /\ BeginsWith(S, (a \o b) \o c, a) /\ BeginsWith(S, a \o b, a)
         /\ \A s : BeginsWith(S, s, a \o b) => BeginsWith(S, s, a)
         /\ \A s : BeginsWith(S, s, a) => BeginsWith(S, s \o c, a)
<1>1. \A d, e \in Seq(S) : d \o e \in Seq(S)
  BY ConcatProperties
<1>2. \A d, e \in Seq(S) : (a \o d) \o e = a \o (d \o e)
  <2>1. Associative(S)
    BY Associates
  <2> QED
    BY <2>1, Zenon DEF Associative
<1>3. BeginsWith(S, a \o b, a)
  BY DEF BeginsWith
<1>4. ASSUME NEW s, NEW d \in Seq(S), BeginsWith(S, s, a \o d)
      PROVE  BeginsWith(S, s, a)
  <2>1. PICK e \in Seq(S) : s = (a \o d) \o e
    BY <1>4 DEF BeginsWith
  <2>2. s = a \o (d \o e) /\ d \o e \in Seq(S)
    BY <2>1, <1>1, <1>2
  <2> QED
    BY <2>2, Zenon DEF BeginsWith
<1>5. ASSUME NEW s, NEW d \in Seq(S), BeginsWith(S, s, a)
      PROVE  BeginsWith(S, s \o d, a)
  <2>1. PICK e \in Seq(S) : s = a \o e
    BY <1>5 DEF BeginsWith
  <2>2. s \o d = a \o (e \o d) /\ e \o d \in Seq(S)
    BY <2>1, <1>1, <1>2
  <2> QED
    BY <2>2, Zenon DEF BeginsWith
<1> QED
  BY <1>3, <1>4, <1>5

Split(s, a, b) == s = a \o b

\* A sequence up to a place: nothing, all of it, one element more, and the rest.
LEMMA FirstElements ==
  ASSUME NEW S, NEW q \in Seq(S), NEW c \in 0 .. Len(q)
  PROVE  /\ SubSeq(q, 1, c) \in Seq(S) /\ SubSeq(q, 1, 0) = << >> /\ SubSeq(q, 1, Len(q)) = q
         /\ BeginsWith(S, q, SubSeq(q, 1, c))
         /\ c < Len(q) => /\ <<q[c + 1]>> \in Seq(S)
                          /\ Split(SubSeq(q, 1, c + 1), SubSeq(q, 1, c), <<q[c + 1]>>)
<1>1. PICK n \in Nat : n = Len(q)
  OBVIOUS
<1>2. \A i \in 1 .. n : q[i] \in S
  BY <1>1
<1>3. \A d \in 0 .. n : /\ SubSeq(q, 1, d) = [i \in 1 .. d |-> q[i]]
                        /\ SubSeq(q, 1, d) \in Seq(S) /\ Len(SubSeq(q, 1, d)) = d
  <2> TAKE d \in 0 .. n
  <2>1. SubSeq(q, 1, d) = [i \in 1 .. d |-> q[i]]
    BY <1>1
  <2>2. \A i \in 1 .. d : q[i] \in S
    BY <1>2
  <2> QED
    BY <2>1, <2>2
<1>4. q = [i \in 1 .. n |-> q[i]]
  BY <1>1
<1>5. n \in 0 .. n /\ 0 \in 0 .. n /\ c \in 0 .. n
  BY <1>1
<1>6. PICK p \in Seq(S) : p = SubSeq(q, 1, c) /\ Len(p) = c /\ \A i \in 1 .. c : p[i] = q[i]
  BY <1>3, <1>5
<1>7. \E rest \in Seq(S) : q = p \o rest
  <2>1. PICK rest : rest = [i \in 1 .. n - c |-> q[c + i]]
    OBVIOUS
  <2>2. rest \in Seq(S) /\ Len(rest) = n - c /\ \A i \in 1 .. n - c : rest[i] = q[c + i]
    <3>1. n - c \in Nat /\ \A i \in 1 .. n - c : c + i \in 1 .. n
      BY <1>5
    <3> QED
      BY <3>1, <2>1, <1>2
  <2>3. /\ p \o rest \in Seq(S) /\ Len(p \o rest) = c + (n - c)
        /\ \A i \in 1 .. c + (n - c) : (p \o rest)[i] = IF i <= c THEN p[i] ELSE rest[i - c]
    BY <2>2, <1>6, ConcatProperties
  <2>4. c + (n - c) = n
    BY <1>5
  <2>5. \A i \in 1 .. n : (p \o rest)[i] = q[i]
    <3> TAKE i \in 1 .. n
    <3>1. CASE i <= c
      <4>1. i \in 1 .. c
        BY <3>1, <1>5
      <4> QED
        BY <4>1, <3>1, <2>3, <2>4, <1>6
    <3>2. CASE ~(i <= c)
      <4>1. i - c \in 1 .. n - c /\ c + (i - c) = i
        BY <3>2, <1>5
      <4> QED
        BY <4>1, <3>2, <2>2, <2>3, <2>4
    <3> QED
      BY <3>1, <3>2
  <2>6. p \o rest = q
    BY <2>3, <2>4, <2>5, <1>1, SeqEqual
  <2> QED
    BY <2>2, <2>6
<1>8. ASSUME c < n
      PROVE  /\ <<q[c + 1]>> \in Seq(S) /\ Split(SubSeq(q, 1, c + 1), p, <<q[c + 1]>>)
  <2>1. c + 1 \in 0 .. n /\ c + 1 \in 1 .. n
    BY <1>5, <1>8
  <2>2. PICK x \in S : x = q[c + 1]
    BY <2>1, <1>2
  <2>3. PICK r \in Seq(S) : /\ r = SubSeq(q, 1, c + 1) /\ Len(r) = c + 1
                            /\ \A i \in 1 .. c + 1 : r[i] = q[i]
    BY <2>1, <1>3
  <2>4. /\ <<x>> \in Seq(S) /\ Len(<<x>>) = 1 /\ <<x>>[1] = x
    OBVIOUS
  <2>5. /\ p \o <<x>> \in Seq(S) /\ Len(p \o <<x>>) = c + 1
        /\ \A i \in 1 .. c + 1 : (p \o <<x>>)[i] = IF i <= c THEN p[i] ELSE <<x>>[i - c]
    <3>1. PICK y \in Seq(S) : y = <<x>>
      BY <2>4
    <3>2. /\ p \o y \in Seq(S) /\ Len(p \o y) = Len(p) + Len(y)
          /\ \A i \in 1 .. Len(p) + Len(y) : (p \o y)[i] = IF i <= Len(p) THEN p[i]
                                                          ELSE y[i - Len(p)]
      BY ConcatProperties
    <3> QED
      BY <3>1, <3>2, <2>4, <1>6
  <2>6. \A i \in 1 .. c + 1 : (p \o <<x>>)[i] = r[i]
    <3> TAKE i \in 1 .. c + 1
    <3>1. CASE i <= c
      <4>1. i \in 1 .. c
        BY <3>1, <1>5
      <4> QED
        BY <4>1, <3>1, <2>3, <2>5, <1>6
    <3>2. CASE ~(i <= c)
      <4>1. i = c + 1 /\ i - c = 1
        BY <3>2, <1>5
      <4> QED
        BY <4>1, <3>2, <2>2, <2>3, <2>4, <2>5
    <3> QED
      BY <3>1, <3>2
  <2>7. p \o <<x>> = r
    BY <2>3, <2>5, <2>6, SeqEqual
  <2> QED
    BY <2>2, <2>3, <2>4, <2>7 DEF Split
<1>9. SubSeq(q, 1, 0) = << >> /\ SubSeq(q, 1, n) = q
  BY <1>3, <1>4, <1>5
<1>10. BeginsWith(S, q, p)
  BY <1>7 DEF BeginsWith
<1> QED
  BY <1>1, <1>6, <1>8, <1>9, <1>10

\* The values of a call are what the arguments are turned into.
LEMMA ValuesTyped ==
  ASSUME PrintTypes
  PROVE  /\ Len(values) \in Nat /\ DOMAIN values = 1 .. Len(values)
         /\ DOMAIN arguments = 1 .. Len(values)
         /\ \A k \in 1 .. Len(values) :
               /\ Chunks(values[k]) \in Seq(TokenSet) /\ Faithful(arguments[k])
               /\ values[k].type = "end" => values[k].value \in Seq(Int)
<1>1. PICK n \in Nat : n = Len(arguments) /\ DOMAIN arguments = 1 .. n
  BY DEF PrintTypes
<1>2. /\ DOMAIN values = 1 .. n
      /\ \A k \in 1 .. n : arguments[k] \in Arguments /\ values[k] = Value(arguments[k])
  BY <1>1 DEF PrintTypes
<1>3. Len(values) = n
  BY <1>1, <1>2 DEF PrintTypes
<1>4. ASSUME NEW k \in 1 .. n
      PROVE  /\ Chunks(values[k]) \in Seq(TokenSet) /\ Faithful(arguments[k])
             /\ values[k].type = "end" => values[k].value \in Seq(Int)
  <2>1. WellFormed(arguments[k]) /\ values[k] = Value(arguments[k])
    BY <1>2, PrintAssumption
  <2>2. Chunks(values[k]) \in Seq(TokenSet) /\ Faithful(arguments[k])
    BY <2>1, ArgumentFaithful
  <2>3. ASSUME values[k].type = "end"
        PROVE  values[k].value \in Seq(Int)
    <3>1. Kind(arguments[k].type) = "end"
      BY <2>1, <2>3, ValueIs
    <3>2. values[k].value = Converted(arguments[k].type, arguments[k].value)
      BY <2>1, ValueIs
    <3>3. values[k].value = arguments[k].value
      BY <3>1, <3>2 DEF Converted
    <3>4. arguments[k].value \in Seq(Int)
      BY <2>1 DEF WellFormed
    <3> QED
      BY <3>3, <3>4
  <2> QED
    BY <2>2, <2>3
<1> QED
  BY <1>1, <1>2, <1>3, <1>4

\* The lines of the values of a call.
LEMMA LinesTyped ==
  ASSUME PrintTypes
  PROVE  /\ Line(values, 0) = << >> /\ Len(values) \in Nat
         /\ \A k \in 1 .. Len(values) :
               /\ Between(values, k) \in Seq(TokenSet) /\ Piece(values, k) \in Seq(TokenSet)
               /\ Chunks(values[k]) \in Seq(TokenSet)
               /\ Line(values, k) = Line(values, k - 1) \o Piece(values, k)
         /\ \A k \in 0 .. Len(values) :
               /\ Line(values, k) \in Seq(TokenSet)
               /\ BeginsWith(TokenSet, Line(values, Len(values)), Line(values, k))
<1>1. PICK vs : vs = values
  OBVIOUS
<1>2. PICK n \in Nat : n = Len(vs)
  BY <1>1, ValuesTyped
<1>3. \A k \in 1 .. n : Chunks(vs[k]) \in Seq(TokenSet)
  BY <1>1, <1>2, ValuesTyped
<1>4. /\ Line(vs, 0) = << >>
      /\ \A k \in 1 .. n : /\ Between(vs, k) \in Seq(TokenSet) /\ Piece(vs, k) \in Seq(TokenSet)
                           /\ Line(vs, k) = Line(vs, k - 1) \o Piece(vs, k)
      /\ \A k \in 0 .. n : /\ Line(vs, k) \in Seq(TokenSet)
                           /\ BeginsWith(TokenSet, Line(vs, n), Line(vs, k))
  BY <1>3, LinesAre
<1> QED
  BY <1>1, <1>2, <1>3, <1>4

LEMMA BeginningThrough ==
  ASSUME NEW S, NEW s, NEW t, NEW b \in Seq(S), BeginsWith(S, s, t), BeginsWith(S, t, b)
  PROVE  BeginsWith(S, s, b)
<1>1. PICK rest \in Seq(S) : t = b \o rest
  BY DEF BeginsWith
<1>2. BeginsWith(S, s, b \o rest)
  BY <1>1, Zenon
<1> QED
  BY <1>2, BeginningOf

Joined(s, a, b, c) == s = a \o (b \o c)

LEMMA JoinedGrows ==
  ASSUME NEW S, NEW a \in Seq(S), NEW b \in Seq(S), NEW p \in Seq(S), NEW rest \in Seq(S),
         NEW c, Split(c, p, rest), NEW s, Joined(s, a, b, c), NEW t, Joined(t, a, b, p)
  PROVE  t \in Seq(S) /\ Split(s, t, rest)
<1>1. \A d, x, y \in Seq(S) : (d \o x) \o y = d \o (x \o y)
  <2>1. Associative(S)
    BY Associates
  <2> QED
    BY <2>1, Zenon DEF Associative
<1>2. PICK x \in Seq(S) : x = b \o p
  BY ConcatProperties
<1>3. x \o rest = b \o c
  <2>1. (b \o p) \o rest = b \o (p \o rest)
    BY <1>1, SMTT(30)
  <2> QED
    BY <2>1, <1>2, Zenon DEF Split
<1>4. (a \o x) \o rest = a \o (x \o rest)
  BY <1>1, SMTT(30)
<1>5. a \o x \in Seq(S)
  BY ConcatProperties
<1>6. t = a \o x
  BY <1>2, Zenon DEF Joined
<1>7. s = t \o rest
  BY <1>3, <1>4, <1>6, Zenon DEF Joined
<1> QED
  BY <1>5, <1>6, <1>7, Zenon DEF Split

\* What is written with a part of the last piece is a beginning as well.
LEMMA PartWritten ==
  ASSUME NEW S, NEW a \in Seq(S), NEW b \in Seq(S), NEW c \in Seq(S), NEW p \in Seq(S),
         BeginsWith(S, c, p), NEW s, Joined(s, a, b, c), NEW t, Joined(t, a, b, p)
  PROVE  t \in Seq(S) /\ BeginsWith(S, s, t)
<1>1. PICK rest \in Seq(S) : Split(c, p, rest)
  BY DEF BeginsWith, Split
<1>2. t \in Seq(S) /\ Split(s, t, rest)
  BY <1>1, JoinedGrows, Zenon
<1> QED
  BY <1>2, Zenon DEF BeginsWith, Split

LEMMA CallIs ==
  ASSUME PrintTypes
  PROVE  \E vs, n, i :
            vs = values /\ n = Len(vs) /\ i = index /\ n \in Nat /\ i \in Nat /\ i # 0
<1>1. Len(values) \in Nat /\ index \in Nat /\ index # 0
  BY LinesTyped DEF PrintTypes
<1> WITNESS values, Len(values), index
<1> QED
  BY <1>1

\* What is written in the second pass is the beginning of what a complete call writes.
LEMMA OutputBegins ==
  ASSUME PrintTypes, Passing, Separating, Writing, printing \in {"separator", "value"}
  PROVE  /\ Len(output) <= Len(Complete(values))
         /\ output = SubSeq(Complete(values), 1, Len(output))
<1>1. PICK vs, n, i :
         vs = values /\ n = Len(vs) /\ i = index /\ n \in Nat /\ i \in Nat /\ i # 0
  BY CallIs
<1>2. i <= n + 1 /\ Plain(ending) \in Seq(TokenSet) /\ Complete(vs) = Line(vs, n) \o Plain(ending)
  <2>1. Plain(ending) \in Seq(TokenSet)
    BY PlainTyped DEF PrintTypes
  <2> QED
    BY <1>1, <2>1 DEF Passing, Complete
<1>3. n \in 0 .. n /\ i - 1 \in 0 .. n
  BY <1>1, <1>2
<1>4. PICK whole \in Seq(TokenSet), before \in Seq(TokenSet) :
         /\ whole = Line(vs, n) /\ before = Line(vs, i - 1) /\ BeginsWith(TokenSet, whole, before)
  BY <1>1, <1>3, LinesTyped
<1>5. output \in Seq(TokenSet) /\ BeginsWith(TokenSet, whole, output)
  <2>1. CASE printing = "separator"
    BY <2>1, <1>1, <1>4 DEF Separating
  <2>2. CASE printing = "value"
    <3>1. /\ i \in 1 .. n /\ vs[i].type # "end" /\ chunk \in 0 .. Len(Chunks(vs[i]))
          /\ output = before \o Partial(vs, i, chunk)
      <4>1. /\ i <= n /\ vs[i].type # "end" /\ chunk <= Len(Chunks(vs[i]))
            /\ output = before \o Partial(vs, i, chunk)
        BY <2>2, <1>1, <1>4 DEF Writing
      <4>2. i \in 1 .. n
        BY <4>1, <1>1
      <4>3. Len(Chunks(vs[i])) \in Nat
        BY <4>2, <1>1, LinesTyped
      <4>4. chunk \in Nat
        BY DEF PrintTypes
      <4> QED
        BY <4>1, <4>2, <4>3, <4>4
    <3>2. PICK q \in Seq(TokenSet), b \in Seq(TokenSet) : q = Chunks(vs[i]) /\ b = Between(vs, i)
      BY <3>1, <1>1, LinesTyped
    <3>3. PICK line \in Seq(TokenSet) :
             line = Line(vs, i) /\ BeginsWith(TokenSet, whole, line) /\ Joined(line, before, b, q)
      <4>1. i \in 0 .. n
        BY <3>1
      <4>2. Line(vs, i) = before \o Piece(vs, i)
        BY <3>1, <1>1, <1>4, LinesTyped
      <4>3. Piece(vs, i) = b \o q
        BY <3>1, <3>2 DEF Piece
      <4>4. Line(vs, i) \in Seq(TokenSet) /\ BeginsWith(TokenSet, whole, Line(vs, i))
        BY <4>1, <1>1, <1>4, LinesTyped
      <4> QED
        BY <4>2, <4>3, <4>4, Zenon DEF Joined
    <3>4. PICK p \in Seq(TokenSet) : p = SubSeq(q, 1, chunk) /\ BeginsWith(TokenSet, q, p)
      <4>1. PICK c \in 0 .. Len(q) : c = chunk
        BY <3>1, <3>2
      <4>2. SubSeq(q, 1, c) \in Seq(TokenSet) /\ BeginsWith(TokenSet, q, SubSeq(q, 1, c))
        BY FirstElements, Zenon
      <4> QED
        BY <4>1, <4>2, Zenon
    <3>5. Joined(output, before, b, p)
      BY <3>1, <3>2, <3>4, Zenon DEF Partial, Joined
    <3>6. output \in Seq(TokenSet) /\ BeginsWith(TokenSet, line, output)
      BY <3>3, <3>4, <3>5, PartWritten, Zenon
    <3>7. BeginsWith(TokenSet, whole, output)
      BY <3>3, <3>6, BeginningThrough, Zenon
    <3> QED
      BY <3>6, <3>7
  <2> QED
    BY <2>1, <2>2
<1>6. BeginsWith(TokenSet, Complete(vs), output)
  <2>1. BeginsWith(TokenSet, whole \o Plain(ending), output)
    BY <1>2, <1>5, BeginningOf
  <2> QED
    BY <2>1, <1>2, <1>4
<1> QED
  BY <1>1, <1>5, <1>6, BeginningFound

\* A call that fails in the second pass has written a beginning.
LEMMA FailureKept ==
  ASSUME PrintTypes, Passing, Separating, Writing, printing \in {"separator", "value"},
         values' = values, output' = output, print_status' \in {"SYSTEM_ERROR", "CUSTOM_ERROR"}
  PROVE  PrintsInOrder'
<1>1. PICK whole, out : whole = Complete(values) /\ out = output
  OBVIOUS
<1>2. Len(out) <= Len(whole) /\ out = SubSeq(whole, 1, Len(out))
  BY <1>1, OutputBegins
<1>3. Complete(values') = whole /\ output' = out
  BY <1>1, Zenon
<1>4. print_status' \notin {"OK", "INVALID_ARGUMENT", "NONE"}
  OBVIOUS
<1> QED
  BY <1>2, <1>3, <1>4 DEF PrintsInOrder

LEMMA PrintStarts ==
  PrintInit => PrintInv
<1> SUFFICES ASSUME PrintInit
             PROVE  PrintInv
  OBVIOUS
<1> USE DEF PrintInit
<1>1. PrintTypes
  <2>1. values = [k \in DOMAIN arguments |-> Value(arguments[k])]
    OBVIOUS
  <2>2. ending \in Seq(Int)
    BY DEF NewLine
  <2>3. arguments \in Seq(Arguments)
    OBVIOUS
  <2> QED
    BY <2>1, <2>2, <2>3 DEF PrintTypes
<1>2. Checking /\ Passing /\ Separating /\ Writing
  BY DEF Checking, Passing, Separating, Writing
<1>3. PrintsInOrder
  BY DEF PrintsInOrder
<1> QED
  BY <1>1, <1>2, <1>3 DEF PrintInv

LEMMA PrintValuesKept ==
  ASSUME PrintInv, PrintValues
  PROVE  PrintInv'
<1> USE DEF PrintValues
<1>1. PICK n \in Nat : arguments' \in [1 .. n -> Arguments]
  BY PrintAssumption
<1>2. PICK as \in [1 .. n -> Arguments] : as = arguments'
  BY <1>1
<1>3. PICK vs : vs = values' /\ vs = [k \in 1 .. n |-> Value(as[k])] /\ Len(vs) = n
  BY <1>2
<1>4. PrintTypes'
  <2>1. arguments' \in Seq(Arguments)
    BY <1>2
  <2>2. ending' \in Seq(Int)
    BY DEF NewLine
  <2> QED
    BY <2>1, <2>2 DEF PrintTypes
<1>5. Checking'
  <2>1. LastEnding(vs, 0) = NewLine
    BY LastEndingIs
  <2>2. index' - 1 = 0 /\ index' <= Len(vs) + 1
    BY <1>3
  <2>3. ending' = LastEnding(values', index' - 1) /\ index' <= Len(values') + 1
    BY <1>3, <2>1, <2>2, Zenon
  <2> QED
    BY <2>3 DEF Checking
<1>6. (Passing /\ Separating /\ Writing /\ PrintsInOrder)'
  BY DEF Passing, Separating, Writing, PrintsInOrder
<1> QED
  BY <1>4, <1>5, <1>6 DEF PrintInv

LEMMA CheckKept ==
  ASSUME PrintInv, Check
  PROVE  PrintInv'
<1>1. /\ printing = "check" /\ index <= Len(values)
      /\ UNCHANGED <<arguments, values, chunk, printed_count, output>>
  BY DEF Check
<1>2. PICK vs, n, i :
         vs = values /\ n = Len(vs) /\ i = index /\ n \in Nat /\ i \in Nat /\ i # 0
  BY CallIs DEF PrintInv
<1>3. /\ output = << >> /\ print_status = "OK" /\ printed_count = 0 /\ chunk = 0
      /\ ending = LastEnding(vs, i - 1)
  BY <1>1, <1>2 DEF PrintInv, Checking
<1>4. i \in 1 .. n
  BY <1>1, <1>2
<1>5. ending \in Seq(Int) /\ (vs[i].type = "end" => vs[i].value \in Seq(Int))
  BY <1>2, <1>4, ValuesTyped DEF PrintInv, PrintTypes
<1>6. CASE ~Valid(values[index])
  <2>1. printing' = "returned" /\ print_status' = "INVALID_ARGUMENT" /\ UNCHANGED <<index, ending>>
    BY <1>6 DEF Check, PrintReturn
  <2>2. PrintTypes'
    BY <1>1, <2>1 DEF PrintInv, PrintTypes
  <2>3. (Checking /\ Passing /\ Separating /\ Writing)'
    BY <2>1 DEF Checking, Passing, Separating, Writing
  <2>4. PrintsInOrder'
    BY <1>1, <1>3, <2>1 DEF PrintsInOrder
  <2> QED
    BY <2>2, <2>3, <2>4 DEF PrintInv
<1>7. CASE Valid(values[index])
  <2>1. /\ index' = i + 1 /\ UNCHANGED <<printing, print_status>>
        /\ ending' = IF vs[i].type = "end" THEN vs[i].value ELSE ending
    BY <1>2, <1>7 DEF Check
  <2>2. PrintTypes'
    <3>1. ending' \in Seq(Int)
      BY <1>5, <2>1
    <3>2. index' \in Nat \ {0}
      BY <1>2, <2>1
    <3> QED
      BY <1>1, <2>1, <3>1, <3>2 DEF PrintInv, PrintTypes
  <2>3. Checking'
    <3>1. PICK m \in Nat : m = i - 1 /\ m + 1 = i
      BY <1>2
    <3>2. LastEnding(vs, m + 1) = IF vs[m + 1].type = "end" THEN vs[m + 1].value
                                  ELSE LastEnding(vs, m)
      BY LastEndingIs
    <3>3. ending' = LastEnding(vs, i)
      BY <1>3, <2>1, <3>1, <3>2, Zenon
    <3>4. index' - 1 = i /\ index' <= n + 1
      BY <1>2, <1>4, <2>1
    <3>5. ending' = LastEnding(values', index' - 1) /\ index' <= Len(values') + 1
      BY <1>1, <1>2, <3>3, <3>4, Zenon
    <3> QED
      BY <1>1, <1>3, <2>1, <3>5 DEF Checking
  <2>4. (Passing /\ Separating /\ Writing /\ PrintsInOrder)'
    BY <1>1, <2>1 DEF Passing, Separating, Writing, PrintsInOrder
  <2> QED
    BY <2>2, <2>3, <2>4 DEF PrintInv
<1> QED
  BY <1>6, <1>7

LEMMA CheckEndsKept ==
  ASSUME PrintInv, CheckEnds
  PROVE  PrintInv'
<1>1. /\ printing = "check" /\ index > Len(values) /\ printing' = "separator" /\ index' = 1
      /\ UNCHANGED <<arguments, values, chunk, ending, printed_count, output, print_status>>
  BY DEF CheckEnds
<1>2. PICK vs, n, i :
         vs = values /\ n = Len(vs) /\ i = index /\ n \in Nat /\ i \in Nat /\ i # 0
  BY CallIs DEF PrintInv
<1>3. /\ output = << >> /\ print_status = "OK" /\ printed_count = 0 /\ chunk = 0
      /\ i <= n + 1 /\ ending = LastEnding(vs, i - 1)
  BY <1>1, <1>2 DEF PrintInv, Checking
<1>4. i - 1 = n
  BY <1>1, <1>2, <1>3
<1>5. PrintTypes'
  BY <1>1 DEF PrintInv, PrintTypes
<1>6. Passing'
  <2>1. ending' = LastEnding(values', Len(values'))
    BY <1>1, <1>2, <1>3, <1>4, Zenon
  <2>2. index' <= Len(values') + 1
    BY <1>1, <1>2
  <2>3. ~(printed_count' # 0) /\ ~ \E k \in 1 .. index' - 1 : values'[k].type # "end"
    BY <1>1, <1>3
  <2> QED
    BY <1>1, <1>3, <2>1, <2>2, <2>3 DEF Passing
<1>7. Separating'
  <2>1. Line(vs, 0) = << >> /\ index' - 1 = 0
    BY <1>1, <1>2, LinesTyped DEF PrintInv
  <2>2. output' = Line(values', index' - 1)
    BY <1>1, <1>2, <1>3, <2>1, Zenon
  <2> QED
    BY <1>1, <1>3, <2>2 DEF Separating
<1>8. (Checking /\ Writing /\ PrintsInOrder)'
  BY <1>1 DEF Checking, Writing, PrintsInOrder
<1> QED
  BY <1>5, <1>6, <1>7, <1>8 DEF PrintInv

LEMMA SeparatorKept ==
  ASSUME PrintInv, Separator
  PROVE  PrintInv'
<1>1. /\ printing = "separator" /\ index <= Len(values)
      /\ UNCHANGED <<arguments, values, chunk, ending, printed_count>>
  BY DEF Separator
<1>2. PICK vs, n, i :
         vs = values /\ n = Len(vs) /\ i = index /\ n \in Nat /\ i \in Nat /\ i # 0
  BY CallIs DEF PrintInv
<1>3. /\ output = Line(vs, i - 1) /\ chunk = 0 /\ print_status = "OK"
      /\ ending = LastEnding(vs, n)
      /\ printed_count # 0 <=> \E k \in 1 .. i - 1 : vs[k].type # "end"
  BY <1>1, <1>2 DEF PrintInv, Passing, Separating
<1>4. i \in 1 .. n /\ i - 1 \in 0 .. n
  BY <1>1, <1>2
<1>5. PICK before \in Seq(TokenSet), between \in Seq(TokenSet), q \in Seq(TokenSet) :
         before = Line(vs, i - 1) /\ between = Between(vs, i) /\ q = Chunks(vs[i])
  BY <1>2, <1>4, LinesTyped DEF PrintInv
<1>6. Line(vs, i) = before \o Piece(vs, i)
  BY <1>2, <1>4, <1>5, LinesTyped DEF PrintInv
<1>7. before \o << >> = before /\ between \o << >> = between
  BY ConcatEmptySeq
<1>8. CASE vs[i].type = "end"
  <2>1. index' = i + 1 /\ UNCHANGED <<printing, output, print_status>>
    BY <1>2, <1>8 DEF Separator
  <2>2. PrintTypes'
    <3>1. index' \in Nat \ {0}
      BY <1>2, <2>1
    <3> QED
      BY <1>1, <2>1, <3>1 DEF PrintInv, PrintTypes
  <2>3. index' - 1 = i /\ index' <= n + 1
    BY <1>2, <1>4, <2>1
  <2>4. Passing'
    <3>1. (\E k \in 1 .. i : vs[k].type # "end") <=> \E k \in 1 .. i - 1 : vs[k].type # "end"
      BY <1>2, <1>8
    <3>2. ending' = LastEnding(values', Len(values')) /\ index' <= Len(values') + 1
      BY <1>1, <1>2, <1>3, <2>3, Zenon
    <3>3. printed_count' # 0 <=> \E k \in 1 .. index' - 1 : values'[k].type # "end"
      BY <1>1, <1>2, <1>3, <2>3, <3>1, Zenon
    <3> QED
      BY <1>3, <2>1, <3>2, <3>3 DEF Passing
  <2>5. Separating'
    <3>1. Line(vs, i) = before
      BY <1>6, <1>7, <1>8, Zenon DEF Piece
    <3>2. output' = Line(values', index' - 1)
      BY <1>1, <1>2, <1>3, <1>5, <2>1, <2>3, <3>1, Zenon
    <3> QED
      BY <1>1, <1>3, <3>2 DEF Separating
  <2>6. (Checking /\ Writing /\ PrintsInOrder)'
    BY <1>1, <2>1 DEF Checking, Writing, PrintsInOrder
  <2> QED
    BY <2>2, <2>4, <2>5, <2>6 DEF PrintInv
<1>9. CASE vs[i].type # "end"
  <2>1. /\ IF printed_count # 0 THEN WriteOut(Plain(BlankBetween))
           ELSE UNCHANGED <<output, print_status>>
        /\ Goes("value") /\ index' = i
    BY <1>2, <1>9 DEF Separator, Printed
  <2>2. printing' \in {"value", "returned"}
    BY <2>1 DEF Goes
  <2>3. PrintTypes'
    BY <1>1, <1>2, <2>1, <2>2 DEF PrintInv, PrintTypes
  <2>4. between = IF printed_count # 0 THEN Plain(BlankBetween) ELSE << >>
    BY <1>3, <1>5, Zenon DEF Between
  <2>5. \/ print_status' = "OK" /\ output' = before \o between
        \/ print_status' = "SYSTEM_ERROR" /\ UNCHANGED output
    <3>1. CASE printed_count # 0
      <4>1. \/ output' = output \o Plain(BlankBetween) /\ UNCHANGED print_status
            \/ UNCHANGED output /\ print_status' = "SYSTEM_ERROR"
        BY <2>1, <3>1, Zenon DEF WriteOut
      <4> QED
        BY <4>1, <3>1, <2>4, <1>3, <1>5, Zenon
    <3>2. CASE ~(printed_count # 0)
      <4>1. UNCHANGED <<output, print_status>>
        BY <2>1, <3>2, Zenon
      <4>2. before \o between = before
        BY <1>7, <2>4, <3>2, Zenon
      <4> QED
        BY <4>1, <4>2, <1>3, <1>5
    <3> QED
      BY <3>1, <3>2
  <2>6. CASE print_status' = "OK" /\ output' = before \o between
    <3>1. printing' = "value"
      BY <2>1, <2>6 DEF Goes
    <3>2. Passing'
      BY <1>1, <1>2, <1>3, <2>1, <2>6, <1>4 DEF Passing
    <3>3. Writing'
      <4>1. Partial(vs, i, 0) = between
        <5>1. 0 \in 0 .. Len(q)
          OBVIOUS
        <5>2. SubSeq(q, 1, 0) = << >>
          BY <5>1, FirstElements, Zenon
        <5> QED
          BY <5>2, <1>5, <1>7, Zenon DEF Partial
      <4>2. output' = Line(values', index' - 1) \o Partial(values', index', chunk')
        BY <4>1, <1>1, <1>2, <1>3, <1>5, <2>1, <2>6, Zenon
      <4>3. 0 <= Len(q)
        OBVIOUS
      <4>4. /\ index' <= Len(values') /\ values'[index'].type # "end"
            /\ chunk' <= Len(Chunks(values'[index']))
        BY <4>3, <1>1, <1>2, <1>3, <1>5, <1>9, <2>1, Zenon
      <4> QED
        BY <4>2, <4>4 DEF Writing
    <3>4. (Checking /\ Separating /\ PrintsInOrder)'
      BY <3>1 DEF Checking, Separating, PrintsInOrder
    <3> QED
      BY <2>3, <3>2, <3>3, <3>4 DEF PrintInv
  <2>7. CASE print_status' = "SYSTEM_ERROR" /\ UNCHANGED output
    <3>1. printing' = "returned"
      BY <2>1, <2>7 DEF Goes
    <3>2. PrintsInOrder'
      BY <1>1, <2>7, FailureKept DEF PrintInv
    <3>3. (Checking /\ Passing /\ Separating /\ Writing)'
      BY <3>1 DEF Checking, Passing, Separating, Writing
    <3> QED
      BY <2>3, <3>2, <3>3 DEF PrintInv
  <2> QED
    BY <2>5, <2>6, <2>7
<1> QED
  BY <1>8, <1>9

LEMMA CustomFailsKept ==
  ASSUME PrintInv, CustomFails
  PROVE  PrintInv'
<1>1. /\ printing = "value" /\ printing' = "returned" /\ print_status' = "CUSTOM_ERROR"
      /\ UNCHANGED <<arguments, values, index, chunk, ending, printed_count, output>>
  BY DEF CustomFails, PrintReturn
<1>2. PrintTypes'
  BY <1>1 DEF PrintInv, PrintTypes
<1>3. PrintsInOrder'
  BY <1>1, FailureKept DEF PrintInv
<1>4. (Checking /\ Passing /\ Separating /\ Writing)'
  BY <1>1 DEF Checking, Passing, Separating, Writing
<1> QED
  BY <1>2, <1>3, <1>4 DEF PrintInv

\* In the middle of a value: what was written before, and the tokens of the value.
LEMMA WritingIs ==
  ASSUME PrintInv, printing = "value",
         NEW vs, NEW n \in Nat, NEW i \in Nat, vs = values, n = Len(vs), i = index, i # 0
  PROVE  /\ i \in 1 .. n /\ vs[i].type # "end" /\ print_status = "OK"
         /\ ending = LastEnding(vs, n)
         /\ \E before, between, q \in Seq(TokenSet) :
               /\ before = Line(vs, i - 1) /\ between = Between(vs, i) /\ q = Chunks(vs[i])
               /\ chunk \in 0 .. Len(q) /\ Joined(output, before, between, SubSeq(q, 1, chunk))
               /\ Joined(Line(vs, i), before, between, q)
<1>1. /\ i <= n /\ vs[i].type # "end" /\ print_status = "OK" /\ ending = LastEnding(vs, n)
      /\ chunk <= Len(Chunks(vs[i])) /\ output = Line(vs, i - 1) \o Partial(vs, i, chunk)
  BY DEF PrintInv, Passing, Writing
<1>2. i \in 1 .. n /\ i - 1 \in 0 .. n
  BY <1>1
<1>3. PICK before, between, q \in Seq(TokenSet) :
         before = Line(vs, i - 1) /\ between = Between(vs, i) /\ q = Chunks(vs[i])
  BY <1>2, LinesTyped DEF PrintInv
<1>4. chunk \in 0 .. Len(q)
  BY <1>1, <1>3 DEF PrintInv, PrintTypes
<1>5. Joined(output, before, between, SubSeq(q, 1, chunk))
  BY <1>1, <1>3, Zenon DEF Joined, Partial
<1>6. Joined(Line(vs, i), before, between, q)
  <2>1. Line(vs, i) = before \o Piece(vs, i)
    BY <1>2, <1>3, LinesTyped DEF PrintInv
  <2>2. Piece(vs, i) = between \o q
    BY <1>1, <1>3, Zenon DEF Piece
  <2> QED
    BY <2>1, <2>2, Zenon DEF Joined
<1> QED
  BY <1>1, <1>2, <1>3, <1>4, <1>5, <1>6, Zenon

LEMMA WritePartKept ==
  ASSUME PrintInv, WritePart
  PROVE  PrintInv'
<1>1. /\ printing = "value" /\ chunk' = chunk + 1 /\ Goes("value")
      /\ UNCHANGED <<arguments, values, index, ending, printed_count>>
  BY DEF WritePart
<1>2. PICK vs, n, i :
         vs = values /\ n = Len(vs) /\ i = index /\ n \in Nat /\ i \in Nat /\ i # 0
  BY CallIs DEF PrintInv
<1>3. i \in 1 .. n /\ vs[i].type # "end" /\ print_status = "OK" /\ ending = LastEnding(vs, n)
  BY <1>1, <1>2, WritingIs
<1>4. PICK before, between, q \in Seq(TokenSet) :
         /\ before = Line(vs, i - 1) /\ between = Between(vs, i) /\ q = Chunks(vs[i])
         /\ chunk \in 0 .. Len(q) /\ Joined(output, before, between, SubSeq(q, 1, chunk))
  BY <1>1, <1>2, WritingIs, Zenon
<1>5. PICK c \in 0 .. Len(q) : c = chunk /\ c < Len(q)
  BY <1>2, <1>4 DEF WritePart
<1>6. PICK p \in Seq(TokenSet), t \in Seq(TokenSet) :
         p = SubSeq(q, 1, c) /\ t = <<q[c + 1]>> /\ Split(SubSeq(q, 1, c + 1), p, t)
  <2>1. /\ SubSeq(q, 1, c) \in Seq(TokenSet) /\ <<q[c + 1]>> \in Seq(TokenSet)
        /\ Split(SubSeq(q, 1, c + 1), SubSeq(q, 1, c), <<q[c + 1]>>)
    BY <1>5, FirstElements, Zenon
  <2> QED
    BY <2>1, Zenon
<1>7. \/ output' = output \o t /\ UNCHANGED print_status
      \/ UNCHANGED output /\ print_status' = "SYSTEM_ERROR"
  <2>1. WriteOut(<<Chunks(values[index])[chunk + 1]>>)
    BY DEF WritePart
  <2>2. WriteOut(t)
    BY <2>1, <1>2, <1>4, <1>5, <1>6, Zenon
  <2> QED
    BY <2>2, Zenon DEF WriteOut
<1>8. c + 1 \in Nat /\ c + 1 <= Len(q)
  BY <1>5
<1>9. PrintTypes'
  <2>1. printing' \in {"value", "returned"}
    BY <1>1 DEF Goes
  <2>2. chunk' \in Nat
    BY <1>1, <1>5, <1>8
  <2> QED
    BY <1>1, <2>1, <2>2 DEF PrintInv, PrintTypes
<1>10. CASE output' = output \o t /\ UNCHANGED print_status
  <2>1. printing' = "value" /\ print_status' = "OK"
    BY <1>1, <1>3, <1>10 DEF Goes
  <2>2. Passing'
    BY <1>1, <2>1 DEF PrintInv, Passing
  <2>3. Writing'
    <3>1. output' = before \o (between \o SubSeq(q, 1, c + 1))
      <4>1. PICK s : s = before \o (between \o SubSeq(q, 1, c + 1))
        OBVIOUS
      <4>2. PICK r : r = SubSeq(q, 1, c + 1) /\ Split(r, p, t)
        BY <1>6, Zenon
      <4>3. Joined(s, before, between, r)
        BY <4>1, <4>2, Zenon DEF Joined
      <4>4. Joined(output, before, between, p)
        BY <1>4, <1>5, <1>6, Zenon
      <4>5. Split(s, output, t)
        BY <4>2, <4>3, <4>4, JoinedGrows, Zenon
      <4> QED
        BY <4>1, <4>5, <1>10, Zenon DEF Split
    <3>2. output' = Line(values', index' - 1) \o Partial(values', index', chunk')
      BY <3>1, <1>1, <1>2, <1>4, <1>5, Zenon DEF Partial
    <3>3. /\ index' <= Len(values') /\ values'[index'].type # "end"
          /\ chunk' <= Len(Chunks(values'[index']))
      <4>1. i <= n
        BY <1>3
      <4> QED
        BY <4>1, <1>1, <1>2, <1>3, <1>4, <1>5, <1>8, Zenon
    <3> QED
      BY <3>2, <3>3 DEF Writing
  <2>4. (Checking /\ Separating /\ PrintsInOrder)'
    BY <2>1 DEF Checking, Separating, PrintsInOrder
  <2> QED
    BY <1>9, <2>2, <2>3, <2>4 DEF PrintInv
<1>11. CASE UNCHANGED output /\ print_status' = "SYSTEM_ERROR"
  <2>1. printing' = "returned"
    BY <1>1, <1>11 DEF Goes
  <2>2. PrintsInOrder'
    BY <1>1, <1>11, FailureKept DEF PrintInv
  <2>3. (Checking /\ Passing /\ Separating /\ Writing)'
    BY <2>1 DEF Checking, Passing, Separating, Writing
  <2> QED
    BY <1>9, <2>2, <2>3 DEF PrintInv
<1> QED
  BY <1>7, <1>10, <1>11

LEMMA ValueEndsKept ==
  ASSUME PrintInv, ValueEnds
  PROVE  PrintInv'
<1>1. /\ printing = "value" /\ printing' = "separator" /\ index' = index + 1 /\ chunk' = 0
      /\ printed_count' = printed_count + 1
      /\ UNCHANGED <<arguments, values, ending, output, print_status>>
  BY DEF ValueEnds
<1>2. PICK vs, n, i :
         vs = values /\ n = Len(vs) /\ i = index /\ n \in Nat /\ i \in Nat /\ i # 0
  BY CallIs DEF PrintInv
<1>3. i \in 1 .. n /\ vs[i].type # "end" /\ print_status = "OK" /\ ending = LastEnding(vs, n)
  BY <1>1, <1>2, WritingIs
<1>4. PICK before, between, q \in Seq(TokenSet) :
         /\ before = Line(vs, i - 1) /\ between = Between(vs, i) /\ q = Chunks(vs[i])
         /\ chunk \in 0 .. Len(q) /\ Joined(output, before, between, SubSeq(q, 1, chunk))
         /\ Joined(Line(vs, i), before, between, q)
  BY <1>1, <1>2, WritingIs, Zenon
<1>5. output = Line(vs, i)
  <2>1. PICK m \in 0 .. Len(q) : m = chunk /\ m = Len(q)
    BY <1>2, <1>4 DEF ValueEnds
  <2>2. SubSeq(q, 1, m) = q
    <3>1. SubSeq(q, 1, Len(q)) = q
      BY FirstElements, Zenon
    <3> QED
      BY <3>1, <2>1, Zenon
  <2> QED
    BY <2>1, <2>2, <1>4, Zenon DEF Joined
<1>6. PICK m \in Nat : m = printed_count
  BY DEF PrintInv, PrintTypes
<1>7. index' - 1 = i /\ index' <= n + 1 /\ index' \in Nat \ {0}
      /\ printed_count' \in Nat /\ printed_count' # 0
  BY <1>1, <1>2, <1>3, <1>6
<1>8. PrintTypes'
  BY <1>1, <1>7 DEF PrintInv, PrintTypes
<1>9. Passing'
  <2>1. ending' = LastEnding(values', Len(values')) /\ index' <= Len(values') + 1
    BY <1>1, <1>2, <1>3, <1>7, Zenon
  <2>2. \E k \in 1 .. i : vs[k].type # "end"
    BY <1>3
  <2>3. printed_count' # 0 <=> \E k \in 1 .. index' - 1 : values'[k].type # "end"
    BY <2>2, <1>1, <1>2, <1>7, Zenon
  <2> QED
    BY <1>1, <1>3, <2>1, <2>3 DEF Passing
<1>10. Separating'
  <2>1. output' = Line(values', index' - 1)
    BY <1>1, <1>2, <1>5, <1>7, Zenon
  <2> QED
    BY <1>1, <2>1 DEF Separating
<1>11. (Checking /\ Writing /\ PrintsInOrder)'
  BY <1>1 DEF Checking, Writing, PrintsInOrder
<1> QED
  BY <1>8, <1>9, <1>10, <1>11 DEF PrintInv

LEMMA WriteEndingKept ==
  ASSUME PrintInv, WriteEnding
  PROVE  PrintInv'
<1>1. /\ printing = "separator" /\ index > Len(values) /\ printing' = "returned"
      /\ UNCHANGED <<arguments, values, index, chunk, ending, printed_count>>
      /\ \/ output' = output \o Plain(ending) /\ UNCHANGED print_status
         \/ UNCHANGED output /\ print_status' = "SYSTEM_ERROR"
  BY DEF WriteEnding, WriteOut
<1>2. PICK vs, n, i :
         vs = values /\ n = Len(vs) /\ i = index /\ n \in Nat /\ i \in Nat /\ i # 0
  BY CallIs DEF PrintInv
<1>3. /\ i <= n + 1 /\ output = Line(vs, i - 1) /\ print_status = "OK"
      /\ ending = LastEnding(vs, n)
  BY <1>1, <1>2 DEF PrintInv, Passing, Separating
<1>4. i - 1 = n
  BY <1>1, <1>2, <1>3
<1>5. PrintTypes'
  BY <1>1 DEF PrintInv, PrintTypes
<1>6. PrintsInOrder'
  <2>1. CASE output' = output \o Plain(ending) /\ UNCHANGED print_status
    <3>1. output' = Complete(values')
      BY <2>1, <1>1, <1>2, <1>3, <1>4, Zenon DEF Complete
    <3>2. \A k \in DOMAIN arguments' : Faithful(arguments'[k])
      BY <1>1, ValuesTyped DEF PrintInv
    <3>3. print_status' = "OK"
      BY <2>1, <1>3
    <3> QED
      BY <3>1, <3>2, <3>3 DEF PrintsInOrder
  <2>2. CASE UNCHANGED output /\ print_status' = "SYSTEM_ERROR"
    BY <1>1, <2>2, FailureKept DEF PrintInv
  <2> QED
    BY <1>1, <2>1, <2>2
<1>7. (Checking /\ Passing /\ Separating /\ Writing)'
  BY <1>1 DEF Checking, Passing, Separating, Writing
<1> QED
  BY <1>5, <1>6, <1>7 DEF PrintInv

LEMMA PrintKept ==
  PrintInv /\ [PrintNext]_printVars => PrintInv'
<1> SUFFICES ASSUME PrintInv, [PrintNext]_printVars
             PROVE  PrintInv'
  OBVIOUS
<1>1. CASE PrintNext
  BY <1>1, PrintValuesKept, CheckKept, CheckEndsKept, SeparatorKept, CustomFailsKept,
     WritePartKept, ValueEndsKept, WriteEndingKept, Zenon DEF PrintNext
<1>2. CASE UNCHANGED printVars
  BY <1>2 DEF PrintInv, PrintTypes, Checking, Passing, Separating, Writing, PrintsInOrder, printVars
<1> QED
  BY <1>1, <1>2

\* A call that succeeds has written all of its values in order, with the separator between
\* each two of them and the last ending at the end, each so that it can be recognized; one
\* that fails has written a beginning of that, and a refused one nothing (lor_fprint_values,
\* lor_print__write_value): for any arguments C allows, any number of them, and integer
\* types of any width.
THEOREM PrintsExactly == PrintSpec => []PrintsInOrder
<1>1. PrintInit => PrintInv
  BY PrintStarts
<1>2. PrintInv /\ [PrintNext]_printVars => PrintInv'
  BY PrintKept
<1>3. PrintInv => PrintsInOrder
  BY DEF PrintInv
<1> QED
  BY <1>1, <1>2, <1>3, PTL DEF PrintSpec
=============================================================================

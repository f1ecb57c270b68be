---------------------------- MODULE ArrayProofs ----------------------------
(***************************************************************************)
(* The leak records and the dynamic array that allocates through them, for *)
(* every set of addresses and elements and every capacity: each step of    *)
(* malloc, realloc and free keeps the report exact, and each call of the   *)
(* array is a step of the sequence it stands for and leaves no block.      *)
(***************************************************************************)
EXTENDS Array, SequenceTheorems, TLAPS

AllCells == Cells \cup {Junk}
Records == [kind : Kinds, ptr : Addresses, size : Nat]
Memories == [blocks : [Addresses -> Seq(AllCells)], maps : [Addresses -> Nat],
             arenas : SUBSET Addresses, records : SUBSET Records,
             lost : SUBSET (Kinds \X Addresses)]

\* The resource of kind k at p is in use, and its size.
InUse(m, k, p) ==
    \/ k = "heap" /\ m.blocks[p] # << >>
    \/ k = "mmap" /\ m.maps[p] # 0
    \/ k = "arena" /\ p \in m.arenas
SizeIn(m, k, p) ==
    IF k = "heap" THEN Len(m.blocks[p]) ELSE IF k = "mmap" THEN m.maps[p] ELSE 0

\* ReportExact, resource by resource; only what is in use is missing.
Tracked(m, k, p) == InUse(m, k, p) /\ <<k, p>> \notin m.lost
Exact(m) ==
    /\ \A k \in Kinds, p \in Addresses : <<k, p>> \in m.lost => InUse(m, k, p)
    /\ \A r \in Records : r \in m.records <=>
          Tracked(m, r.kind, r.ptr) /\ r.size = SizeIn(m, r.kind, r.ptr)

\* A mapping and a block do not share an address, and an arena lies in a block.
Placed(m) ==
    /\ \A a \in Addresses : m.maps[a] # 0 => m.blocks[a] = << >>
    /\ \A a \in m.arenas : m.blocks[a] # << >>

MemoryOK(m) == m \in Memories /\ Placed(m) /\ Exact(m)
----------------------------------------------------------------------------
(* The records.                                                             *)

LEMMA ExactReports ==
  ASSUME MemoryOK(memory)
  PROVE  ReportExact
<1> DEFINE Named == {r \in Live(memory) : Resource(r) \notin memory.lost}
<1>1. ASSUME NEW r \in Records
      PROVE  r \in Live(memory) <=>
                InUse(memory, r.kind, r.ptr) /\ r.size = SizeIn(memory, r.kind, r.ptr)
  BY DEF Records, Live, Record, InUse, SizeIn, Kinds, MemoryOK, Memories
<1>2. Live(memory) \subseteq Records
  BY DEF Live, Record, Records, Kinds, MemoryOK, Memories
<1>3. memory.records \subseteq Records
  BY DEF MemoryOK, Memories
<1>4. \A r \in Records : r \in memory.records <=> r \in Named
  BY <1>1 DEF MemoryOK, Exact, Tracked, Resource
<1> QED
  BY <1>2, <1>3, <1>4 DEF ReportExact

\* Two memories agree on what is in use but for the resource of kind k at p.
SameBut(m, t, k, p) ==
    \A j \in Kinds, q \in Addresses :
        j # k \/ q # p => (InUse(t, j, q) <=> InUse(m, j, q)) /\ SizeIn(t, j, q) = SizeIn(m, j, q)

LEMMA SizeType ==
  ASSUME NEW m \in Memories, NEW k \in Kinds, NEW p \in Addresses
  PROVE  SizeIn(m, k, p) \in Nat
  BY DEF Memories, SizeIn

\* What is not a record of the leak checker stays.
SameResources(m, t) == t.blocks = m.blocks /\ t.maps = m.maps /\ t.arenas = m.arenas

\* The resource of kind k at p, of the size n, is recorded or, without memory, lost.
Noted(m, t, k, p, n) ==
    \/ t.records = m.records \cup {Record(k, p, n)} /\ t.lost = m.lost
    \/ t.records = m.records /\ t.lost = m.lost \cup {<<k, p>>}

LEMMA TrackFields ==
  ASSUME NEW m \in Memories, NEW k \in Kinds, NEW p \in Addresses, NEW n \in Nat,
         NEW t \in Track(m, k, p, n)
  PROVE  t \in Memories /\ SameResources(m, t) /\ Noted(m, t, k, p, n)
<1> DEFINE new == Record(k, p, n)
<1>1. /\ m.records \cup {new} \in SUBSET Records
      /\ m.lost \cup {<<k, p>>} \in SUBSET (Kinds \X Addresses)
  BY DEF Memories, Record, Records
<1>2. \/ t = [m EXCEPT !.records = m.records \cup {new}]
      \/ t = [m EXCEPT !.lost = m.lost \cup {<<k, p>>}]
  BY DEF Track
<1>3. Noted(m, t, k, p, n) <=>
        \/ t.records = m.records \cup {new} /\ t.lost = m.lost
        \/ t.records = m.records /\ t.lost = m.lost \cup {<<k, p>>}
  BY DEF Noted
<1> HIDE DEF new
<1>4. CASE t = [m EXCEPT !.records = m.records \cup {new}]
  BY <1>1, <1>3, <1>4 DEF Memories, SameResources
<1>5. CASE t = [m EXCEPT !.lost = m.lost \cup {<<k, p>>}]
  BY <1>1, <1>3, <1>5 DEF Memories, SameResources
<1> QED
  BY <1>2, <1>4, <1>5

\* A resource that has come into use and is noted.
LEMMA NotedExact ==
  ASSUME NEW m \in Memories, Exact(m), NEW t \in Memories,
         NEW k \in Kinds, NEW p \in Addresses,
         ~InUse(m, k, p), InUse(t, k, p), SameBut(m, t, k, p),
         Noted(m, t, k, p, SizeIn(t, k, p))
  PROVE  Exact(t)
<1> DEFINE new == Record(k, p, SizeIn(t, k, p))
<1>1. <<k, p>> \notin m.lost
  BY DEF Exact
<1>2. \A j \in Kinds, q \in Addresses : <<j, q>> \in t.lost => InUse(t, j, q)
  BY DEF SameBut, Exact, Noted
<1>3. ASSUME NEW r \in Records
      PROVE  r \in t.records <=>
                Tracked(t, r.kind, r.ptr) /\ r.size = SizeIn(t, r.kind, r.ptr)
  <2>1. r.kind \in Kinds /\ r.ptr \in Addresses /\ r = Record(r.kind, r.ptr, r.size)
    BY DEF Records, Record
  <2>2. CASE r.kind = k /\ r.ptr = p
    <3>1. r \notin m.records
      BY <2>1, <2>2 DEF Exact, Tracked
    <3>2. r = new <=> r.size = SizeIn(t, k, p)
      BY <2>1, <2>2 DEF Record
    <3> QED
      BY <1>1, <2>1, <2>2, <3>1, <3>2 DEF Tracked, Noted
  <2>3. CASE ~(r.kind = k /\ r.ptr = p)
    <3>1. r # new /\ <<r.kind, r.ptr>> # <<k, p>>
      BY <2>3 DEF Record
    <3>2. Tracked(t, r.kind, r.ptr) <=> Tracked(m, r.kind, r.ptr)
      BY <2>1, <2>3, <3>1 DEF Tracked, SameBut, Noted
    <3>3. SizeIn(t, r.kind, r.ptr) = SizeIn(m, r.kind, r.ptr)
      BY <2>1, <2>3 DEF SameBut
    <3> QED
      BY <3>1, <3>2, <3>3 DEF Exact, Noted
  <2> QED
    BY <2>2, <2>3
<1> QED
  BY <1>2, <1>3 DEF Exact

\* A resource that is no longer in use, and lor_leak__untrack.
LEMMA UntrackedExact ==
  ASSUME NEW m \in Memories, Exact(m), NEW t \in Memories,
         NEW k \in Kinds, NEW p \in Addresses,
         ~InUse(t, k, p), SameBut(m, t, k, p),
         t.records = m.records \ Find(m, k, p), t.lost = m.lost \ {<<k, p>>}
  PROVE  Exact(t)
<1>1. \A j \in Kinds, q \in Addresses : <<j, q>> \in t.lost => InUse(t, j, q)
  BY DEF SameBut, Exact
<1>2. ASSUME NEW r \in Records
      PROVE  r \in t.records <=>
                Tracked(t, r.kind, r.ptr) /\ r.size = SizeIn(t, r.kind, r.ptr)
  <2>1. r.kind \in Kinds /\ r.ptr \in Addresses
    BY DEF Records
  <2>2. CASE r.kind = k /\ r.ptr = p
    BY <2>2 DEF Find, Tracked
  <2>3. CASE ~(r.kind = k /\ r.ptr = p)
    <3>1. r \in t.records <=> r \in m.records
      BY <2>3 DEF Find
    <3>2. Tracked(t, r.kind, r.ptr) <=> Tracked(m, r.kind, r.ptr)
      BY <2>1, <2>3 DEF Tracked, SameBut
    <3>3. SizeIn(t, r.kind, r.ptr) = SizeIn(m, r.kind, r.ptr)
      BY <2>1, <2>3 DEF SameBut
    <3> QED
      BY <3>1, <3>2, <3>3 DEF Exact
  <2> QED
    BY <2>2, <2>3
<1> QED
  BY <1>1, <1>2 DEF Exact

----------------------------------------------------------------------------
(* The heap.                                                                *)

LEMMA Lengths ==
  ASSUME NEW s \in Seq(AllCells)
  PROVE  Len(s) \in Nat /\ DOMAIN s = 1 .. Len(s) /\ (s = << >> <=> Len(s) = 0)
  OBVIOUS

\* Blocks whose cells are overwritten are the same resources.
LEMMA WrittenOK ==
  ASSUME NEW m, MemoryOK(m), NEW B \in [Addresses -> Seq(AllCells)],
         \A a \in Addresses : Len(B[a]) = Len(m.blocks[a])
  PROVE  MemoryOK([m EXCEPT !.blocks = B])
<1> DEFINE t == [m EXCEPT !.blocks = B]
<1>1. /\ t \in Memories /\ t.blocks = B /\ t.maps = m.maps /\ t.arenas = m.arenas
      /\ t.records = m.records /\ t.lost = m.lost
  BY DEF MemoryOK, Memories
<1>2. \A a \in Addresses : B[a] = << >> <=> m.blocks[a] = << >>
  <2>1. \A a \in Addresses : m.blocks[a] \in Seq(AllCells) /\ B[a] \in Seq(AllCells)
    BY DEF MemoryOK, Memories
  <2> QED
    BY <2>1, Lengths
<1> HIDE DEF t
<1>3. \A k \in Kinds, p \in Addresses :
         (InUse(t, k, p) <=> InUse(m, k, p)) /\ SizeIn(t, k, p) = SizeIn(m, k, p)
  BY <1>1, <1>2 DEF InUse, SizeIn
<1>4. Exact(t)
  <2>1. \A r \in Records : r.kind \in Kinds /\ r.ptr \in Addresses
    BY DEF Records
  <2> QED
    BY <1>1, <1>3, <2>1 DEF MemoryOK, Exact, Tracked
<1>5. Placed(t)
  BY <1>1, <1>2 DEF MemoryOK, Placed, Memories
<1> QED
  BY <1>1, <1>4, <1>5 DEF MemoryOK, t

\* What a call does to the blocks.
Blocks(m, t, B) == t.blocks = B /\ t.maps = m.maps /\ t.arenas = m.arenas

\* lor_malloc_debug and lor_calloc_debug.
LEMMA MallocOK ==
  ASSUME NEW m, MemoryOK(m), NEW n \in Nat, NEW cell \in AllCells, NEW o \in Mallocs(m, n, cell)
  PROVE  \/ o = Failure(m)
         \/ /\ o.p \in Unused(m) /\ n # 0
            /\ MemoryOK(o.m) /\ Blocks(m, o.m, [m.blocks EXCEPT ![o.p] = Filled(n, cell)])
<1> SUFFICES ASSUME o # Failure(m)
             PROVE  /\ o.p \in Unused(m) /\ n # 0
                    /\ MemoryOK(o.m)
                    /\ Blocks(m, o.m, [m.blocks EXCEPT ![o.p] = Filled(n, cell)])
  OBVIOUS
<1>1. PICK a \in Unused(m) :
        \E t \in Track([m EXCEPT !.blocks[a] = Filled(n, cell)], "heap", a, n) :
            o = [m |-> t, p |-> a]
  BY DEF Mallocs
<1>2. n # 0 /\ o.p = a
  BY <1>1 DEF Mallocs
<1> DEFINE B == [m.blocks EXCEPT ![a] = Filled(n, cell)]
           new == [m EXCEPT !.blocks = B]
<1>3. o.m \in Track(new, "heap", a, n)
  BY <1>1 DEF MemoryOK, Memories
<1>4. a \in Addresses /\ m.blocks[a] = << >> /\ m.maps[a] = 0
  BY <1>1 DEF Unused
<1>5. Filled(n, cell) \in Seq(AllCells) /\ Len(Filled(n, cell)) = n /\ Filled(n, cell) # << >>
  BY <1>2 DEF Filled
<1>6. B \in [Addresses -> Seq(AllCells)] /\ B[a] = Filled(n, cell)
      /\ \A q \in Addresses : q # a => B[q] = m.blocks[q]
  BY <1>4, <1>5 DEF MemoryOK, Memories
<1> HIDE DEF B
<1>7. /\ new \in Memories /\ new.blocks = B /\ new.maps = m.maps /\ new.arenas = m.arenas
      /\ new.records = m.records /\ new.lost = m.lost
  BY <1>6 DEF MemoryOK, Memories
<1> HIDE DEF new
<1>8. o.m \in Memories /\ SameResources(new, o.m) /\ Noted(new, o.m, "heap", a, n)
  BY <1>3, <1>4, <1>7, TrackFields DEF Kinds
<1>9. Blocks(m, o.m, B)
  BY <1>7, <1>8 DEF SameResources, Blocks
<1>10. Exact(o.m)
  <2>1. ~InUse(m, "heap", a) /\ InUse(o.m, "heap", a) /\ SizeIn(o.m, "heap", a) = n
    BY <1>4, <1>5, <1>6, <1>9 DEF InUse, SizeIn, Blocks
  <2>2. SameBut(m, o.m, "heap", a)
    BY <1>6, <1>9 DEF SameBut, InUse, SizeIn, Blocks
  <2>3. Noted(m, o.m, "heap", a, n)
    BY <1>7, <1>8 DEF Noted
  <2>4. m \in Memories /\ Exact(m)
    BY DEF MemoryOK
  <2> QED
    BY <1>4, <1>8, <2>1, <2>2, <2>3, <2>4, NotedExact DEF Kinds
<1>11. Placed(o.m)
  BY <1>4, <1>5, <1>6, <1>9 DEF MemoryOK, Memories, Placed, Blocks
<1> QED
  BY <1>1, <1>2, <1>8, <1>9, <1>10, <1>11 DEF MemoryOK, B

\* A block that holds no arena may be freed or moved.
Movable(m, p) == p \in Addresses /\ m.blocks[p] # << >> /\ p \notin m.arenas

LEMMA FewerTypes ==
  ASSUME NEW m \in Memories, NEW R, NEW x, NEW p
  PROVE  /\ m.records \ R \in SUBSET Records
         /\ m.lost \ {x} \in SUBSET (Kinds \X Addresses)
         /\ [m.blocks EXCEPT ![p] = << >>] \in [Addresses -> Seq(AllCells)]
<1>1. m.records \in SUBSET Records /\ m.lost \in SUBSET (Kinds \X Addresses)
  BY DEF Memories
<1>2. m.blocks \in [Addresses -> Seq(AllCells)] /\ << >> \in Seq(AllCells)
  BY DEF Memories
<1> QED
  BY <1>1, <1>2

\* lor_free_debug.
LEMMA FreeOK ==
  ASSUME NEW m, MemoryOK(m), NEW p, Movable(m, p)
  PROVE  MemoryOK(Freed(m, p)) /\ Blocks(m, Freed(m, p), [m.blocks EXCEPT ![p] = << >>])
<1> DEFINE t == Freed(m, p)
           B == [m.blocks EXCEPT ![p] = << >>]
<1>0. p \in Addresses /\ p # Null
  BY LeakAssumption DEF Movable, LeakAssumption
<1>1. /\ t.blocks = B /\ t.maps = m.maps /\ t.arenas = m.arenas
      /\ t.records = m.records \ Find(m, "heap", p) /\ t.lost = m.lost \ {<<"heap", p>>}
      /\ t \in Memories
  <2>1. t = [[m EXCEPT !.records = m.records \ Find(m, "heap", p),
                       !.lost = m.lost \ {<<"heap", p>>}] EXCEPT !.blocks[p] = << >>]
    BY <1>0 DEF Freed, Untrack
  <2>2. /\ m.records \ Find(m, "heap", p) \in SUBSET Records
        /\ m.lost \ {<<"heap", p>>} \in SUBSET (Kinds \X Addresses)
        /\ B \in [Addresses -> Seq(AllCells)]
    BY FewerTypes DEF MemoryOK
  <2> QED
    BY <2>1, <2>2 DEF MemoryOK, Memories
<1>2. B[p] = << >> /\ \A q \in Addresses : q # p => B[q] = m.blocks[q]
  BY <1>0 DEF MemoryOK, Memories
<1> HIDE DEF t, B
<1>3. Exact(t)
  <2>1. ~InUse(t, "heap", p) /\ SameBut(m, t, "heap", p)
    BY <1>1, <1>2 DEF InUse, SizeIn, SameBut
  <2> QED
    BY <1>0, <1>1, <2>1, UntrackedExact DEF MemoryOK, Kinds
<1>4. Placed(t)
  BY <1>1, <1>2 DEF MemoryOK, Memories, Placed, Movable
<1> QED
  BY <1>1, <1>3, <1>4 DEF MemoryOK, Blocks, t, B

\* The cells of a block that realloc makes n cells long.
Resized_(cells, n) == [i \in 1 .. n |-> IF i <= Len(cells) THEN cells[i] ELSE Junk]

\* lor_realloc_debug of a block, to a size that is not 0.
LEMMA ReallocOK ==
  ASSUME NEW m, MemoryOK(m), NEW p, Movable(m, p), NEW n \in Nat \ {0}, NEW o \in Reallocs(m, p, n)
  PROVE  \/ o = Failure(m)
         \/ /\ o.p \in Unused(m) \cup {p}
            /\ MemoryOK(o.m)
            /\ Blocks(m, o.m, [m.blocks EXCEPT ![p] = << >>,
                                               ![o.p] = Resized_(m.blocks[p], n)])
<1> SUFFICES ASSUME o # Failure(m)
             PROVE  /\ o.p \in Unused(m) \cup {p}
                    /\ MemoryOK(o.m)
                    /\ Blocks(m, o.m, [m.blocks EXCEPT ![p] = << >>,
                                                       ![o.p] = Resized_(m.blocks[p], n)])
  OBVIOUS
<1>0. p \in Addresses /\ p # Null /\ m.blocks[p] # << >>
  BY LeakAssumption DEF Movable, LeakAssumption
<1> DEFINE found == Find(m, "heap", p)
           cells == Resized_(m.blocks[p], n)
<1>1. PICK a \in Unused(m) \cup {p} :
        /\ o.p = a
        /\ o.m \in IF found # {} THEN {Moved(m, p, a, n)}
                   ELSE Track([Moved(m, p, a, n) EXCEPT !.lost = @ \ {<<"heap", p>>}],
                              "heap", a, n)
  BY <1>0 DEF Reallocs
<1> DEFINE B == [m.blocks EXCEPT ![p] = << >>, ![a] = cells]
           moved == Moved(m, p, a, n)
<1>2. a \in Addresses /\ (a # p => m.blocks[a] = << >> /\ m.maps[a] = 0)
  BY <1>0, <1>1 DEF Unused
<1>3. cells \in Seq(AllCells) /\ Len(cells) = n /\ cells # << >>
  <2>1. m.blocks[p] \in Seq(AllCells)
    BY <1>0 DEF MemoryOK, Memories
  <2>2. \A i \in 1 .. n : (IF i <= Len(m.blocks[p]) THEN m.blocks[p][i] ELSE Junk) \in AllCells
    BY <2>1 DEF AllCells
  <2> QED
    BY <2>2 DEF Resized_
<1>4. /\ B \in [Addresses -> Seq(AllCells)] /\ B[a] = cells /\ (a # p => B[p] = << >>)
      /\ \A q \in Addresses : q # a /\ q # p => B[q] = m.blocks[q]
  BY <1>0, <1>2, <1>3 DEF MemoryOK, Memories
<1>5. /\ moved \in Memories /\ Blocks(m, moved, B) /\ moved.lost = m.lost
      /\ moved.records = IF found = {} THEN m.records
                         ELSE (m.records \ found) \cup {Record("heap", a, n)}
  <2> DEFINE R == IF found = {} THEN m.records
                  ELSE (m.records \ found) \cup {Record("heap", a, n)}
  <2>1. moved = [m EXCEPT !.blocks = B, !.records = R]
    BY DEF Moved, Resized_, MemoryOK, Memories
  <2>2. R \in SUBSET Records
    BY <1>2 DEF MemoryOK, Memories, Record, Records, Kinds
  <2> HIDE DEF B, R, moved
  <2>3. R = IF found = {} THEN m.records ELSE (m.records \ found) \cup {Record("heap", a, n)}
    BY DEF R
  <2> HIDE DEF found
  <2> QED
    BY <1>4, <2>1, <2>2, <2>3 DEF MemoryOK, Memories, Blocks
<1> HIDE DEF moved, B, cells
\* The memory without the block, from which its record, if any, is gone.
<1> DEFINE u == [m EXCEPT !.blocks = [m.blocks EXCEPT ![p] = << >>],
                          !.records = m.records \ found, !.lost = m.lost \ {<<"heap", p>>}]
<1>6. /\ u \in Memories /\ Blocks(m, u, [m.blocks EXCEPT ![p] = << >>])
      /\ u.records = m.records \ found /\ u.lost = m.lost \ {<<"heap", p>>}
  <2>1. /\ m.records \ found \in SUBSET Records
        /\ m.lost \ {<<"heap", p>>} \in SUBSET (Kinds \X Addresses)
        /\ [m.blocks EXCEPT ![p] = << >>] \in [Addresses -> Seq(AllCells)]
    BY FewerTypes DEF MemoryOK
  <2> HIDE DEF found
  <2> QED
    BY <2>1 DEF MemoryOK, Memories, Blocks
<1> HIDE DEF u
<1>7. u.blocks[p] = << >> /\ \A q \in Addresses : q # p => u.blocks[q] = m.blocks[q]
  BY <1>0, <1>6 DEF MemoryOK, Memories, Blocks
<1>8. Exact(u)
  <2>1. ~InUse(u, "heap", p) /\ SameBut(m, u, "heap", p)
    BY <1>6, <1>7 DEF InUse, SizeIn, SameBut, Blocks
  <2> QED
    BY <1>0, <1>6, <2>1, UntrackedExact DEF MemoryOK, Kinds
<1>9. o.m \in Memories /\ Blocks(m, o.m, B) /\ Noted(u, o.m, "heap", a, n)
  <2>1. CASE found # {}
    <3>1. o.m = moved
      BY <1>1, <2>1 DEF moved
    <3>2. <<"heap", p>> \notin m.lost
      <4>1. PICK r \in m.records : r.ptr = p /\ r.kind = "heap"
        BY <2>1 DEF Find
      <4> QED
        BY <4>1 DEF MemoryOK, Memories, Exact, Tracked
    <3> QED
      BY <1>5, <1>6, <2>1, <3>1, <3>2 DEF Noted
  <2>2. CASE found = {}
    <3> DEFINE n0 == [moved EXCEPT !.lost = m.lost \ {<<"heap", p>>}]
    <3>1. o.m \in Track(n0, "heap", a, n)
      BY <1>1, <1>5, <2>2 DEF moved
    <3>2. /\ n0 \in Memories /\ Blocks(m, n0, B)
          /\ n0.records = u.records /\ n0.lost = u.lost
      BY <1>5, <1>6, <2>2 DEF Memories, Blocks
    <3> HIDE DEF n0
    <3>3. o.m \in Memories /\ SameResources(n0, o.m) /\ Noted(n0, o.m, "heap", a, n)
      BY <1>2, <3>1, <3>2, TrackFields DEF Kinds
    <3> QED
      BY <3>2, <3>3 DEF SameResources, Blocks, Noted
  <2> QED
    BY <2>1, <2>2
<1>10. Exact(o.m)
  <2>1. ~InUse(u, "heap", a) /\ InUse(o.m, "heap", a) /\ SizeIn(o.m, "heap", a) = n
    BY <1>2, <1>3, <1>4, <1>7, <1>9 DEF InUse, SizeIn, Blocks
  <2>2. SameBut(u, o.m, "heap", a)
    BY <1>4, <1>6, <1>7, <1>9 DEF SameBut, InUse, SizeIn, Blocks
  <2> QED
    BY <1>2, <1>6, <1>8, <1>9, <2>1, <2>2, NotedExact DEF Kinds
<1>11. Placed(o.m)
  BY <1>0, <1>2, <1>3, <1>4, <1>9 DEF MemoryOK, Memories, Placed, Blocks, Movable
<1> QED
  BY <1>1, <1>9, <1>10, <1>11 DEF MemoryOK, B, cells

----------------------------------------------------------------------------
(* The array's block.                                                       *)

\* In memory m the array at a has n elements in c cells.
ArrayOK(m, a, n, c) ==
    /\ c \in Nat /\ n \in 0 .. c
    /\ a = Null => c = 0
    /\ a # Null => /\ Movable(m, a) /\ Len(m.blocks[a]) = c
                   /\ \A i \in 1 .. n : m.blocks[a][i] \in Cells

\* Between the memories m and t the array goes from a to b and all else stays.
Keeps(m, a, t, b) ==
    /\ t.maps = m.maps /\ t.arenas = m.arenas
    /\ \A x \in Addresses : x # a /\ x # b => t.blocks[x] = m.blocks[x]
    /\ a # b /\ a # Null => t.blocks[a] = << >>
    /\ a # b /\ b # Null => b \in Unused(m)

LEMMA GrowthEnough ==
  ASSUME NEW current \in Nat, NEW required \in Nat, NEW n \in Growth(current, required)
  PROVE  n \in Nat /\ n >= required
<1>1. (IF current < MinCapacity THEN MinCapacity ELSE current) \in Nat
  BY ArrayAssumption DEF ArrayAssumption
<1> QED
  BY <1>1 DEF Growth

LEMMA EnlargedCells ==
  ASSUME NEW s \in Seq(AllCells), NEW n \in Nat
  PROVE  /\ Resized_(s, n) \in Seq(AllCells) /\ Len(Resized_(s, n)) = n
         /\ \A i \in 1 .. n : i <= Len(s) => Resized_(s, n)[i] = s[i]
<1>1. \A i \in 1 .. n : (IF i <= Len(s) THEN s[i] ELSE Junk) \in AllCells
  BY DEF AllCells
<1> QED
  BY <1>1 DEF Resized_

\* realloc of the array's block to n cells, not fewer than the elements.
LEMMA MovedArray ==
  ASSUME NEW m, MemoryOK(m), NEW a, NEW k, NEW c, ArrayOK(m, a, k, c), a # Null,
         NEW n \in Nat \ {0}, k <= n, NEW o \in Reallocs(m, a, n)
  PROVE  \/ o = Failure(m)
         \/ /\ o.p # Null /\ MemoryOK(o.m) /\ ArrayOK(o.m, o.p, k, n) /\ Keeps(m, a, o.m, o.p)
            /\ \A i \in 1 .. k : o.m.blocks[o.p][i] = m.blocks[a][i]
<1> SUFFICES ASSUME o # Failure(m)
             PROVE  /\ o.p # Null /\ MemoryOK(o.m) /\ ArrayOK(o.m, o.p, k, n)
                    /\ Keeps(m, a, o.m, o.p)
                    /\ \A i \in 1 .. k : o.m.blocks[o.p][i] = m.blocks[a][i]
  OBVIOUS
<1> DEFINE p == o.p
           cells == Resized_(m.blocks[a], n)
<1>1. Movable(m, a) /\ a \in Addresses /\ m.blocks[a] \in Seq(AllCells)
  BY DEF ArrayOK, Movable, MemoryOK, Memories
<1>2. /\ p \in Unused(m) \cup {a} /\ MemoryOK(o.m)
      /\ Blocks(m, o.m, [m.blocks EXCEPT ![a] = << >>, ![p] = cells])
  BY <1>1, ReallocOK
<1>3. p \in Addresses /\ p # Null /\ p \notin m.arenas
  BY <1>1, <1>2, LeakAssumption DEF LeakAssumption, Unused, Movable, MemoryOK, Placed
<1>4. /\ cells \in Seq(AllCells) /\ Len(cells) = n
      /\ \A i \in 1 .. n : i <= Len(m.blocks[a]) => cells[i] = m.blocks[a][i]
  BY <1>1, EnlargedCells
<1> HIDE DEF cells, p
<1>5. /\ o.m.blocks[p] = cells /\ o.m.maps = m.maps /\ o.m.arenas = m.arenas
      /\ \A x \in Addresses : x # a /\ x # p => o.m.blocks[x] = m.blocks[x]
      /\ a # p => o.m.blocks[a] = << >>
  BY <1>1, <1>2, <1>3 DEF Blocks, MemoryOK, Memories
<1>6. \A i \in 1 .. k : o.m.blocks[p][i] = m.blocks[a][i]
  BY <1>4, <1>5 DEF ArrayOK
<1>7. ArrayOK(o.m, p, k, n)
  <2>1. cells # << >>
    BY <1>4
  <2> QED
    BY <1>3, <1>4, <1>5, <1>6, <2>1 DEF ArrayOK, Movable
<1> QED
  BY <1>2, <1>3, <1>5, <1>6, <1>7 DEF Keeps, p

\* lor_array_reserve_raw.
LEMMA ReserveOK ==
  ASSUME NEW m, MemoryOK(m), ArrayOK(m, array, size, capacity),
         NEW required \in Nat, NEW o \in Reserve(m, required)
  PROVE  \/ o.status # "OK" /\ o = Unreserved(m, o.status)
         \/ /\ o.status = "OK" /\ required <= o.capacity
            /\ MemoryOK(o.m) /\ ArrayOK(o.m, o.array, size, o.capacity)
            /\ Keeps(m, array, o.m, o.array)
            /\ \A i \in 1 .. size : o.m.blocks[o.array][i] = m.blocks[array][i]
<1>1. CASE required <= capacity
  BY <1>1 DEF Reserve, Unreserved, Keeps
<1>2. CASE ~(required <= capacity)
  <2>1. PICK grown \in Growth(capacity, required) :
          o \in IF grown > MaxElements THEN {Unreserved(m, "OVERFLOW")}
                ELSE {IF r.p = Null THEN Unreserved(m, "OUT_OF_MEMORY")
                      ELSE [m |-> r.m, array |-> r.p, capacity |-> grown, status |-> "OK"]
                      : r \in Reallocs(m, array, grown)}
    BY <1>2 DEF Reserve
  <2>2. capacity \in Nat /\ size \in 0 .. capacity
    BY DEF ArrayOK
  <2>3. grown \in Nat \ {0} /\ required <= grown /\ size <= grown
    BY <1>2, <2>1, <2>2, GrowthEnough
  <2>4. CASE grown > MaxElements
    BY <2>1, <2>4 DEF Unreserved
  <2>5. CASE ~(grown > MaxElements)
    <3>1. PICK r \in Reallocs(m, array, grown) :
            o = IF r.p = Null THEN Unreserved(m, "OUT_OF_MEMORY")
                ELSE [m |-> r.m, array |-> r.p, capacity |-> grown, status |-> "OK"]
      BY <2>1, <2>5
    <3>2. CASE r.p = Null
      BY <3>1, <3>2 DEF Unreserved
    <3>3. CASE r.p # Null
      <4>1. r # Failure(m)
        BY <3>3 DEF Failure
      <4>2. CASE array # Null
        BY <2>3, <3>1, <3>3, <4>1, <4>2, MovedArray
      <4>3. CASE array = Null
        <5>1. r \in Mallocs(m, grown, Junk) /\ Junk \in AllCells
          BY <3>1, <4>3 DEF Reallocs, AllCells
        <5>2. /\ r.p \in Unused(m) /\ MemoryOK(r.m)
              /\ Blocks(m, r.m, [m.blocks EXCEPT ![r.p] = Filled(grown, Junk)])
          BY <2>3, <4>1, <5>1, MallocOK
        <5>3. size = 0 /\ r.p \in Addresses /\ r.p \notin m.arenas
          BY <4>3, <5>2 DEF ArrayOK, Unused, MemoryOK, Placed
        <5>4. /\ r.m.blocks[r.p] = Filled(grown, Junk)
              /\ \A x \in Addresses : x # r.p => r.m.blocks[x] = m.blocks[x]
          BY <5>2, <5>3 DEF Blocks, MemoryOK, Memories
        <5>5. Len(Filled(grown, Junk)) = grown /\ Filled(grown, Junk) # << >>
          BY <2>3 DEF Filled
        <5>6. ArrayOK(r.m, r.p, size, grown)
          BY <2>3, <3>3, <5>2, <5>3, <5>4, <5>5 DEF ArrayOK, Movable, Blocks
        <5>7. Keeps(m, array, r.m, r.p)
          <6>1. array \notin Addresses
            BY <4>3, LeakAssumption DEF LeakAssumption
          <6> QED
            BY <4>3, <5>2, <5>4, <6>1 DEF Keeps, Blocks
        <5> QED
          BY <2>3, <3>1, <3>3, <5>2, <5>3, <5>6, <5>7
      <4> QED
        BY <4>2, <4>3
    <3> QED
      BY <3>2, <3>3
  <2> QED
    BY <2>4, <2>5
<1> QED
  BY <1>1, <1>2

\* The cell i of block a, with cells written behind the offset.
OverCell(m, a, offset, cells, i) ==
    IF i - offset \in 1 .. Len(cells) THEN cells[i - offset] ELSE m.blocks[a][i]

\* memmove into a block.
LEMMA WriteOK ==
  ASSUME NEW m, MemoryOK(m), NEW p \in Addresses, NEW offset \in Nat, NEW cells \in Seq(AllCells)
  PROVE  LET t == Write(m, p, offset, cells)
         IN  /\ MemoryOK(t) /\ t.maps = m.maps /\ t.arenas = m.arenas
             /\ \A x \in Addresses : x # p => t.blocks[x] = m.blocks[x]
             /\ Len(t.blocks[p]) = Len(m.blocks[p])
             /\ \A i \in 1 .. Len(m.blocks[p]) :
                   t.blocks[p][i] = OverCell(m, p, offset, cells, i)
<1> DEFINE old == m.blocks[p]
           new == [i \in 1 .. Len(old) |-> IF i - offset \in 1 .. Len(cells)
                                           THEN cells[i - offset] ELSE old[i]]
           B == [m.blocks EXCEPT ![p] = new]
           t == Write(m, p, offset, cells)
<1>1. old \in Seq(AllCells) /\ DOMAIN old = 1 .. Len(old) /\ DOMAIN cells = 1 .. Len(cells)
  BY DEF MemoryOK, Memories
<1>2. t = [m EXCEPT !.blocks = B]
  BY <1>1 DEF Write, MemoryOK, Memories
<1>3. new \in Seq(AllCells) /\ Len(new) = Len(old)
  <2>1. \A i \in 1 .. Len(old) :
          (IF i - offset \in 1 .. Len(cells) THEN cells[i - offset] ELSE old[i]) \in AllCells
    BY <1>1
  <2> QED
    BY <1>1, <2>1
<1>4. \A i \in 1 .. Len(old) : new[i] = IF i - offset \in 1 .. Len(cells)
                                        THEN cells[i - offset] ELSE old[i]
  OBVIOUS
<1> HIDE DEF new, t
<1>5. /\ B \in [Addresses -> Seq(AllCells)] /\ B[p] = new
      /\ \A x \in Addresses : x # p => B[x] = m.blocks[x]
  BY <1>3 DEF MemoryOK, Memories
<1> HIDE DEF B
<1>6. MemoryOK(t)
  BY <1>2, <1>3, <1>5, WrittenOK
<1>7. t.blocks = B /\ t.maps = m.maps /\ t.arenas = m.arenas
  BY <1>2 DEF MemoryOK, Memories
<1> QED
  BY <1>3, <1>4, <1>5, <1>6, <1>7 DEF t, OverCell

\* Forgetting what is behind the first n cells.
LEMMA CutOK ==
  ASSUME NEW m, MemoryOK(m), NEW p \in Addresses, NEW n \in Nat
  PROVE  LET t == Cut(m, p, n)
         IN  /\ MemoryOK(t) /\ t.maps = m.maps /\ t.arenas = m.arenas
             /\ \A x \in Addresses : x # p => t.blocks[x] = m.blocks[x]
             /\ Len(t.blocks[p]) = Len(m.blocks[p])
             /\ \A i \in 1 .. Len(m.blocks[p]) :
                   i <= n => t.blocks[p][i] = m.blocks[p][i]
<1> DEFINE old == m.blocks[p]
           new == [i \in 1 .. Len(old) |-> IF i <= n THEN old[i] ELSE Junk]
           B == [m.blocks EXCEPT ![p] = new]
           t == Cut(m, p, n)
<1>1. old \in Seq(AllCells) /\ DOMAIN old = 1 .. Len(old)
  BY DEF MemoryOK, Memories
<1>2. t = [m EXCEPT !.blocks = B]
  <2>1. p # Null
    BY LeakAssumption DEF LeakAssumption
  <2> QED
    BY <1>1, <2>1 DEF Cut, MemoryOK, Memories
<1>3. new \in Seq(AllCells) /\ Len(new) = Len(old)
  <2>1. \A i \in 1 .. Len(old) : (IF i <= n THEN old[i] ELSE Junk) \in AllCells
    BY <1>1 DEF AllCells
  <2> QED
    BY <1>1, <2>1
<1>4. \A i \in 1 .. Len(old) : i <= n => new[i] = old[i]
  OBVIOUS
<1> HIDE DEF new, t
<1>5. /\ B \in [Addresses -> Seq(AllCells)] /\ B[p] = new
      /\ \A x \in Addresses : x # p => B[x] = m.blocks[x]
  BY <1>3 DEF MemoryOK, Memories
<1> HIDE DEF B
<1>6. MemoryOK(t)
  BY <1>2, <1>3, <1>5, WrittenOK
<1>7. t.blocks = B /\ t.maps = m.maps /\ t.arenas = m.arenas
  BY <1>2 DEF MemoryOK, Memories
<1> QED
  BY <1>3, <1>4, <1>5, <1>6, <1>7 DEF t

----------------------------------------------------------------------------
(* The elements, and the sequences of Vector, place by place.               *)

Elements(m, a, n) == [i \in 1 .. n |-> m.blocks[a][i]]

\* What is read of the elements of an array is there.
LEMMA ReadElements ==
  ASSUME NEW m, MemoryOK(m), NEW a, NEW n, NEW c, ArrayOK(m, a, n, c),
         NEW offset \in Nat, NEW k \in Nat, offset + k <= n
  PROVE  /\ ReadCells(m, a, offset, k) = [i \in 1 .. k |-> m.blocks[a][offset + i]]
         /\ ReadCells(m, a, offset, k) \in Seq(Cells)
         /\ Len(ReadCells(m, a, offset, k)) = k
         /\ \A i \in 1 .. k : ReadCells(m, a, offset, k)[i] = m.blocks[a][offset + i]
<1> DEFINE read == [i \in 1 .. k |-> m.blocks[a][offset + i]]
<1>1. ReadCells(m, a, offset, k) = read
  <2>1. CASE a = Null
    <3>1. k = 0
      BY <2>1 DEF ArrayOK
    <3> QED
      BY <3>1 DEF ReadCells
  <2>2. CASE a # Null
    <3>1. Len(m.blocks[a]) = c /\ c \in Nat /\ n \in 0 .. c
      BY <2>2 DEF ArrayOK
    <3>2. \A i \in 1 .. k : offset + i <= Len(m.blocks[a])
      BY <3>1
    <3> QED
      BY <2>2, <3>2 DEF ReadCells, CellsAt
  <2> QED
    BY <2>1, <2>2
<1>2. \A i \in 1 .. k : m.blocks[a][offset + i] \in Cells
  <2>1. a = Null => k = 0
    BY DEF ArrayOK
  <2>2. \A i \in 1 .. k : offset + i \in 1 .. n
    BY DEF ArrayOK
  <2> QED
    BY <2>1, <2>2 DEF ArrayOK
<1>3. read \in [1 .. k -> Cells]
  BY <1>2
<1>4. /\ read \in Seq(Cells) /\ Len(read) = k
      /\ \A i \in 1 .. k : read[i] = m.blocks[a][offset + i]
  BY <1>3
<1> QED
  BY <1>1, <1>4

\* What is read of the elements is the same wherever the array is.
LEMMA SourceFollows ==
  ASSUME NEW m, MemoryOK(m), NEW a, NEW k, NEW c, ArrayOK(m, a, k, c),
         NEW t, MemoryOK(t), NEW b, NEW d, ArrayOK(t, b, k, d),
         \A i \in 1 .. k : t.blocks[b][i] = m.blocks[a][i],
         NEW offset \in Nat, NEW n \in Nat, offset + n <= k
  PROVE  ReadCells(t, b, offset, n) = ReadCells(m, a, offset, n)
<1> DEFINE old == ReadCells(m, a, offset, n)
           new == ReadCells(t, b, offset, n)
<1>1. /\ old \in Seq(Cells) /\ Len(old) = n
      /\ \A i \in 1 .. n : old[i] = m.blocks[a][offset + i]
  BY ReadElements
<1>2. /\ new \in Seq(Cells) /\ Len(new) = n
      /\ \A i \in 1 .. n : new[i] = t.blocks[b][offset + i]
  BY ReadElements
<1>3. \A i \in 1 .. n : offset + i \in 1 .. k
  BY DEF ArrayOK
<1> HIDE DEF old, new
<1>4. \A i \in 1 .. n : new[i] = old[i]
  BY <1>1, <1>2, <1>3
<1>5. new = old
  BY <1>1, <1>2, <1>4, SeqEqual
<1> QED
  BY <1>5 DEF old, new

LEMMA ReplacedIs ==
  ASSUME NEW S, NEW s \in Seq(S), NEW i \in Nat, NEW n \in Nat, i + n <= Len(s),
         NEW new \in Seq(S)
  PROVE  LET t == Abstract!Replaced(s, i, n, new)
         IN  /\ t \in Seq(S) /\ Len(t) = Len(s) - n + Len(new)
             /\ \A j \in 1 .. Len(s) - n + Len(new) :
                   t[j] = IF j <= i THEN s[j] ELSE IF j <= i + Len(new) THEN new[j - i]
                          ELSE s[j - Len(new) + n]
<1> DEFINE front == SubSeq(s, 1, i)
           back == SubSeq(s, i + n + 1, Len(s))
           head == front \o new
<1>0. Len(s) \in Nat /\ Len(new) \in Nat /\ i \in Nat /\ n \in Nat
  OBVIOUS
<1>1. /\ front \in Seq(S) /\ Len(front) = i
      /\ \A j \in 1 .. i : front[j] = s[j]
  OBVIOUS
<1>2. /\ back \in Seq(S) /\ Len(back) = Len(s) - i - n
      /\ \A j \in 1 .. Len(s) - i - n : back[j] = s[j + i + n]
  OBVIOUS
<1> HIDE DEF front, back
<1>3. /\ head \in Seq(S) /\ Len(head) = i + Len(new)
      /\ \A j \in 1 .. i + Len(new) : head[j] = IF j <= i THEN front[j] ELSE new[j - i]
  BY <1>0, <1>1, ConcatProperties
<1> HIDE DEF head
<1>4. /\ head \o back \in Seq(S) /\ Len(head \o back) = Len(head) + Len(back)
      /\ \A j \in 1 .. Len(head) + Len(back) :
            (head \o back)[j] = IF j <= Len(head) THEN head[j] ELSE back[j - Len(head)]
  BY <1>2, <1>3, ConcatProperties
<1> DEFINE whole == head \o back
           len == Len(s) - n + Len(new)
<1>5. Len(head) + Len(back) = len /\ len \in Nat
  BY <1>0, <1>2, <1>3
<1>6. Abstract!Replaced(s, i, n, new) = whole
  BY DEF Abstract!Replaced, front, back, head
<1>7. /\ whole \in Seq(S) /\ Len(whole) = len
      /\ \A j \in 1 .. len : whole[j] = IF j <= Len(head) THEN head[j] ELSE back[j - Len(head)]
  BY <1>4, <1>5
<1> HIDE DEF whole
<1>8. ASSUME NEW j \in 1 .. len
      PROVE  whole[j] = IF j <= i THEN s[j] ELSE IF j <= i + Len(new) THEN new[j - i]
                        ELSE s[j - Len(new) + n]
  <2>1. CASE j <= i + Len(new)
    <3>1. j \in 1 .. i + Len(new) /\ j <= Len(head)
      BY <1>0, <1>3, <2>1
    <3>2. whole[j] = head[j]
      BY <1>7, <3>1
    <3>3. head[j] = IF j <= i THEN front[j] ELSE new[j - i]
      BY <1>3, <3>1
    <3>4. j <= i => front[j] = s[j]
      BY <1>0, <1>1, <3>1
    <3> QED
      BY <2>1, <3>2, <3>3, <3>4
  <2>2. CASE ~(j <= i + Len(new))
    <3>1. whole[j] = back[j - Len(head)]
      BY <1>0, <1>3, <1>5, <1>7, <2>2
    <3>2. /\ j - Len(head) \in 1 .. Len(s) - i - n
          /\ (j - Len(head)) + i + n = j - Len(new) + n
      BY <1>0, <1>3, <2>2
    <3>3. back[j - Len(head)] = s[j - Len(new) + n]
      BY <1>2, <3>2
    <3> QED
      BY <1>0, <2>2, <3>1, <3>3
  <2> QED
    BY <2>1, <2>2
<1> QED
  BY <1>6, <1>7, <1>8

LEMMA WithoutLast ==
  ASSUME NEW S, NEW s \in Seq(S), Len(s) # 0
  PROVE  Abstract!RemovesLast(s) = [j \in 1 .. Len(s) - 1 |-> s[j]]
  BY DEF Abstract!RemovesLast

----------------------------------------------------------------------------
(* Cells written and forgotten in the array's block.                        *)

LEMMA WrittenArray ==
  ASSUME NEW m, MemoryOK(m), NEW a, NEW k, NEW c, ArrayOK(m, a, k, c), a # Null,
         NEW offset \in Nat, NEW cells \in Seq(AllCells), NEW n \in 0 .. c,
         \A i \in 1 .. n : OverCell(m, a, offset, cells, i) \in Cells
  PROVE  LET t == Write(m, a, offset, cells)
         IN  /\ MemoryOK(t) /\ ArrayOK(t, a, n, c) /\ Keeps(m, a, t, a)
             /\ \A i \in 1 .. c : t.blocks[a][i] = OverCell(m, a, offset, cells, i)
<1> DEFINE t == Write(m, a, offset, cells)
<1>1. a \in Addresses /\ c \in Nat /\ Len(m.blocks[a]) = c
  BY DEF ArrayOK, Movable
<1>2. /\ MemoryOK(t) /\ t.maps = m.maps /\ t.arenas = m.arenas
      /\ \A x \in Addresses : x # a => t.blocks[x] = m.blocks[x]
      /\ Len(t.blocks[a]) = c
      /\ \A i \in 1 .. c : t.blocks[a][i] = OverCell(m, a, offset, cells, i)
  BY <1>1, WriteOK
<1> HIDE DEF t
<1>3. t.blocks[a] # << >>
  BY <1>1, <1>2, Lengths DEF ArrayOK, Movable, MemoryOK, Memories
<1>4. \A i \in 1 .. n : t.blocks[a][i] \in Cells
  BY <1>1, <1>2
<1>5. ArrayOK(t, a, n, c)
  BY <1>1, <1>2, <1>3, <1>4 DEF ArrayOK, Movable
<1>6. Keeps(m, a, t, a)
  BY <1>2 DEF Keeps
<1> QED
  BY <1>2, <1>5, <1>6 DEF t

LEMMA CutArray ==
  ASSUME NEW m, MemoryOK(m), NEW a, NEW k, NEW c, ArrayOK(m, a, k, c), NEW n \in 0 .. k
  PROVE  LET t == Cut(m, a, n)
         IN  /\ MemoryOK(t) /\ ArrayOK(t, a, n, c) /\ Keeps(m, a, t, a)
             /\ \A i \in 1 .. n : t.blocks[a][i] = m.blocks[a][i]
<1> DEFINE t == Cut(m, a, n)
<1>1. CASE a = Null
  BY <1>1 DEF Cut, ArrayOK, Keeps
<1>2. CASE a # Null
  <2>1. a \in Addresses /\ c \in Nat /\ k \in 0 .. c /\ Len(m.blocks[a]) = c
    BY <1>2 DEF ArrayOK, Movable
  <2>2. /\ MemoryOK(t) /\ t.maps = m.maps /\ t.arenas = m.arenas
        /\ \A x \in Addresses : x # a => t.blocks[x] = m.blocks[x]
        /\ Len(t.blocks[a]) = c
        /\ \A i \in 1 .. c : i <= n => t.blocks[a][i] = m.blocks[a][i]
    BY <2>1, CutOK
  <2> HIDE DEF t
  <2>3. t.blocks[a] # << >>
    BY <1>2, <2>1, <2>2, Lengths DEF ArrayOK, Movable, MemoryOK, Memories
  <2>4. \A i \in 1 .. n : t.blocks[a][i] = m.blocks[a][i] /\ m.blocks[a][i] \in Cells
    BY <1>2, <2>1, <2>2 DEF ArrayOK
  <2>5. ArrayOK(t, a, n, c)
    BY <1>2, <2>1, <2>2, <2>3, <2>4 DEF ArrayOK, Movable
  <2>6. Keeps(m, a, t, a)
    BY <2>2 DEF Keeps
  <2> QED
    BY <2>2, <2>4, <2>5, <2>6 DEF t
<1> QED
  BY <1>1, <1>2

\* New cells behind the elements.
LEMMA AppendedCells ==
  ASSUME NEW m, MemoryOK(m), NEW a, NEW k, NEW c, ArrayOK(m, a, k, c),
         NEW new \in Seq(Cells), Len(new) # 0, k + Len(new) <= c
  PROVE  LET t == Write(m, a, k, new)
         IN  /\ MemoryOK(t) /\ ArrayOK(t, a, k + Len(new), c) /\ Keeps(m, a, t, a)
             /\ \A i \in 1 .. k + Len(new) :
                   t.blocks[a][i] = IF i <= k THEN m.blocks[a][i] ELSE new[i - k]
<1> DEFINE t == Write(m, a, k, new)
           n == k + Len(new)
<1>1. /\ c \in Nat /\ k \in Nat /\ Len(new) \in Nat /\ n \in 0 .. c /\ a # Null
      /\ \A i \in 1 .. k : m.blocks[a][i] \in Cells
  BY DEF ArrayOK
<1>2. new \in Seq(AllCells) /\ \A i \in 1 .. Len(new) : new[i] \in Cells
  BY DEF AllCells
<1>3. \A i \in 1 .. n : i - k \in 1 .. Len(new) <=> ~(i <= k)
  BY <1>1
<1>4. \A i \in 1 .. n : OverCell(m, a, k, new, i) \in Cells
  BY <1>1, <1>2, <1>3 DEF OverCell
<1>5. /\ MemoryOK(t) /\ ArrayOK(t, a, n, c) /\ Keeps(m, a, t, a)
      /\ \A i \in 1 .. c : t.blocks[a][i] = OverCell(m, a, k, new, i)
  BY <1>1, <1>2, <1>4, WrittenArray
<1> HIDE DEF t
<1>6. \A i \in 1 .. n : t.blocks[a][i] = IF i <= k THEN m.blocks[a][i] ELSE new[i - k]
  <2>1. \A i \in 1 .. n : i \in 1 .. c
    BY <1>1
  <2>2. \A i \in 1 .. n :
           OverCell(m, a, k, new, i) = IF i <= k THEN m.blocks[a][i] ELSE new[i - k]
    BY <1>3 DEF OverCell
  <2> QED
    BY <1>5, <2>1, <2>2
<1> QED
  BY <1>5, <1>6 DEF t

\* A change in place after a change that may have moved the block.
LEMMA KeepsOn ==
  ASSUME NEW m, NEW a, NEW t, NEW b, NEW u, Keeps(m, a, t, b), Keeps(t, b, u, b),
         a = Null \/ a \in Addresses
  PROVE  Keeps(m, a, u, b)
  BY DEF Keeps

----------------------------------------------------------------------------
(* The calls of the array.                                                  *)

ArrayInv == MemoryOK(memory) /\ ArrayOK(memory, array, size, capacity)

\* What each call keeps and does.
CallOK ==
    /\ ArrayInv'
    /\ Keeps(memory, array, memory', array')
    /\ Abstract!Effect(Contents, Contents', call')

LEMMA ContentsAre ==
  ASSUME NEW m, MemoryOK(m), NEW a, NEW n, NEW c, ArrayOK(m, a, n, c)
  PROVE  /\ ReadCells(m, a, 0, n) = Elements(m, a, n)
         /\ ReadCells(m, a, 0, n) \in Seq(Cells) /\ Len(ReadCells(m, a, 0, n)) = n
         /\ \A i \in 1 .. n : ReadCells(m, a, 0, n)[i] = m.blocks[a][i]
<1>1. n \in Nat
  BY DEF ArrayOK
<1>2. /\ ReadCells(m, a, 0, n) = [i \in 1 .. n |-> m.blocks[a][0 + i]]
      /\ ReadCells(m, a, 0, n) \in Seq(Cells) /\ Len(ReadCells(m, a, 0, n)) = n
  BY <1>1, ReadElements
<1>3. [i \in 1 .. n |-> m.blocks[a][0 + i]] = Elements(m, a, n)
  BY <1>1 DEF Elements
<1>4. \A i \in 1 .. n : Elements(m, a, n)[i] = m.blocks[a][i]
  BY DEF Elements
<1> QED
  BY <1>2, <1>3, <1>4

LEMMA CellsAre ==
  /\ Cells \subseteq AllCells /\ Junk \notin Cells
  /\ Zero \in Cells /\ Zero # Junk
  BY ArrayAssumption DEF ArrayAssumption, Cells, AllCells, Zero, Junk

LEMMA ArrayTypes ==
  ASSUME ArrayInv
  PROVE  /\ capacity \in Nat /\ size \in Nat /\ size \in 0 .. capacity
         /\ array = Null \/ array \in Addresses
         /\ array = Null => size = 0
         /\ Contents \in Seq(Cells) /\ Len(Contents) = size
         /\ \A i \in 1 .. size : Contents[i] = memory.blocks[array][i]
<1>1. MemoryOK(memory) /\ ArrayOK(memory, array, size, capacity)
  BY DEF ArrayInv
<1>2. /\ capacity \in Nat /\ size \in Nat /\ size \in 0 .. capacity
      /\ array = Null \/ array \in Addresses
      /\ array = Null => size = 0
  BY <1>1 DEF ArrayOK, Movable
<1> QED
  BY <1>1, <1>2, ContentsAre DEF Contents

LEMMA SameContents ==
  ASSUME ArrayInv, ArrayInv', size' = size,
         \A i \in 1 .. size : memory'.blocks[array'][i] = memory.blocks[array][i]
  PROVE  Contents' = Contents
<1>1. Contents = Elements(memory, array, size)
  BY ContentsAre DEF ArrayInv, Contents
<1>2. Contents' = Elements(memory', array', size')
  BY ContentsAre DEF ArrayInv, Contents
<1> QED
  BY <1>1, <1>2 DEF Elements

LEMMA UntouchedOK ==
  ASSUME ArrayInv, memory' = memory, array' = array, size' = size, capacity' = capacity
  PROVE  ArrayInv' /\ Keeps(memory, array, memory', array') /\ Contents' = Contents
  BY DEF ArrayInv, Keeps, Contents

\* A call that fails where it has changed nothing.
LEMMA FailedOK ==
  ASSUME ArrayInv, memory' = memory, array' = array, size' = size, capacity' = capacity,
         call'.status # "OK"
  PROVE  CallOK
  BY UntouchedOK DEF CallOK, Abstract!Effect

LEMMA ReserveCallOK ==
  ASSUME ArrayInv, NEW n \in 0 .. MaxElements, ReserveCall(n)
  PROVE  CallOK
<1>1. PICK o \in Reserve(memory, n) :
        /\ memory' = o.m /\ array' = o.array /\ capacity' = o.capacity /\ size' = size
        /\ call' = [op |-> "reserve", index |-> n, given |-> << >>, taken |-> << >>,
                    status |-> o.status]
  BY DEF ReserveCall, Returned
<1>2. CASE o.status # "OK" /\ o = Unreserved(memory, o.status)
  BY <1>1, <1>2, FailedOK DEF Unreserved
<1>3. CASE /\ o.status = "OK"
           /\ MemoryOK(o.m) /\ ArrayOK(o.m, o.array, size, o.capacity)
           /\ Keeps(memory, array, o.m, o.array)
           /\ \A i \in 1 .. size : o.m.blocks[o.array][i] = memory.blocks[array][i]
  <2>1. ArrayInv'
    BY <1>1, <1>3 DEF ArrayInv
  <2>2. Contents' = Contents
    BY <1>1, <1>3, <2>1, SameContents
  <2> QED
    BY <1>1, <1>3, <2>1, <2>2 DEF CallOK, Abstract!Effect
<1>4. n \in Nat
  BY ArrayAssumption DEF ArrayAssumption
<1> QED
  BY <1>1, <1>2, <1>3, <1>4, ReserveOK DEF ArrayInv

LEMMA ResizeOK ==
  ASSUME ArrayInv, NEW n \in 0 .. MaxElements, Resize(n)
  PROVE  CallOK
<1>0. /\ n \in Nat /\ capacity \in Nat /\ size \in 0 .. capacity /\ size \in Nat
      /\ Zero \in Cells /\ Zero # Junk
      /\ array = Null \/ array \in Addresses
  BY CellsAre, ArrayTypes, ArrayAssumption DEF ArrayAssumption
<1>1. PICK o \in IF n > size THEN Reserve(memory, n) ELSE {Unreserved(memory, "OK")} :
        /\ call' = [op |-> "resize", index |-> n, given |-> <<Zero>>, taken |-> << >>,
                    status |-> o.status]
        /\ array' = o.array /\ capacity' = o.capacity
        /\ IF o.status = "OK"
           THEN /\ memory' = IF n > size
                             THEN Write(o.m, o.array, size, Filled(n - size, Zero))
                             ELSE Cut(o.m, o.array, n)
                /\ size' = IF o.array = Null THEN 0 ELSE n
           ELSE memory' = o.m /\ size' = size
  BY DEF Resize, Returned
<1>2. CASE o.status # "OK" /\ o = Unreserved(memory, o.status)
  BY <1>1, <1>2, FailedOK DEF Unreserved
<1>3. ASSUME o.status = "OK", ArrayInv', Keeps(memory, array, memory', array'), size' = n,
             \A i \in 1 .. n : memory'.blocks[array'][i] =
                                   IF i <= size THEN memory.blocks[array][i] ELSE Zero
      PROVE  CallOK
  <2>1. Contents' = Elements(memory', array', n)
    BY <1>3, ContentsAre DEF ArrayInv, Contents
  <2>2. Len(Contents) = size /\ \A i \in 1 .. size : Contents[i] = memory.blocks[array][i]
    BY ArrayTypes
  <2>3. Contents' = Abstract!Resized(Contents, n, Zero)
    BY <1>0, <1>3, <2>1, <2>2 DEF Elements, Abstract!Resized
  <2> QED
    BY <1>0, <1>1, <1>3, <2>3 DEF CallOK, Abstract!Effect
<1>4. CASE n > size /\ o.status = "OK"
  <2>1. /\ n <= o.capacity
        /\ MemoryOK(o.m) /\ ArrayOK(o.m, o.array, size, o.capacity)
        /\ Keeps(memory, array, o.m, o.array)
        /\ \A i \in 1 .. size : o.m.blocks[o.array][i] = memory.blocks[array][i]
    BY <1>0, <1>1, <1>4, ReserveOK DEF ArrayInv
  <2> DEFINE m == o.m
             a == o.array
             c == o.capacity
             cells == Filled(n - size, Zero)
             t == Write(m, a, size, cells)
  <2>2. /\ cells \in Seq(Cells) /\ Len(cells) = n - size /\ size + Len(cells) = n
        /\ Len(cells) # 0 /\ \A i \in 1 .. n - size : cells[i] = Zero
    BY <1>0, <1>4 DEF Filled
  <2>3. a # Null /\ memory' = t /\ size' = n /\ array' = a /\ capacity' = c
    BY <1>0, <1>1, <1>4, <2>1 DEF ArrayOK
  <2>4. MemoryOK(m) /\ ArrayOK(m, a, size, c) /\ size + Len(cells) <= c
    BY <2>1, <2>2
  <2> HIDE DEF m, a, c, cells
  <2>5. /\ MemoryOK(t) /\ ArrayOK(t, a, n, c) /\ Keeps(m, a, t, a)
        /\ \A i \in 1 .. n :
              t.blocks[a][i] = IF i <= size THEN m.blocks[a][i] ELSE cells[i - size]
    BY <2>2, <2>4, AppendedCells
  <2> HIDE DEF t
  <2>6. ArrayInv' /\ Keeps(memory, array, memory', array')
    BY <1>0, <2>1, <2>3, <2>5, KeepsOn DEF ArrayInv, m, a
  <2>7. \A i \in 1 .. n : memory'.blocks[array'][i] =
                              IF i <= size THEN memory.blocks[array][i] ELSE Zero
    BY <1>0, <2>1, <2>2, <2>3, <2>5 DEF m, a
  <2> QED
    BY <1>3, <1>4, <2>3, <2>6, <2>7
<1>5. CASE ~(n > size)
  <2>1. o.m = memory /\ o.array = array /\ o.capacity = capacity /\ o.status = "OK"
    BY <1>1, <1>5 DEF Unreserved
  <2>2. memory' = Cut(memory, array, n) /\ n \in 0 .. size /\ size' = n
    BY <1>0, <1>1, <1>5, <2>1 DEF ArrayInv, ArrayOK
  <2>3. /\ MemoryOK(memory') /\ ArrayOK(memory', array, n, capacity)
        /\ Keeps(memory, array, memory', array)
        /\ \A i \in 1 .. n : memory'.blocks[array][i] = memory.blocks[array][i]
    BY <2>2, CutArray DEF ArrayInv
  <2>4. ArrayInv' /\ \A i \in 1 .. n : i <= size
    BY <1>0, <1>1, <2>1, <2>2, <2>3 DEF ArrayInv
  <2> QED
    BY <1>1, <1>3, <2>1, <2>2, <2>3, <2>4
<1>6. n > size => \/ o.status # "OK" /\ o = Unreserved(memory, o.status)
                  \/ o.status = "OK"
  BY <1>0, <1>1, ReserveOK DEF ArrayInv
<1> QED
  BY <1>2, <1>4, <1>5, <1>6

\* The first k cells at b in t are those at a in m, but for n cells behind the
\* first i, in whose place are new ones.
Edited(m, a, t, b, k, i, n, new) ==
    \A j \in 1 .. k :
        t.blocks[b][j] =
           IF j <= i THEN m.blocks[a][j] ELSE IF j <= i + Len(new) THEN new[j - i]
           ELSE m.blocks[a][j - Len(new) + n]

LEMMA ReplacedCells ==
  ASSUME NEW m, MemoryOK(m), NEW a, NEW k \in Nat, NEW c, ArrayOK(m, a, k, c),
         NEW t, MemoryOK(t), NEW b, NEW l \in Nat, NEW d, ArrayOK(t, b, l, d),
         NEW i \in Nat, NEW n \in Nat, i + n <= k,
         NEW new \in Seq(Cells), l = k - n + Len(new), Edited(m, a, t, b, l, i, n, new)
  PROVE  ReadCells(t, b, 0, l) = Abstract!Replaced(ReadCells(m, a, 0, k), i, n, new)
<1> DEFINE old == ReadCells(m, a, 0, k)
           now == ReadCells(t, b, 0, l)
           then == Abstract!Replaced(old, i, n, new)
<1>1. /\ old \in Seq(Cells) /\ Len(old) = k
      /\ \A j \in 1 .. k : old[j] = m.blocks[a][j]
  BY ContentsAre
<1>2. /\ now \in Seq(Cells) /\ Len(now) = l
      /\ \A j \in 1 .. l : now[j] = t.blocks[b][j]
  BY ContentsAre
<1> HIDE DEF old, now
<1>3. /\ then \in Seq(Cells) /\ Len(then) = l
      /\ \A j \in 1 .. l :
            then[j] = IF j <= i THEN old[j] ELSE IF j <= i + Len(new) THEN new[j - i]
                      ELSE old[j - Len(new) + n]
  <2>1. old \in Seq(Cells) /\ i + n <= Len(old) /\ Len(old) - n + Len(new) = l
    BY <1>1
  <2>2. /\ then \in Seq(Cells) /\ Len(then) = Len(old) - n + Len(new)
        /\ \A j \in 1 .. Len(old) - n + Len(new) :
              then[j] = IF j <= i THEN old[j] ELSE IF j <= i + Len(new) THEN new[j - i]
                        ELSE old[j - Len(new) + n]
    BY <2>1, ReplacedIs
  <2> HIDE DEF then
  <2> QED
    BY <2>1, <2>2
<1> HIDE DEF then
<1>4. ASSUME NEW j \in 1 .. l
      PROVE  now[j] = then[j]
  <2>1. j <= i => j \in 1 .. k
    OBVIOUS
  <2>2. ~(j <= i) /\ ~(j <= i + Len(new)) => j - Len(new) + n \in 1 .. k
    OBVIOUS
  <2> QED
    BY <1>1, <1>2, <1>3, <2>1, <2>2 DEF Edited
<1>5. now = then
  BY <1>2, <1>3, <1>4, SeqEqual
<1> QED
  BY <1>5 DEF old, now, then

\* New elements in place of a range of the old ones.
LEMMA ReplacedContents ==
  ASSUME ArrayInv, ArrayInv', NEW i \in Nat, NEW n \in Nat, i + n <= size,
         NEW new \in Seq(Cells), size' = size - n + Len(new),
         Edited(memory, array, memory', array', size', i, n, new)
  PROVE  Contents' = Abstract!Replaced(Contents, i, n, new)
<1>1. size \in Nat /\ size' \in Nat
  BY DEF ArrayInv, ArrayOK
<1>2. /\ MemoryOK(memory) /\ ArrayOK(memory, array, size, capacity)
      /\ MemoryOK(memory') /\ ArrayOK(memory', array', size', capacity')
  BY DEF ArrayInv
<1> QED
  BY <1>1, <1>2, ReplacedCells DEF Contents

LEMMA AppendFromOK ==
  ASSUME ArrayInv, NEW given \in Seq(Cells), Len(given) # 0, NEW offset,
         \/ offset = Outside
         \/ /\ offset \in Nat /\ offset + Len(given) <= size
            /\ given = ReadCells(memory, array, offset, Len(given)),
         AppendFrom(given, offset)
  PROVE  CallOK
<1>0. /\ Len(given) \in Nat /\ size \in Nat
      /\ array = Null \/ array \in Addresses
      /\ Len(Contents) = size /\ \A i \in DOMAIN given : given[i] # Junk
  BY ArrayTypes, CellsAre
<1>1. PICK o \in Reserve(memory, size + Len(given)) :
        /\ call' = [op |-> "append", index |-> 0, given |-> given, taken |-> << >>,
                    status |-> o.status]
        /\ array' = o.array /\ capacity' = o.capacity
        /\ IF o.status = "OK"
           THEN /\ memory' = Write(o.m, o.array, size, SourceMoved(o, given, offset))
                /\ size' = size + Len(given)
           ELSE memory' = o.m /\ size' = size
  BY DEF AppendFrom, Returned
<1>2. \/ o.status # "OK" /\ o = Unreserved(memory, o.status)
      \/ /\ o.status = "OK" /\ size + Len(given) <= o.capacity
         /\ MemoryOK(o.m) /\ ArrayOK(o.m, o.array, size, o.capacity)
         /\ Keeps(memory, array, o.m, o.array)
         /\ \A i \in 1 .. size : o.m.blocks[o.array][i] = memory.blocks[array][i]
  BY <1>0, <1>1, ReserveOK DEF ArrayInv
<1>3. CASE o.status # "OK" /\ o = Unreserved(memory, o.status)
  BY <1>1, <1>3, FailedOK DEF Unreserved
<1>4. CASE /\ o.status = "OK" /\ size + Len(given) <= o.capacity
           /\ MemoryOK(o.m) /\ ArrayOK(o.m, o.array, size, o.capacity)
           /\ Keeps(memory, array, o.m, o.array)
           /\ \A i \in 1 .. size : o.m.blocks[o.array][i] = memory.blocks[array][i]
  <2> DEFINE m == o.m
             a == o.array
             c == o.capacity
             t == Write(m, a, size, given)
  <2>1. /\ MemoryOK(m) /\ ArrayOK(m, a, size, c) /\ size + Len(given) <= c
        /\ Keeps(memory, array, m, a)
        /\ \A i \in 1 .. size : m.blocks[a][i] = memory.blocks[array][i]
    BY <1>4
  <2>2. SourceMoved(o, given, offset) =
           IF offset = Outside THEN given ELSE ReadCells(m, a, offset, Len(given))
    BY DEF SourceMoved
  <2> HIDE DEF m, a, c
  <2>3. SourceMoved(o, given, offset) = given
    <3>1. CASE offset = Outside
      BY <2>2, <3>1
    <3>2. CASE offset # Outside
      <4>1. ReadCells(m, a, offset, Len(given)) =
            ReadCells(memory, array, offset, Len(given))
        BY <1>0, <2>1, <3>2, SourceFollows DEF ArrayInv
      <4> QED
        BY <2>2, <3>2, <4>1
    <3> QED
      BY <3>1, <3>2
  <2>4. /\ MemoryOK(t) /\ ArrayOK(t, a, size + Len(given), c) /\ Keeps(m, a, t, a)
        /\ \A i \in 1 .. size + Len(given) :
              t.blocks[a][i] = IF i <= size THEN m.blocks[a][i] ELSE given[i - size]
    BY <2>1, AppendedCells
  <2>5. /\ memory' = t /\ array' = a /\ size' = size + Len(given) /\ capacity' = c
        /\ o.status = "OK"
    BY <1>1, <1>4, <2>3 DEF m, a, c
  <2> HIDE DEF t
  <2>6. ArrayInv' /\ Keeps(memory, array, memory', array')
    BY <1>0, <2>1, <2>4, <2>5, KeepsOn DEF ArrayInv
  <2>7. /\ 0 \in Nat /\ size + 0 <= size
        /\ size' = size - 0 + Len(given)
        /\ Edited(memory, array, memory', array', size', size, 0, given)
    BY <1>0, <2>1, <2>4, <2>5 DEF Edited
  <2>8. Contents' = Abstract!Replaced(Contents, size, 0, given)
    BY <1>0, <2>6, <2>7, ReplacedContents
  <2> QED
    BY <1>0, <1>1, <2>5, <2>6, <2>8 DEF CallOK, Abstract!Effect, Abstract!Appends
<1> QED
  BY <1>2, <1>3, <1>4

LEMMA AppendOK ==
  ASSUME ArrayInv, NEW given \in Givens, Append_(given)
  PROVE  CallOK
<1>1. given \in Seq(Cells) /\ Len(given) # 0
  BY ArrayAssumption DEF ArrayAssumption, Givens, Cells
<1> QED
  BY <1>1, AppendFromOK DEF Append_

\* What an alias held when the call was made.
LEMMA AliasCells ==
  ASSUME ArrayInv, NEW s \in Inside, Alias(s)
  PROVE  LET given == ReadCells(memory, array, s.offset, s.n)
         IN  /\ given \in Seq(Cells) /\ Len(given) = s.n /\ s.n # 0
             /\ s.offset \in Nat /\ s.offset + s.n <= size
<1>1. /\ s.offset \in Nat /\ s.n \in Nat \ {0}
      /\ s.offset <= size /\ s.n <= size - s.offset /\ size \in Nat
  BY ArrayTypes, ArrayAssumption DEF Inside, Alias, ArrayAssumption
<1> QED
  BY <1>1, ReadElements DEF ArrayInv

LEMMA AppendSelfOK ==
  ASSUME ArrayInv, NEW s \in Inside, AppendSelf(s)
  PROVE  CallOK
<1> DEFINE given == ReadCells(memory, array, s.offset, s.n)
<1>1. Alias(s) /\ AppendFrom(given, s.offset)
  BY DEF AppendSelf
<1>2. /\ given \in Seq(Cells) /\ Len(given) = s.n /\ Len(given) # 0
      /\ s.offset \in Nat /\ s.offset + Len(given) <= size
  BY <1>1, AliasCells
<1>3. given = ReadCells(memory, array, s.offset, Len(given))
  BY <1>2
<1> HIDE DEF given
<1> QED
  BY <1>1, <1>2, <1>3, AppendFromOK

\* The tail moves up, and the elements go in.
LEMMA InsertedCells ==
  ASSUME NEW m, MemoryOK(m), NEW a, NEW k \in Nat, NEW c, ArrayOK(m, a, k, c),
         NEW index \in Nat, index <= k,
         NEW cells \in Seq(Cells), Len(cells) # 0, k + Len(cells) <= c
  PROVE  LET up == Write(m, a, index + Len(cells), ReadCells(m, a, index, k - index))
             t == Write(up, a, index, cells)
         IN  /\ MemoryOK(t) /\ ArrayOK(t, a, k + Len(cells), c) /\ Keeps(m, a, t, a)
             /\ Edited(m, a, t, a, k + Len(cells), index, 0, cells)
<1> DEFINE len == Len(cells)
           n == k + len
           tail == ReadCells(m, a, index, k - index)
           up == Write(m, a, index + len, tail)
           t == Write(up, a, index, cells)
<1>1. /\ len \in Nat \ {0} /\ c \in Nat /\ n \in 0 .. c /\ k \in 0 .. c /\ a # Null
      /\ \A i \in 1 .. k : m.blocks[a][i] \in Cells
      /\ \A i \in 1 .. len : cells[i] \in Cells
      /\ a = Null \/ a \in Addresses
  BY DEF ArrayOK, Movable
<1>2. cells \in Seq(AllCells)
  BY DEF AllCells
<1>3. /\ tail \in Seq(Cells) /\ tail \in Seq(AllCells) /\ Len(tail) = k - index
      /\ \A i \in 1 .. k - index : tail[i] = m.blocks[a][index + i]
  <2>1. k - index \in Nat /\ index + (k - index) <= k
    OBVIOUS
  <2>2. /\ tail \in Seq(Cells) /\ Len(tail) = k - index
        /\ \A i \in 1 .. k - index : tail[i] = m.blocks[a][index + i]
    BY <2>1, ReadElements
  <2> HIDE DEF tail
  <2>3. tail \in Seq(AllCells)
    BY <2>2 DEF AllCells
  <2> QED
    BY <2>2, <2>3
<1> HIDE DEF tail
<1>4. \A i \in 1 .. k : OverCell(m, a, index + len, tail, i) \in Cells
  BY <1>1, <1>3 DEF OverCell
<1>5. /\ MemoryOK(up) /\ ArrayOK(up, a, k, c) /\ Keeps(m, a, up, a)
      /\ \A i \in 1 .. c : up.blocks[a][i] = OverCell(m, a, index + len, tail, i)
  <2>1. /\ index + len \in Nat /\ tail \in Seq(AllCells)
        /\ a # Null /\ k \in 0 .. c
    BY <1>1, <1>3
  <2> HIDE DEF len
  <2> QED
    BY <1>4, <2>1, WrittenArray
<1> HIDE DEF up
<1>6. ASSUME NEW j \in 1 .. n
      PROVE  OverCell(up, a, index, cells, j) =
                IF j <= index THEN m.blocks[a][j] ELSE IF j <= index + len THEN cells[j - index]
                ELSE m.blocks[a][j - len + 0]
  <2>0. j \in 1 .. c
    BY <1>1
  <2>1. CASE j <= index
    BY <1>1, <1>5, <2>0, <2>1 DEF OverCell
  <2>2. CASE ~(j <= index) /\ j <= index + len
    BY <1>1, <2>2 DEF OverCell
  <2>3. CASE ~(j <= index + len)
    <3>1. /\ j - (index + len) \in 1 .. Len(tail) /\ ~(j - index \in 1 .. len)
          /\ index + (j - (index + len)) = j - len + 0
      BY <1>1, <1>3, <2>3
    <3>2. up.blocks[a][j] = tail[j - (index + len)]
      BY <1>5, <2>0, <3>1 DEF OverCell
    <3>3. tail[j - (index + len)] = m.blocks[a][index + (j - (index + len))]
      BY <1>3, <3>1
    <3> QED
      BY <1>1, <2>3, <3>1, <3>2, <3>3 DEF OverCell
  <2> QED
    BY <2>1, <2>2, <2>3
<1>7. \A j \in 1 .. n : OverCell(up, a, index, cells, j) \in Cells
  <2> TAKE j \in 1 .. n
  <2>1. j <= index => m.blocks[a][j] \in Cells
    BY <1>1
  <2>2. ~(j <= index) /\ j <= index + len => cells[j - index] \in Cells
    BY <1>1
  <2>3. ~(j <= index + len) => m.blocks[a][j - len + 0] \in Cells
    BY <1>1
  <2> QED
    BY <1>6, <2>1, <2>2, <2>3
<1>8. /\ MemoryOK(t) /\ ArrayOK(t, a, n, c) /\ Keeps(up, a, t, a)
      /\ \A j \in 1 .. c : t.blocks[a][j] = OverCell(up, a, index, cells, j)
  BY <1>1, <1>2, <1>5, <1>7, WrittenArray
<1> HIDE DEF t
<1>9. Edited(m, a, t, a, n, index, 0, cells)
  BY <1>1, <1>6, <1>8 DEF Edited
<1>10. Keeps(m, a, t, a)
  BY <1>1, <1>5, <1>8, KeepsOn
<1> QED
  BY <1>8, <1>9, <1>10 DEF t, up, tail

\* The copy that an insert from the array itself makes of its source.
CopyOK(m, copy, given) ==
    /\ Movable(m, copy) /\ copy # array
    /\ Len(m.blocks[copy]) = Len(given)
    /\ \A i \in 1 .. Len(given) : m.blocks[copy][i] = given[i]

\* In memory m, with a copy or without one: u is the memory before the copy
\* is released.
LEMMA InsertFromOK ==
  ASSUME NEW m, MemoryOK(m), ArrayOK(m, array, size, capacity),
         NEW index \in Nat, index <= size, NEW given \in Seq(Cells), Len(given) # 0,
         NEW copy, copy = Null \/ CopyOK(m, copy, given),
         InsertFrom(m, index, given, copy)
  PROVE  \E u :
            /\ memory' = Freed(u, copy)
            /\ \/ /\ u = m /\ array' = array /\ size' = size /\ capacity' = capacity
                  /\ call'.status # "OK"
               \/ /\ MemoryOK(u) /\ ArrayOK(u, array', size', capacity')
                  /\ Keeps(m, array, u, array')
                  /\ size' = size + Len(given)
                  /\ Edited(m, array, u, array', size', index, 0, given)
                  /\ call' = [op |-> "insert", index |-> index, given |-> given,
                              taken |-> << >>, status |-> "OK"]
<1>0. /\ size \in Nat /\ Len(given) \in Nat \ {0}
      /\ array = Null \/ array \in Addresses
  BY DEF ArrayOK, Movable
<1>1. PICK o \in Reserve(m, size + Len(given)) :
        /\ call' = [op |-> "insert", index |-> index, given |-> given, taken |-> << >>,
                    status |-> o.status]
        /\ array' = o.array /\ capacity' = o.capacity
        /\ IF o.status = "OK"
           THEN LET cells == IF copy = Null THEN given
                             ELSE ReadCells(o.m, copy, 0, Len(given))
                IN /\ memory' = Inserted(o, index, given, cells, copy)
                   /\ size' = size + Len(given)
           ELSE memory' = FailedInsert(o, copy) /\ size' = size
  BY DEF InsertFrom, Returned
<1>2. \/ o.status # "OK" /\ o = Unreserved(m, o.status)
      \/ /\ o.status = "OK" /\ size + Len(given) <= o.capacity
         /\ MemoryOK(o.m) /\ ArrayOK(o.m, o.array, size, o.capacity)
         /\ Keeps(m, array, o.m, o.array)
         /\ \A i \in 1 .. size : o.m.blocks[o.array][i] = m.blocks[array][i]
  BY <1>0, <1>1, ReserveOK
<1>3. CASE o.status # "OK" /\ o = Unreserved(m, o.status)
  BY <1>1, <1>3 DEF Unreserved, FailedInsert
<1>4. CASE /\ o.status = "OK" /\ size + Len(given) <= o.capacity
           /\ MemoryOK(o.m) /\ ArrayOK(o.m, o.array, size, o.capacity)
           /\ Keeps(m, array, o.m, o.array)
           /\ \A i \in 1 .. size : o.m.blocks[o.array][i] = m.blocks[array][i]
  <2> DEFINE r == o.m
             a == o.array
             c == o.capacity
             read == ReadCells(r, copy, 0, Len(given))
             up == Write(r, a, index + Len(given), ReadCells(r, a, index, size - index))
             u == Write(up, a, index, given)
  <2>1. /\ MemoryOK(r) /\ ArrayOK(r, a, size, c) /\ size + Len(given) <= c
        /\ Keeps(m, array, r, a)
        /\ \A i \in 1 .. size : r.blocks[a][i] = m.blocks[array][i]
        /\ array' = a /\ capacity' = c /\ size' = size + Len(given)
    BY <1>1, <1>4
  <2>2. memory' = Freed(Write(up, a, index, IF copy = Null THEN given ELSE read), copy)
    BY <1>1, <1>4 DEF Inserted
  <2> HIDE DEF r, a, c, read
  <2>3. copy # Null => read = given
    <3> SUFFICES ASSUME copy # Null
                 PROVE  read = given
      OBVIOUS
    <3>1. CopyOK(m, copy, given)
      OBVIOUS
    <3>2. copy # a
      BY <2>1, <3>1 DEF Keeps, CopyOK, Unused, Movable
    <3>3. r.blocks[copy] = m.blocks[copy]
      BY <2>1, <3>1, <3>2 DEF Keeps, CopyOK, Movable
    <3>4. /\ Len(r.blocks[copy]) = Len(given)
          /\ \A i \in 1 .. Len(given) : r.blocks[copy][i] = given[i]
      BY <3>1, <3>3 DEF CopyOK
    <3>5. read = [i \in 1 .. Len(given) |-> r.blocks[copy][i]]
      BY <1>0, <3>4 DEF read, ReadCells, CellsAt
    <3>6. given = [i \in 1 .. Len(given) |-> given[i]]
      OBVIOUS
    <3> QED
      BY <3>4, <3>5, <3>6
  <2>4. memory' = Freed(u, copy)
    BY <2>2, <2>3
  <2>5. /\ MemoryOK(u) /\ ArrayOK(u, a, size + Len(given), c) /\ Keeps(r, a, u, a)
        /\ Edited(r, a, u, a, size + Len(given), index, 0, given)
    BY <1>0, <2>1, InsertedCells
  <2> HIDE DEF u, up
  <2>6. Keeps(m, array, u, a)
    BY <1>0, <2>1, <2>5, KeepsOn
  <2>7. Edited(m, array, u, a, size + Len(given), index, 0, given)
    <3> SUFFICES ASSUME NEW j \in 1 .. size + Len(given)
                 PROVE  u.blocks[a][j] =
                           IF j <= index THEN m.blocks[array][j]
                           ELSE IF j <= index + Len(given) THEN given[j - index]
                           ELSE m.blocks[array][j - Len(given) + 0]
      BY DEF Edited
    <3>1. u.blocks[a][j] =
             IF j <= index THEN r.blocks[a][j]
             ELSE IF j <= index + Len(given) THEN given[j - index]
             ELSE r.blocks[a][j - Len(given) + 0]
      BY <2>5 DEF Edited
    <3>2. j <= index => j \in 1 .. size
      BY <1>0
    <3>3. ~(j <= index) /\ ~(j <= index + Len(given)) => j - Len(given) + 0 \in 1 .. size
      BY <1>0
    <3> QED
      BY <2>1, <3>1, <3>2, <3>3
  <2> QED
    BY <1>1, <1>4, <2>1, <2>4, <2>5, <2>6, <2>7
<1> QED
  BY <1>2, <1>3, <1>4

LEMMA InsertEffect ==
  ASSUME ArrayInv, ArrayInv', NEW index \in Nat, index <= size,
         NEW given \in Seq(Cells), size' = size + Len(given),
         Edited(memory, array, memory', array', size', index, 0, given),
         Keeps(memory, array, memory', array'),
         call' = [op |-> "insert", index |-> index, given |-> given, taken |-> << >>,
                  status |-> "OK"]
  PROVE  CallOK
<1>1. size \in Nat /\ Len(Contents) = size /\ \A i \in DOMAIN given : given[i] # Junk
  BY ArrayTypes, CellsAre
<1>2. index + 0 <= size /\ 0 \in Nat /\ size' = size - 0 + Len(given)
  BY <1>1
<1>3. Contents' = Abstract!Replaced(Contents, index, 0, given)
  BY <1>2, ReplacedContents
<1> QED
  BY <1>1, <1>3 DEF CallOK, Abstract!Effect, Abstract!Inserts

LEMMA InsertOK ==
  ASSUME ArrayInv, NEW given \in Givens, NEW index \in 0 .. size, Insert(index, given)
  PROVE  CallOK
<1>1. given \in Seq(Cells) /\ Len(given) # 0
  BY ArrayAssumption DEF ArrayAssumption, Givens, Cells
<1>2. index \in Nat /\ index <= size
  BY ArrayTypes
<1>3. PICK u :
        /\ memory' = Freed(u, Null)
        /\ \/ /\ u = memory /\ array' = array /\ size' = size /\ capacity' = capacity
              /\ call'.status # "OK"
           \/ /\ MemoryOK(u) /\ ArrayOK(u, array', size', capacity')
              /\ Keeps(memory, array, u, array')
              /\ size' = size + Len(given)
              /\ Edited(memory, array, u, array', size', index, 0, given)
              /\ call' = [op |-> "insert", index |-> index, given |-> given,
                          taken |-> << >>, status |-> "OK"]
  BY <1>1, <1>2, InsertFromOK DEF ArrayInv, Insert
<1>4. memory' = u
  BY <1>3 DEF Freed
<1> QED
  BY <1>1, <1>2, <1>3, <1>4, FailedOK, InsertEffect DEF ArrayInv

\* Between m and w only the block of the copy came into use.
CopyIn(m, w, copy) ==
    /\ copy \in Unused(m) /\ w.maps = m.maps /\ w.arenas = m.arenas
    /\ \A x \in Addresses : x # copy => w.blocks[x] = m.blocks[x]

\* The copy of a source in the array is made.
LEMMA CopyMade ==
  ASSUME NEW m, MemoryOK(m), ArrayOK(m, array, size, capacity), array # Null,
         NEW given \in Seq(Cells), NEW n \in Nat \ {0}, Len(given) = n,
         NEW c \in Reallocs(m, Null, n), c.p # Null
  PROVE  LET w == Write(c.m, c.p, 0, given)
         IN  /\ MemoryOK(w) /\ ArrayOK(w, array, size, capacity)
             /\ CopyIn(m, w, c.p) /\ CopyOK(w, c.p, given)
<1> DEFINE t == c.m
           p == c.p
           start == 0
           w == Write(t, p, start, given)
<1>1. /\ p \in Unused(m) /\ MemoryOK(t)
      /\ Blocks(m, t, [m.blocks EXCEPT ![p] = Filled(n, Junk)])
  <2>1. c \in Mallocs(m, n, Junk) /\ c # Failure(m) /\ Junk \in AllCells
    BY DEF Reallocs, Failure, AllCells
  <2> QED
    BY <2>1, MallocOK
<1>2. /\ p \in Addresses /\ m.blocks[p] = << >> /\ p \notin m.arenas /\ p # array
  BY <1>1 DEF Unused, MemoryOK, Placed, ArrayOK, Movable
<1> HIDE DEF t, p
<1>3. /\ t.blocks[p] = Filled(n, Junk) /\ t.maps = m.maps /\ t.arenas = m.arenas
      /\ \A x \in Addresses : x # p => t.blocks[x] = m.blocks[x]
  BY <1>1, <1>2 DEF Blocks, MemoryOK, Memories
<1>4. Len(t.blocks[p]) = n /\ given \in Seq(AllCells) /\ start \in Nat
  BY <1>3 DEF Filled, AllCells
<1> HIDE DEF start
<1>5. /\ MemoryOK(w) /\ w.maps = t.maps /\ w.arenas = t.arenas
      /\ \A x \in Addresses : x # p => w.blocks[x] = t.blocks[x]
      /\ Len(w.blocks[p]) = Len(t.blocks[p])
      /\ \A i \in 1 .. Len(t.blocks[p]) : w.blocks[p][i] = OverCell(t, p, start, given, i)
  BY <1>1, <1>2, <1>4, WriteOK
<1> HIDE DEF w
<1>6. \A i \in 1 .. n : w.blocks[p][i] = given[i]
  BY <1>4, <1>5 DEF OverCell, start
<1>7. w.blocks[p] # << >>
  BY <1>2, <1>4, <1>5, Lengths DEF MemoryOK, Memories
<1>8. CopyOK(w, p, given)
  BY <1>2, <1>3, <1>4, <1>5, <1>6, <1>7 DEF CopyOK, Movable
<1>9. CopyIn(m, w, p)
  BY <1>1, <1>3, <1>5 DEF CopyIn
<1>10. ArrayOK(w, array, size, capacity)
  BY <1>2, <1>9 DEF ArrayOK, Movable, CopyIn
<1> QED
  BY <1>5, <1>8, <1>9, <1>10 DEF w, t, p, start

\* And released: the copy leaves nothing behind.
LEMMA CopyReleased ==
  ASSUME NEW m, MemoryOK(m), ArrayOK(m, array, size, capacity), array # Null,
         NEW w, NEW copy, CopyIn(m, w, copy), NEW given, CopyOK(w, copy, given),
         NEW u, MemoryOK(u), NEW b, NEW k, NEW c, ArrayOK(u, b, k, c), Keeps(w, array, u, b)
  PROVE  LET t == Freed(u, copy)
         IN  /\ MemoryOK(t) /\ ArrayOK(t, b, k, c) /\ Keeps(m, array, t, b)
             /\ b # Null => t.blocks[b] = u.blocks[b]
<1> DEFINE t == Freed(u, copy)
<1>1. /\ copy \in Addresses /\ copy # array /\ array \in Addresses
      /\ w.blocks[copy] # << >> /\ copy \notin w.arenas
      /\ m.blocks[copy] = << >>
  BY DEF CopyOK, Movable, ArrayOK, CopyIn, Unused
<1>2. copy # b
  BY <1>1, LeakAssumption DEF LeakAssumption, Keeps, Unused
<1>3. Movable(u, copy)
  BY <1>1, <1>2 DEF Movable, Keeps
<1>4. MemoryOK(t) /\ Blocks(u, t, [u.blocks EXCEPT ![copy] = << >>])
  BY <1>3, FreeOK
<1> HIDE DEF t
<1>5. /\ t.blocks[copy] = << >> /\ t.maps = u.maps /\ t.arenas = u.arenas
      /\ \A x \in Addresses : x # copy => t.blocks[x] = u.blocks[x]
  BY <1>1, <1>4 DEF Blocks, MemoryOK, Memories
<1>6. b # Null => b \in Addresses
  BY DEF ArrayOK, Movable
<1>7. b # Null => t.blocks[b] = u.blocks[b]
  BY <1>2, <1>5, <1>6
<1>8. ArrayOK(t, b, k, c)
  BY <1>5, <1>7 DEF ArrayOK, Movable
<1>9. Keeps(m, array, t, b)
  <2>1. t.maps = m.maps /\ t.arenas = m.arenas
    BY <1>5 DEF Keeps, CopyIn
  <2>2. \A x \in Addresses : x # array /\ x # b => t.blocks[x] = m.blocks[x]
    BY <1>1, <1>5 DEF Keeps, CopyIn
  <2>3. array # b => t.blocks[array] = << >>
    BY <1>1, <1>5 DEF Keeps
  <2>4. array # b /\ b # Null => b \in Unused(m)
    BY <1>2, <1>6 DEF Keeps, CopyIn, Unused
  <2> QED
    BY <2>1, <2>2, <2>3, <2>4 DEF Keeps
<1> QED
  BY <1>4, <1>7, <1>8, <1>9 DEF t

LEMMA InsertSelfOK ==
  ASSUME ArrayInv, NEW s \in Inside, NEW index \in 0 .. size, InsertSelf(index, s)
  PROVE  CallOK
<1> DEFINE given == ReadCells(memory, array, s.offset, s.n)
<1>1. /\ Alias(s)
      /\ \E c \in Reallocs(memory, Null, s.n) :
            IF c.p = Null
            THEN /\ Returned("insert", index, given, << >>, "OUT_OF_MEMORY")
                 /\ Untouched
            ELSE InsertFrom(Write(c.m, c.p, 0, given), index, given, c.p)
  BY DEF InsertSelf
<1>2. /\ given \in Seq(Cells) /\ Len(given) = s.n /\ s.n # 0
      /\ s.offset \in Nat /\ s.offset + s.n <= size
  BY <1>1, AliasCells
<1> HIDE DEF given
<1>3. /\ s.n \in Nat \ {0} /\ index \in Nat /\ index <= size /\ array # Null
      /\ size \in Nat
  BY <1>2, ArrayTypes
<1>4. PICK c \in Reallocs(memory, Null, s.n) :
         IF c.p = Null
         THEN /\ Returned("insert", index, given, << >>, "OUT_OF_MEMORY")
              /\ Untouched
         ELSE InsertFrom(Write(c.m, c.p, 0, given), index, given, c.p)
  BY <1>1
<1>5. CASE c.p = Null
  BY <1>4, <1>5, FailedOK DEF Returned, Untouched
<1>6. CASE c.p # Null
  <2> DEFINE copy == c.p
             w == Write(c.m, copy, 0, given)
  <2>1. /\ MemoryOK(w) /\ ArrayOK(w, array, size, capacity)
        /\ CopyIn(memory, w, copy) /\ CopyOK(w, copy, given)
    BY <1>2, <1>3, <1>6, CopyMade DEF ArrayInv
  <2>2. InsertFrom(w, index, given, copy)
    BY <1>4, <1>6
  <2> HIDE DEF w, copy
  <2>3. PICK u :
          /\ memory' = Freed(u, copy)
          /\ \/ /\ u = w /\ array' = array /\ size' = size /\ capacity' = capacity
                /\ call'.status # "OK"
             \/ /\ MemoryOK(u) /\ ArrayOK(u, array', size', capacity')
                /\ Keeps(w, array, u, array')
                /\ size' = size + Len(given)
                /\ Edited(w, array, u, array', size', index, 0, given)
                /\ call' = [op |-> "insert", index |-> index, given |-> given,
                            taken |-> << >>, status |-> "OK"]
    BY <1>2, <1>3, <2>1, <2>2, InsertFromOK
  <2>4. w.blocks[array] = memory.blocks[array]
    BY <1>3, <2>1 DEF CopyIn, CopyOK, ArrayInv, ArrayOK, Movable
  <2>5. CASE /\ u = w /\ array' = array /\ size' = size /\ capacity' = capacity
             /\ call'.status # "OK"
    <3>1. Keeps(w, array, u, array)
      BY <2>5 DEF Keeps
    <3>2. /\ MemoryOK(memory') /\ ArrayOK(memory', array, size, capacity)
          /\ Keeps(memory, array, memory', array)
          /\ memory'.blocks[array] = u.blocks[array]
      BY <1>3, <2>1, <2>3, <2>5, <3>1, CopyReleased DEF ArrayInv
    <3>3. ArrayInv'
      BY <2>5, <3>2 DEF ArrayInv
    <3>4. Contents' = Contents
      BY <2>4, <2>5, <3>2, <3>3, SameContents
    <3> QED
      BY <2>5, <3>2, <3>3, <3>4 DEF CallOK, Abstract!Effect
  <2>6. CASE /\ MemoryOK(u) /\ ArrayOK(u, array', size', capacity')
             /\ Keeps(w, array, u, array')
             /\ size' = size + Len(given)
             /\ Edited(w, array, u, array', size', index, 0, given)
             /\ call' = [op |-> "insert", index |-> index, given |-> given,
                         taken |-> << >>, status |-> "OK"]
    <3>1. /\ MemoryOK(memory') /\ ArrayOK(memory', array', size', capacity')
          /\ Keeps(memory, array, memory', array')
          /\ array' # Null => memory'.blocks[array'] = u.blocks[array']
      BY <1>3, <2>1, <2>3, <2>6, CopyReleased DEF ArrayInv
    <3>2. array' # Null
      BY <1>2, <1>3, <2>6 DEF ArrayOK
    <3>3. Edited(memory, array, memory', array', size', index, 0, given)
      BY <2>4, <2>6, <3>1, <3>2 DEF Edited
    <3>4. ArrayInv'
      BY <3>1 DEF ArrayInv
    <3> QED
      BY <1>2, <1>3, <2>6, <3>1, <3>3, <3>4, InsertEffect
  <2> QED
    BY <2>3, <2>5, <2>6
<1> QED
  BY <1>5, <1>6

\* A call that changes no element, and reports no failure.
LEMMA NothingDone ==
  ASSUME ArrayInv, Untouched, Returned("shrink", 0, << >>, << >>, "OK")
  PROVE  CallOK
<1>1. ArrayInv' /\ Keeps(memory, array, memory', array') /\ Contents' = Contents
  BY UntouchedOK DEF Untouched
<1> QED
  BY <1>1 DEF CallOK, Abstract!Effect, Returned

LEMMA RefusedOK ==
  ASSUME ArrayInv, NEW op, NEW index, Refused(op, index) \/ Missed(op)
  PROVE  CallOK
  BY FailedOK DEF Refused, Missed, Returned, Untouched

\* The block is released: there are no elements left.
LEMMA ReleasedArray ==
  ASSUME ArrayInv, memory' = Freed(memory, array), array' = Null, capacity' = 0, size' = 0
  PROVE  ArrayInv' /\ Keeps(memory, array, memory', array') /\ Contents' = << >>
<1>1. MemoryOK(memory') /\ Keeps(memory, array, memory', Null)
  <2>1. CASE array = Null
    BY <2>1 DEF ArrayInv, Freed, Keeps
  <2>2. CASE array # Null
    <3>1. Movable(memory, array) /\ array \in Addresses /\ MemoryOK(memory)
      BY <2>2 DEF ArrayInv, ArrayOK, Movable
    <3>2. MemoryOK(memory') /\ Blocks(memory, memory', [memory.blocks EXCEPT ![array] = << >>])
      BY <3>1, FreeOK
    <3> QED
      BY <3>1, <3>2 DEF Blocks, Keeps, MemoryOK, Memories
  <2> QED
    BY <2>1, <2>2
<1>2. ArrayOK(memory', Null, 0, 0)
  BY DEF ArrayOK
<1>3. Contents' = << >>
  BY DEF Contents, ReadCells
<1> QED
  BY <1>1, <1>2, <1>3 DEF ArrayInv

LEMMA ReleaseOK ==
  ASSUME ArrayInv, ShrinkEmpty \/ Deinit
  PROVE  CallOK
<1>1. CASE ShrinkEmpty
  <2>1. ArrayInv' /\ Keeps(memory, array, memory', array') /\ Contents' = << >>
    BY <1>1, ReleasedArray DEF ShrinkEmpty, Release
  <2>2. Contents = << >>
    BY <1>1 DEF ShrinkEmpty, Contents, ReadCells
  <2> QED
    BY <1>1, <2>1, <2>2 DEF CallOK, Abstract!Effect, ShrinkEmpty, Release, Returned
<1>2. CASE Deinit
  <2>1. ArrayInv' /\ Keeps(memory, array, memory', array') /\ Contents' = << >>
    BY <1>2, ReleasedArray DEF Deinit, Release
  <2> QED
    BY <1>2, <2>1 DEF CallOK, Abstract!Effect, Deinit, Release, Returned
<1> QED
  BY <1>1, <1>2

LEMMA ShrinkOK ==
  ASSUME ArrayInv, Shrink
  PROVE  CallOK
<1>1. PICK o \in Reallocs(memory, array, size) :
        IF o.p = Null
        THEN /\ Returned("shrink", 0, << >>, << >>, "OUT_OF_MEMORY")
             /\ Untouched
        ELSE /\ Returned("shrink", 0, << >>, << >>, "OK")
             /\ memory' = o.m /\ array' = o.p /\ capacity' = size
             /\ size' = size
  BY DEF Shrink
<1>2. CASE o.p = Null
  BY <1>1, <1>2, FailedOK DEF Returned, Untouched
<1>3. CASE o.p # Null
  <2>1. o # Failure(memory) /\ array # Null /\ size \in Nat \ {0}
    BY <1>3, ArrayTypes DEF Failure, Shrink
  <2>2. /\ MemoryOK(o.m) /\ ArrayOK(o.m, o.p, size, size) /\ Keeps(memory, array, o.m, o.p)
        /\ \A i \in 1 .. size : o.m.blocks[o.p][i] = memory.blocks[array][i]
    BY <1>3, <2>1, MovedArray DEF ArrayInv
  <2>3. ArrayInv'
    BY <1>1, <1>3, <2>2 DEF ArrayInv
  <2>4. Contents' = Contents
    BY <1>1, <1>3, <2>2, <2>3, SameContents
  <2> QED
    BY <1>1, <1>3, <2>2, <2>3, <2>4 DEF CallOK, Abstract!Effect, Returned
<1> QED
  BY <1>2, <1>3

LEMMA ClearOK ==
  ASSUME ArrayInv, Clear
  PROVE  CallOK
<1>1. 0 \in 0 .. size
  BY ArrayTypes
<1>2. /\ MemoryOK(memory') /\ ArrayOK(memory', array, 0, capacity)
      /\ Keeps(memory, array, memory', array)
  BY <1>1, CutArray DEF ArrayInv, Clear
<1>3. Contents' = << >>
  BY DEF Clear, Contents, ReadCells
<1> QED
  BY <1>2, <1>3 DEF CallOK, ArrayInv, Clear, Returned, Abstract!Effect

\* Cells behind the first index, and n elements fewer.
LEMMA ClosedArray ==
  ASSUME ArrayInv, NEW index \in Nat, NEW n \in Nat, n <= size,
         NEW cells \in Seq(Cells), index + Len(cells) <= size,
         NEW op, NEW given, NEW taken, Close(op, index, n, given, taken, cells)
  PROVE  /\ ArrayInv' /\ Keeps(memory, array, memory', array') /\ size' = size - n
         /\ \A i \in 1 .. size - n :
               memory'.blocks[array'][i] = OverCell(memory, array, index, cells, i)
<1> DEFINE w == Write(memory, array, index, cells)
           k == size - n
<1>0. /\ MemoryOK(memory) /\ ArrayOK(memory, array, size, capacity)
      /\ size \in Nat /\ capacity \in Nat /\ size \in 0 .. capacity /\ k \in 0 .. size
      /\ array = Null \/ array \in Addresses
  BY ArrayTypes DEF ArrayInv
<1>1. memory' = Cut(w, array, k) /\ size' = k /\ array' = array /\ capacity' = capacity
  BY DEF Close
<1>2. CASE array = Null
  <2>1. array \notin Addresses /\ size = 0
    BY <1>0, <1>2, LeakAssumption DEF LeakAssumption, ArrayOK
  <2>2. w = memory
    BY <1>0, <2>1 DEF Write, MemoryOK, Memories
  <2>3. memory' = memory /\ k = 0
    BY <1>0, <1>1, <1>2, <2>1, <2>2 DEF Cut
  <2> QED
    BY <1>0, <1>1, <2>1, <2>3, UntouchedOK
<1>3. CASE array # Null
  <2>1. cells \in Seq(AllCells) /\ \A i \in 1 .. Len(cells) : cells[i] \in Cells
    BY DEF AllCells
  <2>2. \A i \in 1 .. size : OverCell(memory, array, index, cells, i) \in Cells
    BY <1>0, <1>3, <2>1 DEF OverCell, ArrayOK
  <2>3. /\ MemoryOK(w) /\ ArrayOK(w, array, size, capacity) /\ Keeps(memory, array, w, array)
        /\ \A i \in 1 .. capacity :
              w.blocks[array][i] = OverCell(memory, array, index, cells, i)
    BY <1>0, <1>3, <2>1, <2>2, WrittenArray
  <2> HIDE DEF w
  <2>4. /\ MemoryOK(memory') /\ ArrayOK(memory', array, k, capacity)
        /\ Keeps(w, array, memory', array)
        /\ \A i \in 1 .. k : memory'.blocks[array][i] = w.blocks[array][i]
    BY <1>0, <1>1, <2>3, CutArray
  <2>5. Keeps(memory, array, memory', array)
    BY <1>0, <2>3, <2>4, KeepsOn
  <2>6. \A i \in 1 .. k : i \in 1 .. capacity
    BY <1>0
  <2> QED
    BY <1>1, <2>3, <2>4, <2>5, <2>6 DEF ArrayInv
<1> QED
  BY <1>2, <1>3

LEMMA PopOK ==
  ASSUME ArrayInv, Pop
  PROVE  CallOK
<1> DEFINE taken == <<Contents[size]>>
<1>1. size # 0 /\ Close("pop", size - 1, 1, << >>, taken, << >>)
  BY DEF Pop
<1>2. /\ size \in Nat \ {0} /\ Contents \in Seq(Cells) /\ Len(Contents) = size
      /\ \A i \in 1 .. size : Contents[i] = memory.blocks[array][i]
  BY <1>1, ArrayTypes
<1>3. /\ size - 1 \in Nat /\ 1 \in Nat /\ 1 <= size /\ << >> \in Seq(Cells)
      /\ size - 1 + Len(<< >>) <= size
  BY <1>2
<1> HIDE DEF taken
<1>4. /\ ArrayInv' /\ Keeps(memory, array, memory', array') /\ size' = size - 1
      /\ \A i \in 1 .. size - 1 :
            memory'.blocks[array'][i] = OverCell(memory, array, size - 1, << >>, i)
  BY <1>1, <1>3, ClosedArray
<1>5. \A i \in 1 .. size - 1 : memory'.blocks[array'][i] = Contents[i]
  <2>1. \A i \in 1 .. size - 1 :
           OverCell(memory, array, size - 1, << >>, i) = memory.blocks[array][i]
    BY DEF OverCell
  <2>2. \A i \in 1 .. size - 1 : i \in 1 .. size
    BY <1>2
  <2> QED
    BY <1>2, <1>4, <2>1, <2>2
<1>6. Contents' = [i \in 1 .. size - 1 |-> Contents[i]]
  <2>1. Contents' = Elements(memory', array', size')
    BY <1>4, ContentsAre DEF ArrayInv, Contents
  <2> QED
    BY <1>4, <1>5, <2>1 DEF Elements
<1>7. Contents' = Abstract!RemovesLast(Contents)
  BY <1>2, <1>6, WithoutLast
<1>8. call' = [op |-> "pop", index |-> size - 1, given |-> << >>, taken |-> taken,
               status |-> "OK"]
  BY <1>1 DEF Close, Returned
<1>9. Contents # << >> /\ taken = <<Contents[Len(Contents) - 1 + 1]>>
  BY <1>2 DEF taken
<1> QED
  BY <1>4, <1>7, <1>8, <1>9 DEF CallOK, Abstract!Effect, Abstract!HandsOut

\* The cells behind a range that is removed close up.
LEMMA ClosedUp ==
  ASSUME ArrayInv, NEW index \in Nat, NEW n \in Nat, index + n <= size,
         NEW op, NEW given, NEW taken,
         Close(op, index, n, given, taken, Tail_(index, n))
  PROVE  /\ ArrayInv' /\ Keeps(memory, array, memory', array')
         /\ Contents' = Abstract!Replaced(Contents, index, n, << >>)
<1> DEFINE tail == Tail_(index, n)
           len == size - index - n
<1>1. /\ size \in Nat /\ len \in Nat /\ index + n + len <= size /\ n <= size
      /\ index + n \in Nat
  BY ArrayTypes
<1>2. /\ tail \in Seq(Cells) /\ Len(tail) = len
      /\ \A i \in 1 .. len : tail[i] = memory.blocks[array][index + n + i]
  <2> DEFINE from == index + n
  <2>1. /\ MemoryOK(memory) /\ ArrayOK(memory, array, size, capacity)
        /\ from \in Nat /\ len \in Nat /\ from + len <= size
        /\ tail = ReadCells(memory, array, from, len)
    BY <1>1 DEF ArrayInv, Tail_
  <2> HIDE DEF from, len, tail
  <2>2. /\ tail \in Seq(Cells) /\ Len(tail) = len
        /\ \A i \in 1 .. len : tail[i] = memory.blocks[array][from + i]
    BY <2>1, ReadElements
  <2> QED
    BY <2>2 DEF from
<1> HIDE DEF tail
<1>3. index + Len(tail) <= size /\ Close(op, index, n, given, taken, tail)
  BY <1>1, <1>2 DEF tail
<1>4. /\ ArrayInv' /\ Keeps(memory, array, memory', array') /\ size' = size - n
      /\ \A i \in 1 .. size - n :
            memory'.blocks[array'][i] = OverCell(memory, array, index, tail, i)
  BY <1>1, <1>2, <1>3, ClosedArray
<1>5. ASSUME NEW j \in 1 .. size - n
      PROVE  OverCell(memory, array, index, tail, j) =
                IF j <= index THEN memory.blocks[array][j] ELSE memory.blocks[array][j + n]
  <2>1. CASE j <= index
    BY <1>1, <1>2, <2>1 DEF OverCell
  <2>2. CASE ~(j <= index)
    <3>1. j - index \in 1 .. len /\ index + n + (j - index) = j + n
      BY <1>1, <2>2
    <3> QED
      BY <1>2, <2>2, <3>1 DEF OverCell
  <2> QED
    BY <2>1, <2>2
<1> DEFINE none == << >>
<1>6. none \in Seq(Cells) /\ Len(none) = 0 /\ size' = size - n + Len(none)
  BY <1>1, <1>4
<1>7. Edited(memory, array, memory', array', size', index, n, none)
  <2> SUFFICES ASSUME NEW j \in 1 .. size - n
               PROVE  memory'.blocks[array'][j] =
                         IF j <= index THEN memory.blocks[array][j]
                         ELSE IF j <= index + Len(none) THEN none[j - index]
                         ELSE memory.blocks[array][j - Len(none) + n]
    BY <1>4 DEF Edited
  <2>1. ~(j <= index) => ~(j <= index + Len(none)) /\ j - Len(none) + n = j + n
    BY <1>1, <1>6
  <2> HIDE DEF none
  <2> QED
    BY <1>4, <1>5, <2>1
<1>8. Contents' = Abstract!Replaced(Contents, index, n, none)
  <2> HIDE DEF none
  <2> QED
    BY <1>4, <1>6, <1>7, ReplacedContents
<1> QED
  BY <1>4, <1>8

LEMMA RemoveOK ==
  ASSUME ArrayInv, NEW index \in 0 .. size, Remove(index)
  PROVE  CallOK
<1>1. /\ index < size
      /\ Close("remove", index, 1, << >>, <<Contents[index + 1]>>, Tail_(index, 1))
  BY DEF Remove
<1>2. size \in Nat /\ index \in Nat /\ index + 1 <= size /\ Len(Contents) = size
  BY <1>1, ArrayTypes
<1>3. /\ ArrayInv' /\ Keeps(memory, array, memory', array')
      /\ Contents' = Abstract!Replaced(Contents, index, 1, << >>)
  BY <1>1, <1>2, ClosedUp
<1> QED
  BY <1>1, <1>2, <1>3
  DEF CallOK, Close, Returned, Abstract!Effect, Abstract!Removes, Abstract!HandsOut

LEMMA RemoveRangeOK ==
  ASSUME ArrayInv, NEW index \in 0 .. size, NEW n \in 0 .. size, RemoveRange(index, n)
  PROVE  CallOK
<1>1. /\ index <= size /\ n <= size - index
      /\ Close("remove_range", index, n, Filled(n, Zero), << >>, Tail_(index, n))
  BY DEF RemoveRange
<1>2. /\ size \in Nat /\ index \in Nat /\ n \in Nat /\ index + n <= size
      /\ Len(Contents) = size
  BY <1>1, ArrayTypes
<1>3. /\ ArrayInv' /\ Keeps(memory, array, memory', array')
      /\ Contents' = Abstract!Replaced(Contents, index, n, << >>)
  BY <1>1, <1>2, ClosedUp
<1>4. Len(Filled(n, Zero)) = n /\ \A i \in DOMAIN Filled(n, Zero) : Filled(n, Zero)[i] # Junk
  BY <1>2, CellsAre DEF Filled
<1> QED
  BY <1>1, <1>2, <1>3, <1>4 DEF CallOK, Close, Returned, Abstract!Effect

LEMMA RemoveUnorderedOK ==
  ASSUME ArrayInv, NEW index \in 0 .. size, RemoveUnordered(index)
  PROVE  CallOK
<1> DEFINE old == Contents
           last == <<Contents[size]>>
<1>1. /\ index < size
      /\ Close("remove_unordered", index, 1, << >>, <<old[index + 1]>>, last)
  BY DEF RemoveUnordered
<1>2. /\ size \in Nat \ {0} /\ index \in Nat /\ index + 1 <= size
      /\ old \in Seq(Cells) /\ Len(old) = size
      /\ \A i \in 1 .. size : old[i] = memory.blocks[array][i]
  BY <1>1, ArrayTypes
<1>3. last \in Seq(Cells) /\ Len(last) = 1 /\ last[1] = old[size]
  BY <1>2
<1> HIDE DEF old, last
<1>4. /\ ArrayInv' /\ Keeps(memory, array, memory', array') /\ size' = size - 1
      /\ \A i \in 1 .. size - 1 :
            memory'.blocks[array'][i] = OverCell(memory, array, index, last, i)
  <2>1. 1 \in Nat /\ 1 <= size /\ index + Len(last) <= size
    BY <1>2, <1>3
  <2> QED
    BY <1>1, <1>2, <1>3, <2>1, ClosedArray
<1> DEFINE changed == [old EXCEPT ![index + 1] = old[Len(old)]]
<1>5. /\ changed \in Seq(Cells) /\ Len(changed) = size
      /\ \A j \in 1 .. size : changed[j] = IF j = index + 1 THEN old[size] ELSE old[j]
  <2>1. index + 1 \in 1 .. Len(old) /\ old[Len(old)] \in Cells
    BY <1>2
  <2> QED
    BY <1>2, <2>1, ExceptSeq
<1> HIDE DEF changed
<1>6. \A j \in 1 .. size - 1 : memory'.blocks[array'][j] = changed[j]
  <2> TAKE j \in 1 .. size - 1
  <2>1. j \in 1 .. size /\ memory.blocks[array][j] = old[j]
    BY <1>2
  <2>2. OverCell(memory, array, index, last, j) =
           IF j = index + 1 THEN old[size] ELSE memory.blocks[array][j]
    BY <1>2, <1>3 DEF OverCell
  <2> QED
    BY <1>4, <1>5, <2>1, <2>2
<1>7. Contents' = [j \in 1 .. size - 1 |-> changed[j]]
  <2>1. Contents' = Elements(memory', array', size')
    BY <1>4, ContentsAre DEF ArrayInv, Contents
  <2> QED
    BY <1>4, <1>6, <2>1 DEF Elements
<1>8. Contents' = Abstract!RemovesLast(changed)
  BY <1>2, <1>5, <1>7, WithoutLast
<1>9. call' = [op |-> "remove_unordered", index |-> index, given |-> << >>,
               taken |-> <<old[index + 1]>>, status |-> "OK"]
  BY <1>1 DEF Close, Returned
<1>10. Abstract!Effect(old, Contents', call')
  BY <1>1, <1>2, <1>8, <1>9
  DEF Abstract!Effect, Abstract!RemovesUnordered, Abstract!HandsOut, changed
<1> QED
  BY <1>4, <1>10 DEF CallOK, old

\* Every call of the array.
LEMMA ArrayCallOK ==
  ASSUME ArrayInv, ArrayNext
  PROVE  CallOK
<1>1. ASSUME NEW n \in 0 .. MaxElements, ReserveCall(n) \/ Resize(n)
      PROVE  CallOK
  BY <1>1, ReserveCallOK, ResizeOK
<1>2. ASSUME NEW given \in Givens, Append_(given) \/ \E i \in 0 .. size : Insert(i, given)
      PROVE  CallOK
  BY <1>2, AppendOK, InsertOK
<1>3. ASSUME NEW s \in Inside, AppendSelf(s) \/ \E i \in 0 .. size : InsertSelf(i, s)
      PROVE  CallOK
  BY <1>3, AppendSelfOK, InsertSelfOK
<1>4. ASSUME \/ Refused("append", 0) \/ \E i \in 0 .. size : Refused("insert", i)
             \/ \E op \in {"pop", "remove"} : Missed(op)
      PROVE  CallOK
  BY <1>4, RefusedOK
<1>5. CASE ShrinkNothing
  BY <1>5, NothingDone DEF ShrinkNothing
<1>6. CASE ShrinkEmpty \/ Deinit
  BY <1>6, ReleaseOK
<1>7. CASE Shrink \/ Clear \/ Pop
  BY <1>7, ShrinkOK, ClearOK, PopOK
<1>8. ASSUME NEW i \in 0 .. size,
             Remove(i) \/ RemoveUnordered(i) \/ \E n \in 0 .. size : RemoveRange(i, n)
      PROVE  CallOK
  BY <1>8, RemoveOK, RemoveUnorderedOK, RemoveRangeOK
<1> QED
  BY <1>1, <1>2, <1>3, <1>4, <1>5, <1>6, <1>7, <1>8 DEF ArrayNext

----------------------------------------------------------------------------
(* The rest of the program.                                                 *)

\* The array's block is left alone, and the memory stays in order.
OtherOK ==
    /\ MemoryOK(memory') /\ ArrayOK(memory', array, size, capacity)
    /\ array # Null => memory'.blocks[array] = memory.blocks[array]

\* It is enough that the array's block stays, and gets no arena.
LEMMA BlockStays ==
  ASSUME ArrayInv, NEW t,
         array # Null => t.blocks[array] = memory.blocks[array] /\ array \notin t.arenas
  PROVE  ArrayOK(t, array, size, capacity)
  BY DEF ArrayInv, ArrayOK, Movable

LEMMA MallocOther ==
  ASSUME ArrayInv, NEW n \in Nat, Malloc(n) \/ Calloc(n)
  PROVE  OtherOK
<1>1. PICK cell \in {Junk, Zero} : \E r \in Mallocs(memory, n, cell) : memory' = r.m
  BY DEF Malloc, Calloc
<1>2. PICK o \in Mallocs(memory, n, cell) : memory' = o.m
  BY <1>1
<1>3. cell \in AllCells
  BY CellsAre DEF AllCells
<1>4. CASE o = Failure(memory)
  BY <1>2, <1>4 DEF Failure, OtherOK, ArrayInv
<1>5. CASE /\ o.p \in Unused(memory) /\ MemoryOK(o.m)
           /\ Blocks(memory, o.m, [memory.blocks EXCEPT ![o.p] = Filled(n, cell)])
  <2>1. array # Null => /\ array \in Addresses /\ array # o.p
                        /\ array \notin memory.arenas
    BY <1>5 DEF ArrayInv, ArrayOK, Movable, Unused
  <2>2. array # Null => o.m.blocks[array] = memory.blocks[array] /\ array \notin o.m.arenas
    BY <1>5, <2>1 DEF Blocks, ArrayInv, MemoryOK, Memories
  <2> QED
    BY <1>2, <1>5, <2>2, BlockStays DEF OtherOK
<1> QED
  BY <1>3, <1>4, <1>5, MallocOK DEF ArrayInv

LEMMA FreeOther ==
  ASSUME ArrayInv, NEW p \in Addresses, p # array, Releasable(p), memory' = Freed(memory, p)
  PROVE  OtherOK
<1>1. /\ MemoryOK(memory')
      /\ Blocks(memory, memory', [memory.blocks EXCEPT ![p] = << >>])
  BY FreeOK DEF ArrayInv, Releasable, Movable
<1>2. array # Null => array \in Addresses /\ array \notin memory.arenas
  BY DEF ArrayInv, ArrayOK, Movable
<1>3. array # Null => memory'.blocks[array] = memory.blocks[array] /\ array \notin memory'.arenas
  BY <1>1, <1>2 DEF Blocks, ArrayInv, MemoryOK, Memories
<1> QED
  BY <1>1, <1>3, BlockStays DEF OtherOK

LEMMA ReallocOther ==
  ASSUME ArrayInv, NEW p \in Addresses, p # array, NEW n \in Nat, Realloc(p, n)
  PROVE  OtherOK
<1>1. Movable(memory, p) /\ p # Null
  BY LeakAssumption DEF LeakAssumption, Realloc, Releasable, Movable
<1>2. PICK o \in Reallocs(memory, p, n) : memory' = o.m
  BY DEF Realloc
<1>3. CASE n = 0
  BY <1>1, <1>2, <1>3, FreeOther DEF Reallocs, Realloc
<1>4. CASE n # 0
  <2>1. \/ o = Failure(memory)
        \/ /\ o.p \in Unused(memory) \cup {p} /\ MemoryOK(o.m)
           /\ Blocks(memory, o.m, [memory.blocks EXCEPT ![p] = << >>,
                                       ![o.p] = Resized_(memory.blocks[p], n)])
    BY <1>1, <1>4, ReallocOK DEF ArrayInv
  <2>2. CASE o = Failure(memory)
    BY <1>2, <2>2 DEF Failure, OtherOK, ArrayInv
  <2>3. CASE /\ o.p \in Unused(memory) \cup {p} /\ MemoryOK(o.m)
             /\ Blocks(memory, o.m, [memory.blocks EXCEPT ![p] = << >>,
                                         ![o.p] = Resized_(memory.blocks[p], n)])
    <3>1. array # Null => /\ array \in Addresses /\ array # o.p
                          /\ array \notin memory.arenas
      BY <2>3 DEF ArrayInv, ArrayOK, Movable, Unused
    <3>2. array # Null =>
             o.m.blocks[array] = memory.blocks[array] /\ array \notin o.m.arenas
      BY <2>3, <3>1 DEF Blocks, ArrayInv, MemoryOK, Memories
    <3> QED
      BY <1>2, <2>3, <3>2, BlockStays DEF OtherOK
  <2> QED
    BY <2>1, <2>2, <2>3
<1> QED
  BY <1>3, <1>4

LEMMA InitArenaOther ==
  ASSUME ArrayInv, NEW p \in Addresses, p # array, InitArena(p)
  PROVE  OtherOK
<1> DEFINE A == memory.arenas \cup {p}
           new == [memory EXCEPT !.arenas = A]
           t == memory'
<1>1. /\ memory \in Memories /\ Placed(memory) /\ Exact(memory)
      /\ memory.blocks[p] # << >> /\ p \notin memory.arenas
      /\ t \in Track(new, "arena", p, 0)
  BY DEF InitArena, Releasable, ArrayInv, MemoryOK
<1>2. /\ new \in Memories /\ new.blocks = memory.blocks /\ new.maps = memory.maps
      /\ new.arenas = A /\ new.records = memory.records /\ new.lost = memory.lost
  BY <1>1 DEF Memories
<1> HIDE DEF new, t
<1>3. t \in Memories /\ SameResources(new, t) /\ Noted(new, t, "arena", p, 0)
  BY <1>1, <1>2, TrackFields DEF Kinds
<1>4. /\ t.blocks = memory.blocks /\ t.maps = memory.maps /\ t.arenas = A
      /\ Noted(memory, t, "arena", p, 0)
  BY <1>2, <1>3 DEF SameResources, Noted
<1>5. Exact(t)
  <2>1. ~InUse(memory, "arena", p) /\ InUse(t, "arena", p) /\ SizeIn(t, "arena", p) = 0
    BY <1>1, <1>4 DEF InUse, SizeIn
  <2>2. SameBut(memory, t, "arena", p)
    BY <1>4 DEF SameBut, InUse, SizeIn
  <2> QED
    BY <1>1, <1>3, <1>4, <2>1, <2>2, NotedExact DEF Kinds
<1>6. Placed(t)
  BY <1>1, <1>4 DEF Placed
<1>7. array # Null => t.blocks[array] = memory.blocks[array] /\ array \notin t.arenas
  BY <1>4 DEF ArrayInv, ArrayOK, Movable
<1> QED
  BY <1>3, <1>5, <1>6, <1>7, BlockStays DEF OtherOK, MemoryOK, t

\* A memory from which one resource that is no block is gone.
LEMMA Untracked ==
  ASSUME ArrayInv, NEW k \in Kinds, NEW p \in Addresses, NEW maps \in [Addresses -> Nat],
         NEW arenas \in SUBSET memory.arenas,
         NEW t, t = [blocks |-> memory.blocks, maps |-> maps, arenas |-> arenas,
                     records |-> memory.records \ Find(memory, k, p),
                     lost |-> memory.lost \ {<<k, p>>}],
         \A a \in Addresses : maps[a] # 0 => memory.maps[a] # 0,
         ~InUse(t, k, p), SameBut(memory, t, k, p)
  PROVE  MemoryOK(t) /\ ArrayOK(t, array, size, capacity)
<1>1. memory \in Memories /\ Placed(memory) /\ Exact(memory)
  BY DEF ArrayInv, MemoryOK
<1>2. t \in Memories
  <2>1. /\ memory.records \ Find(memory, k, p) \in SUBSET Records
        /\ memory.lost \ {<<k, p>>} \in SUBSET (Kinds \X Addresses)
    BY <1>1, FewerTypes
  <2> QED
    BY <1>1, <2>1 DEF Memories
<1>3. Exact(t)
  BY <1>1, <1>2, UntrackedExact
<1>4. Placed(t)
  BY <1>1 DEF Placed, Memories
<1>5. array # Null => t.blocks[array] = memory.blocks[array] /\ array \notin t.arenas
  BY DEF ArrayInv, ArrayOK, Movable
<1> QED
  BY <1>2, <1>3, <1>4, <1>5, BlockStays DEF MemoryOK

LEMMA DeinitArenaOther ==
  ASSUME ArrayInv, NEW p \in Addresses, DeinitArena(p)
  PROVE  OtherOK
<1> DEFINE t == [blocks |-> memory.blocks, maps |-> memory.maps,
                 arenas |-> memory.arenas \ {p},
                 records |-> memory.records \ Find(memory, "arena", p),
                 lost |-> memory.lost \ {<<"arena", p>>}]
<1>1. memory \in Memories
  BY DEF ArrayInv, MemoryOK
<1>2. memory' = t
  BY <1>1 DEF DeinitArena, Untrack, Memories
<1>3. ~InUse(t, "arena", p) /\ SameBut(memory, t, "arena", p)
  BY DEF InUse, SizeIn, SameBut
<1>4. memory.maps \in [Addresses -> Nat] /\ memory.arenas \ {p} \in SUBSET memory.arenas
  BY <1>1 DEF Memories
<1>5. MemoryOK(t) /\ ArrayOK(t, array, size, capacity)
  BY <1>3, <1>4, Untracked DEF Kinds
<1> QED
  BY <1>2, <1>5 DEF OtherOK

LEMMA MmapUnmapOther ==
  ASSUME ArrayInv, NEW p \in Addresses, MmapUnmap(p)
  PROVE  OtherOK
<1> DEFINE maps == [memory.maps EXCEPT ![p] = 0]
           t == [blocks |-> memory.blocks, maps |-> maps, arenas |-> memory.arenas,
                 records |-> memory.records \ Find(memory, "mmap", p),
                 lost |-> memory.lost \ {<<"mmap", p>>}]
<1>1. memory \in Memories
  BY DEF ArrayInv, MemoryOK
<1>2. memory' = t
  BY <1>1 DEF MmapUnmap, Untrack, Memories
<1>3. /\ maps \in [Addresses -> Nat] /\ maps[p] = 0
      /\ \A a \in Addresses : a # p => maps[a] = memory.maps[a]
  BY <1>1 DEF Memories
<1> HIDE DEF maps
<1>4. ~InUse(t, "mmap", p) /\ SameBut(memory, t, "mmap", p)
  BY <1>3 DEF InUse, SizeIn, SameBut
<1>5. \A a \in Addresses : maps[a] # 0 => memory.maps[a] # 0
  BY <1>3
<1>6. MemoryOK(t) /\ ArrayOK(t, array, size, capacity)
  BY <1>3, <1>4, <1>5, Untracked DEF Kinds
<1> QED
  BY <1>2, <1>6 DEF OtherOK

LEMMA MmapFileOther ==
  ASSUME ArrayInv, NEW p \in Addresses, NEW n \in Nat \ {0}, MmapFile(p, n)
  PROVE  OtherOK
<1> DEFINE maps == [memory.maps EXCEPT ![p] = n]
           new == [memory EXCEPT !.maps = maps]
           t == memory'
<1>1. /\ memory \in Memories /\ Placed(memory) /\ Exact(memory)
      /\ memory.blocks[p] = << >> /\ memory.maps[p] = 0
  BY DEF MmapFile, Unused, ArrayInv, MemoryOK
<1>2. t \in Track(new, "mmap", p, n)
  BY <1>1 DEF MmapFile, Memories
<1>3. /\ maps \in [Addresses -> Nat] /\ maps[p] = n
      /\ \A a \in Addresses : a # p => maps[a] = memory.maps[a]
  BY <1>1 DEF Memories
<1> HIDE DEF maps
<1>4. /\ new \in Memories /\ new.blocks = memory.blocks /\ new.maps = maps
      /\ new.arenas = memory.arenas /\ new.records = memory.records
      /\ new.lost = memory.lost
  BY <1>1, <1>3 DEF Memories
<1> HIDE DEF new, t
<1>5. t \in Memories /\ SameResources(new, t) /\ Noted(new, t, "mmap", p, n)
  BY <1>2, <1>4, TrackFields DEF Kinds
<1>6. /\ t.blocks = memory.blocks /\ t.maps = maps /\ t.arenas = memory.arenas
      /\ Noted(memory, t, "mmap", p, n)
  BY <1>4, <1>5 DEF SameResources, Noted
<1>7. Exact(t)
  <2>1. ~InUse(memory, "mmap", p) /\ InUse(t, "mmap", p) /\ SizeIn(t, "mmap", p) = n
    BY <1>1, <1>3, <1>6 DEF InUse, SizeIn
  <2>2. SameBut(memory, t, "mmap", p)
    BY <1>3, <1>6 DEF SameBut, InUse, SizeIn
  <2> QED
    BY <1>1, <1>5, <1>6, <2>1, <2>2, NotedExact DEF Kinds
<1>8. Placed(t)
  BY <1>1, <1>3, <1>6 DEF Placed
<1>9. array # Null => t.blocks[array] = memory.blocks[array] /\ array \notin t.arenas
  BY <1>6 DEF ArrayInv, ArrayOK, Movable
<1> QED
  BY <1>5, <1>7, <1>8, <1>9, BlockStays DEF OtherOK, MemoryOK, t

LEMMA OtherCallOK ==
  ASSUME ArrayInv, OtherNext
  PROVE  ArrayInv' /\ Contents' = Contents /\ call' = call
<1>1. array' = array /\ size' = size /\ capacity' = capacity /\ call' = call
  BY DEF OtherNext
<1>2. OtherOK
  <2>0. MaxBlock \in Nat
    BY LeakAssumption DEF LeakAssumption
  <2>1. ASSUME NEW n \in 1 .. MaxBlock, Malloc(n) \/ Calloc(n)
        PROVE  OtherOK
    BY <2>0, <2>1, MallocOther
  <2>2. ASSUME NEW p \in Others,
               \/ Free(p) \/ InitArena(p) \/ DeinitArena(p)
               \/ \E n \in 0 .. MaxBlock : Realloc(p, n)
        PROVE  OtherOK
    <3>1. p \in Addresses /\ p # array
      BY DEF Others
    <3>2. Free(p) => OtherOK
      BY <3>1, FreeOther DEF Free
    <3>3. ASSUME NEW n \in 0 .. MaxBlock, Realloc(p, n)
          PROVE  OtherOK
      BY <2>0, <3>1, <3>3, ReallocOther
    <3> QED
      BY <2>2, <3>1, <3>2, <3>3, InitArenaOther, DeinitArenaOther
  <2>3. ASSUME NEW p \in Addresses, MmapUnmap(p) \/ \E n \in 1 .. MaxBlock : MmapFile(p, n)
        PROVE  OtherOK
    BY <2>0, <2>3, MmapUnmapOther, MmapFileOther
  <2> QED
    BY <2>1, <2>2, <2>3 DEF OtherNext
<1>3. ArrayInv'
  BY <1>1, <1>2 DEF ArrayInv, OtherOK
<1>4. \A i \in 1 .. size : memory'.blocks[array'][i] = memory.blocks[array][i]
  BY <1>1, <1>2, ArrayTypes DEF OtherOK
<1> QED
  BY <1>1, <1>3, <1>4, SameContents

----------------------------------------------------------------------------
(* The invariant, and what the runs check.                                  *)

LEMMA InitOK ==
  ASSUME Init
  PROVE  ArrayInv /\ Abstract!Init
<1>1. memory = Empty /\ array = Null /\ size = 0 /\ capacity = 0
  BY DEF Init, LeakInit
<1>2. /\ Empty \in Memories /\ Empty.records = {} /\ Empty.lost = {} /\ Empty.arenas = {}
      /\ \A a \in Addresses : Empty.blocks[a] = << >> /\ Empty.maps[a] = 0
  BY DEF Empty, Memories
<1>3. \A k \in Kinds, p \in Addresses : ~InUse(Empty, k, p)
  BY <1>2 DEF InUse
<1>4. Exact(Empty)
  BY <1>2, <1>3 DEF Exact, Tracked, Records
<1>5. Placed(Empty)
  BY <1>2 DEF Placed
<1>6. ArrayOK(Empty, Null, 0, 0)
  BY DEF ArrayOK
<1>7. Contents = << >>
  BY <1>1 DEF Contents, ReadCells
<1> QED
  BY <1>1, <1>2, <1>4, <1>5, <1>6, <1>7 DEF ArrayInv, MemoryOK, Abstract!Init

LEMMA ArrayStep ==
  ASSUME ArrayInv, [Next]_arrayVars
  PROVE  ArrayInv'
<1>1. CASE ArrayNext
  BY <1>1, ArrayCallOK DEF CallOK
<1>2. CASE OtherNext
  BY <1>2, OtherCallOK
<1>3. CASE UNCHANGED arrayVars
  BY <1>3 DEF arrayVars, ArrayInv
<1> QED
  BY <1>1, <1>2, <1>3 DEF Next

LEMMA ArrayInvariant == Spec => []ArrayInv
<1>1. Init => ArrayInv
  BY InitOK
<1>2. ArrayInv /\ [Next]_arrayVars => ArrayInv'
  BY ArrayStep
<1> QED
  BY <1>1, <1>2, PTL DEF Spec

\* What a call keeps is what the rest of the program holds.
LEMMA HeldSame ==
  ASSUME ArrayInv, ArrayInv', Keeps(memory, array, memory', array')
  PROVE  Held' = Held
<1>1. /\ memory'.maps = memory.maps /\ memory'.arenas = memory.arenas
      /\ \A x \in Addresses : x # array /\ x # array' => memory'.blocks[x] = memory.blocks[x]
  BY DEF Keeps
<1>2. \A x \in Addresses :
         /\ x = array => memory.maps[x] = 0 /\ x \notin memory.arenas
         /\ x = array' => memory.maps[x] = 0 /\ x \notin memory.arenas
  <2>1. array # Null => memory.blocks[array] # << >> /\ array \notin memory.arenas
    BY DEF ArrayInv, ArrayOK, Movable
  <2>2. array' # Null => memory'.blocks[array'] # << >> /\ array' \notin memory'.arenas
    BY DEF ArrayInv, ArrayOK, Movable
  <2>3. /\ \A x \in Addresses : memory.maps[x] # 0 => memory.blocks[x] = << >>
        /\ \A x \in Addresses : memory'.maps[x] # 0 => memory'.blocks[x] = << >>
    BY DEF ArrayInv, MemoryOK, Placed
  <2> QED
    BY <1>1, <2>1, <2>2, <2>3, LeakAssumption DEF LeakAssumption
<1>3. \A x \in Addresses :
         /\ x = array /\ x # array' => memory'.blocks[x] = << >>
         /\ x # array /\ x = array' => memory.blocks[x] = << >>
  BY LeakAssumption DEF LeakAssumption, Keeps, Unused
<1> DEFINE Elsewhere(m, p) ==
      {Record("heap", a, Len(m.blocks[a])) : a \in {x \in Addresses : m.blocks[x] # << >> /\ x # p}}
      \cup {Record("mmap", a, m.maps[a]) : a \in {x \in Addresses : m.maps[x] # 0 /\ x # p}}
      \cup {Record("arena", a, 0) : a \in {x \in m.arenas : x # p}}
<1>4. Held = Elsewhere(memory, array) /\ Held' = Elsewhere(memory', array')
  BY DEF Held, Live, Record
<1>5. /\ {x \in Addresses : memory'.blocks[x] # << >> /\ x # array'} =
         {x \in Addresses : memory.blocks[x] # << >> /\ x # array}
      /\ \A x \in Addresses : memory'.blocks[x] # << >> /\ x # array' =>
            memory'.blocks[x] = memory.blocks[x]
  BY <1>1, <1>3
<1>6. {x \in Addresses : memory'.maps[x] # 0 /\ x # array'} =
      {x \in Addresses : memory.maps[x] # 0 /\ x # array}
  BY <1>1, <1>2
<1>7. {x \in memory'.arenas : x # array'} = {x \in memory.arenas : x # array}
  <2>1. memory.arenas \subseteq Addresses
    BY DEF ArrayInv, MemoryOK, Memories
  <2> QED
    BY <1>1, <1>2, <2>1
<1>8. {Record("heap", a, Len(memory'.blocks[a])) :
          a \in {x \in Addresses : memory'.blocks[x] # << >> /\ x # array'}} =
      {Record("heap", a, Len(memory.blocks[a])) :
          a \in {x \in Addresses : memory.blocks[x] # << >> /\ x # array}}
  BY <1>5
<1>9. {Record("mmap", a, memory'.maps[a]) :
          a \in {x \in Addresses : memory'.maps[x] # 0 /\ x # array'}} =
      {Record("mmap", a, memory.maps[a]) :
          a \in {x \in Addresses : memory.maps[x] # 0 /\ x # array}}
  BY <1>1, <1>6
<1> QED
  BY <1>4, <1>7, <1>8, <1>9, Zenon

\* The leak report names exactly the resources in use, of their kind and size,
\* but for those whose record found no memory: after any mixture of malloc,
\* realloc and free of the array and of others, arenas inside blocks, and maps
\* (lor_leak__track and its callers in src/memory.c).
THEOREM ArrayReportExact == Spec => []ReportExact
<1>1. ArrayInv => ReportExact
  BY ExactReports DEF ArrayInv
<1> QED
  BY <1>1, ArrayInvariant, PTL

\* Every step of the array is one that array.h promises of a sequence, or
\* changes nothing it can see: a call takes the values its source held when it
\* was made, from wherever it was in the array, and a call that fails changes
\* nothing (lor_array_append_raw, lor_array_insert_raw and the rest of array.c).
THEOREM ArrayImplementsVector == Spec => ImplementsVector
<1>1. Init => Abstract!Init
  BY InitOK
<1>2. ArrayInv /\ [Next]_arrayVars => [Abstract!Next]_<<Contents, call>>
  <2> SUFFICES ASSUME ArrayInv, [Next]_arrayVars
               PROVE  [Abstract!Next]_<<Contents, call>>
    OBVIOUS
  <2>1. CASE ArrayNext
    <3>1. Abstract!Effect(Contents, Contents', call')
      BY <2>1, ArrayCallOK DEF CallOK
    <3> QED
      BY <3>1 DEF Abstract!Next
  <2>2. CASE OtherNext
    BY <2>2, OtherCallOK
  <2>3. CASE UNCHANGED arrayVars
    BY <2>3 DEF arrayVars, Contents
  <2> QED
    BY <2>1, <2>2, <2>3 DEF Next
<1> QED
  BY <1>1, <1>2, ArrayInvariant, PTL DEF Spec, ImplementsVector, Abstract!Spec

\* No call of the array leaves a block behind but the array's own: the copy of
\* a source inside it is released on each way out of lor_array_insert_raw, and
\* a block that moved is gone from where it was.
THEOREM ArrayNothingLeaked == Spec => NothingLeaked
<1>1. ArrayInv /\ ArrayInv' /\ [Next]_arrayVars => [Held' # Held => ~ArrayNext]_arrayVars
  <2> SUFFICES ASSUME ArrayInv, ArrayNext
               PROVE  Held' = Held
    OBVIOUS
  <2>1. ArrayInv' /\ Keeps(memory, array, memory', array')
    BY ArrayCallOK DEF CallOK
  <2> QED
    BY <2>1, HeldSame
<1> QED
  BY <1>1, ArrayInvariant, PTL DEF Spec, NothingLeaked
=============================================================================

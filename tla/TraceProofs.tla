---------------------------- MODULE TraceProofs ----------------------------
(***************************************************************************)
(* What holds of the tracer for every set of recorders, either buffer mode *)
(* and every buffer and record size: the types, the room kept for ends,    *)
(* that the end of a recorded zone is never lost, that the file nests as   *)
(* the program does, and that no event is unaccounted for.  The second     *)
(* part is about the texts of the command line, which share no state with  *)
(* the tracer: the help is laid out in columns, and an error shows what it *)
(* is about, for every parser.                                             *)
(***************************************************************************)
EXTENDS Trace, CliHelp,
        FiniteSetTheorems, SequenceTheorems, WellFoundedInduction, TLAPS

----------------------------------------------------------------------------
(* The inductive invariant: the types in three parts, the room reserved in  *)
(* the buffer, and how depth, suppressed, reserved and zones fit together.  *)

ProcessTypes ==
    /\ phase \in {"none", "open", "done"}
    /\ active \in Nat /\ nextId \in 1 .. MaxIds + 1
    /\ finished \in {"none", "OK", "INVALID_ARGUMENT", "SYSTEM_ERROR"}
    /\ state \in [Recorders -> States]
    /\ id \in [Recorders -> 0 .. MaxIds]
    /\ \A r \in Recorders : state[r] # "unused" => id[r] \in 1 .. nextId - 1
    /\ result \in [Recorders -> {"none", "OK", "INVALID_ARGUMENT", "SYSTEM_ERROR"}]
    /\ calls \in [Recorders -> 0 .. MaxCalls]

BufferTypes ==
    /\ failed \in BOOLEAN
    /\ output \in [Ids -> Seq(Records)]
    /\ buffer \in [Recorders -> Seq(Records)]
    /\ used \in [Recorders -> Nat]
    /\ recorded \in [Recorders -> Nat]
    /\ kept \in [Ids -> Nat]

ZoneTypes ==
    /\ depth \in [Recorders -> Nat]
    /\ suppressed \in [Recorders -> Nat] /\ reserved \in [Recorders -> Nat]
    /\ dropped \in [Recorders -> Nat]
    /\ zones \in [Recorders -> Seq(Zones)]

Room(r) == used[r] + reserved[r] * Header <= Capacity
Shape(r) ==
    /\ depth[r] = reserved[r] + suppressed[r]
    /\ Len(zones[r]) = depth[r]
    /\ \A i \in 1 .. Len(zones[r]) : zones[r][i].kept <=> i <= reserved[r]
    /\ state[r] = "closing" => suppressed[r] = 0

Inv ==
    /\ ProcessTypes /\ BufferTypes /\ ZoneTypes
    /\ \A r \in Recorders : Attached(r) => Room(r) /\ Shape(r)

LEMMA InvImplies == Inv => TypeOK /\ Reservation
  BY DEF Inv, TypeOK, Reservation, ProcessTypes, BufferTypes, ZoneTypes, Room, Shape

----------------------------------------------------------------------------
(* Sequences and sizes.                                                     *)

LEMMA FrontOfSeq ==
  ASSUME NEW S, NEW s \in Seq(S), NEW n \in 0 .. Len(s)
  PROVE  /\ SubSeq(s, 1, n) \in Seq(S)
         /\ Len(SubSeq(s, 1, n)) = n
         /\ \A i \in 1 .. n : SubSeq(s, 1, n)[i] = s[i]
  OBVIOUS

LEMMA AppendToSeq ==
  ASSUME NEW S, NEW s \in Seq(S), NEW e \in S
  PROVE  /\ Append(s, e) \in Seq(S)
         /\ Len(Append(s, e)) = Len(s) + 1
         /\ \A i \in 1 .. Len(s) : Append(s, e)[i] = s[i]
         /\ Append(s, e)[Len(s) + 1] = e
  OBVIOUS

\* One end more or less takes or frees one header.
LEMMA OneMoreEnd ==
  ASSUME NEW h \in Nat, NEW n \in Nat
  PROVE  /\ n * h \in Nat
         /\ (n + 1) * h = n * h + h
  OBVIOUS

\* lor_trace__append when it succeeds: the types are kept, and the ends
\* promised afterwards still have their room.
LEMMA AppendedBuffer ==
  ASSUME BufferTypes, NEW r \in Recorders, id[r] \in Ids,
         NEW record \in Records, NEW size \in Nat, NEW ends \in Nat,
         Appended(r, record, size, ends)
  PROVE  /\ BufferTypes'
         /\ used'[r] + ends * Header <= Capacity
         /\ \A s \in Recorders \ {r} : used'[s] = used[s]
         /\ recorded'[r] = recorded[r] + 1
<1> USE TraceAssumption DEF TraceAssumption, BufferTypes
<1>1. /\ output' \in [Ids -> Seq(Records)]
      /\ buffer' \in [Recorders -> Seq(Records)]
  <2>1. CASE UNCHANGED output /\ buffer' = [buffer EXCEPT ![r] = Append(@, record)]
    BY <2>1, AppendToSeq
  <2>2. CASE output' = FlushedOutput(r) /\ buffer' = [buffer EXCEPT ![r] = <<record>>]
    <3>1. output[id[r]] \o buffer[r] \in Seq(Records) /\ <<record>> \in Seq(Records)
      OBVIOUS
    <3> QED
      BY <2>2, <3>1 DEF FlushedOutput
  <2> QED
    BY <2>1, <2>2 DEF Appended
<1>2. PICK e \in Nat : e = ends * Header
  BY OneMoreEnd
<1>3. \/ used' = [used EXCEPT ![r] = used[r] + size] /\ size + e <= Capacity - used[r]
      \/ used' = [used EXCEPT ![r] = size] /\ size + e <= Capacity - 0
  BY <1>2 DEF Appended, Fits
<1>5. /\ used' \in [Recorders -> Nat]
      /\ used'[r] + e <= Capacity
      /\ \A s \in Recorders \ {r} : used'[s] = used[s]
  <2>1. used[r] \in Nat /\ used \in [Recorders -> Nat]
    OBVIOUS
  <2> QED
    BY ONLY <1>3, <2>1, TraceAssumption, r \in Recorders, size \in Nat, e \in Nat
    DEF TraceAssumption
<1>4. /\ recorded' \in [Recorders -> Nat] /\ kept' \in [Ids -> Nat]
      /\ recorded'[r] = recorded[r] + 1
      /\ failed' = failed
  <2>1. /\ recorded' = [recorded EXCEPT ![r] = recorded[r] + 1]
        /\ kept' = [kept EXCEPT ![id[r]] = kept[id[r]] + 1]
        /\ failed' = failed
    BY DEF Appended
  <2>2. recorded \in [Recorders -> Nat] /\ kept \in [Ids -> Nat]
    OBVIOUS
  <2> QED
    BY ONLY <2>1, <2>2, r \in Recorders, id[r] \in Ids
<1> QED
  BY <1>1, <1>2, <1>4, <1>5

\* A write that fails keeps the buffer.
LEMMA FailedFlush ==
  ASSUME BufferTypes, NEW r \in Recorders, id[r] \in Ids,
         NEW n, n <= Len(buffer[r]), n \in Int, FlushFails(r, n)
  PROVE  /\ failed' \in BOOLEAN
         /\ output' \in [Ids -> Seq(Records)]
         /\ UNCHANGED <<buffer, used>>
<1> USE DEF BufferTypes
<1>1. \A k \in 0 .. n : output[id[r]] \o SubSeq(buffer[r], 1, k) \in Seq(Records)
  <2> SUFFICES ASSUME NEW k \in 0 .. n
               PROVE  output[id[r]] \o SubSeq(buffer[r], 1, k) \in Seq(Records)
    OBVIOUS
  <2>1. SubSeq(buffer[r], 1, k) \in Seq(Records)
    BY FrontOfSeq
  <2> QED
    BY <2>1
<1> QED
  BY <1>1 DEF FlushFails

\* lor_trace__append when it fails: at most the buffer has been written.
LEMMA NotAppendedBuffer ==
  ASSUME BufferTypes, NEW r \in Recorders, id[r] \in Ids,
         NEW size \in Nat, NEW ends \in Nat, NotAppended(r, size, ends)
  PROVE  /\ BufferTypes'
         /\ used'[r] <= used[r]
         /\ \A s \in Recorders \ {r} : used'[s] = used[s]
<1> USE DEF BufferTypes
<1>0. recorded' = recorded /\ kept' = kept
  BY DEF NotAppended
<1>1. CASE UNCHANGED <<buffer, used, output, failed>>
  BY <1>0, <1>1
<1>2. CASE FlushFails(r, Len(buffer[r]) - 1)
  <2>1. Len(buffer[r]) - 1 \in Int /\ Len(buffer[r]) - 1 <= Len(buffer[r])
    OBVIOUS
  <2>2. failed' \in BOOLEAN /\ output' \in [Ids -> Seq(Records)] /\ UNCHANGED <<buffer, used>>
    BY <1>2, <2>1, FailedFlush
  <2> QED
    BY <1>0, <2>2
<1>3. CASE /\ output' = FlushedOutput(r)
           /\ buffer' = [buffer EXCEPT ![r] = << >>]
           /\ used' = [used EXCEPT ![r] = 0]
           /\ UNCHANGED failed
  <2>1. output[id[r]] \o buffer[r] \in Seq(Records) /\ << >> \in Seq(Records)
    OBVIOUS
  <2> QED
    BY <1>0, <1>3, <2>1 DEF FlushedOutput
<1> QED
  BY <1>1, <1>2, <1>3 DEF NotAppended

\* lor_trace_thread_flush, whatever becomes of it.
LEMMA StreamFlushBuffer ==
  ASSUME BufferTypes, NEW r \in Recorders, id[r] \in Ids, NEW ok \in BOOLEAN,
         StreamFlush(r, ok), recorded' = recorded, kept' = kept
  PROVE  /\ BufferTypes'
         /\ used'[r] <= used[r]
         /\ \A s \in Recorders \ {r} : used'[s] = used[s]
<1> USE DEF BufferTypes
<1>1. CASE FlushFails(r, Len(buffer[r]))
  BY <1>1, FailedFlush
<1>2. CASE failed' = TRUE /\ UNCHANGED <<buffer, used, output>>
  BY <1>2
<1>3. CASE /\ output' = FlushedOutput(r)
           /\ buffer' = [buffer EXCEPT ![r] = << >>]
           /\ used' = [used EXCEPT ![r] = 0]
           /\ UNCHANGED failed
  <2>1. output[id[r]] \o buffer[r] \in Seq(Records) /\ << >> \in Seq(Records)
    OBVIOUS
  <2> QED
    BY <1>3, <2>1 DEF FlushedOutput
<1> QED
  BY <1>1, <1>2, <1>3 DEF StreamFlush

----------------------------------------------------------------------------
(* What one recorder does leaves the invariant of the others alone.         *)

LEMMA OthersKeep ==
  ASSUME Inv, NEW r \in Recorders,
         ProcessTypes', BufferTypes', ZoneTypes',
         \A s \in Recorders \ {r} :
            /\ state'[s] = state[s] /\ used'[s] = used[s]
            /\ depth'[s] = depth[s] /\ suppressed'[s] = suppressed[s]
            /\ reserved'[s] = reserved[s] /\ zones'[s] = zones[s],
         Attached(r)' => Room(r)' /\ Shape(r)'
  PROVE  Inv'
<1> SUFFICES ASSUME NEW s \in Recorders, s # r, Attached(s)'
             PROVE  Room(s)' /\ Shape(s)'
  BY DEF Inv
<1>1. Attached(s) /\ Room(s) /\ Shape(s)
  BY DEF Inv, Attached
<1> QED
  BY <1>1 DEF Room, Shape

\* The end of a recorded zone needs no flush: it is the record the room was
\* kept for.
LEMMA EndFits ==
  ASSUME Inv, NEW r \in Recorders, Attached(r), reserved[r] # 0, suppressed[r] = 0
  PROVE  /\ Fits(EndSize, reserved[r] - 1, used[r])
         /\ EndRecord(r) \in Records
         /\ depth[r] = reserved[r] /\ zones[r] # << >>
<1> USE TraceAssumption DEF TraceAssumption, Inv, ZoneTypes, BufferTypes
<1>1. Room(r) /\ Shape(r)
  OBVIOUS
<1>2. PICK n \in Nat : reserved[r] = n + 1
  <2>1. reserved[r] \in Nat
    OBVIOUS
  <2>2. reserved[r] - 1 \in Nat /\ reserved[r] = (reserved[r] - 1) + 1
    BY ONLY <2>1, reserved[r] # 0
  <2> QED
    BY <2>2
<1>3. n * Header \in Nat /\ (n + 1) * Header = n * Header + Header
  BY OneMoreEnd
<1>4. used[r] + (n * Header + Header) <= Capacity
  BY <1>1, <1>2, <1>3 DEF Room
<1>5. Fits(EndSize, reserved[r] - 1, used[r])
  <2>1. reserved[r] - 1 = n
    BY <1>2
  <2>2. PICK e \in Nat : e = n * Header
    BY <1>3
  <2>3. used[r] \in Nat /\ Header \in Nat /\ Capacity \in Nat /\ used[r] + (e + Header) <= Capacity
    BY <1>3, <1>4, <2>2
  <2>4. Header + e <= Capacity - used[r]
    BY ONLY <2>3, e \in Nat
  <2> QED
    BY ONLY <2>1, <2>2, <2>4 DEF Fits, EndSize
<1>6. depth[r] = reserved[r] /\ Len(zones[r]) \in 1 .. Len(zones[r])
  BY <1>1 DEF Shape
<1>7. zones[r][Len(zones[r])] \in Zones
  BY <1>6
<1> QED
  BY <1>5, <1>6, <1>7 DEF EndRecord, Records, Kinds, Zones

\* So lor_trace__append succeeds, and only puts the record into the buffer.
LEMMA EndAppended ==
  ASSUME Inv, NEW r \in Recorders, Attached(r), reserved[r] # 0, suppressed[r] = 0,
         NEW ok \in BOOLEAN, TryAppend(r, EndRecord(r), EndSize, reserved[r] - 1, ok)
  PROVE  /\ ok
         /\ Appended(r, EndRecord(r), EndSize, reserved[r] - 1)
         /\ UNCHANGED <<output, failed>>
  BY EndFits DEF TryAppend, Appended, NotAppended

\* The innermost zone is left.
LEMMA ZoneLeft ==
  ASSUME Inv, NEW r \in Recorders, Attached(r), depth[r] # 0,
         zones' = [zones EXCEPT ![r] = SubSeq(@, 1, Len(@) - 1)]
  PROVE  /\ zones' \in [Recorders -> Seq(Zones)]
         /\ Len(zones'[r]) = depth[r] - 1
         /\ \A i \in 1 .. depth[r] - 1 : zones'[r][i] = zones[r][i]
<1>1. zones[r] \in Seq(Zones) /\ Len(zones[r]) = depth[r] /\ depth[r] \in Nat
  BY DEF Inv, ZoneTypes, Shape
<1>2. Len(zones[r]) - 1 \in 0 .. Len(zones[r])
  BY <1>1
<1>3. /\ SubSeq(zones[r], 1, Len(zones[r]) - 1) \in Seq(Zones)
      /\ Len(SubSeq(zones[r], 1, Len(zones[r]) - 1)) = Len(zones[r]) - 1
      /\ \A i \in 1 .. Len(zones[r]) - 1 :
            SubSeq(zones[r], 1, Len(zones[r]) - 1)[i] = zones[r][i]
  BY <1>1, <1>2, FrontOfSeq
<1> QED
  BY <1>1, <1>3 DEF Inv, ZoneTypes

\* A zone is opened inside the others.
LEMMA ZoneOpened ==
  ASSUME Inv, NEW r \in Recorders, Attached(r), NEW isKept \in BOOLEAN, Opened(r, isKept)
  PROVE  /\ zones' \in [Recorders -> Seq(Zones)]
         /\ Len(zones'[r]) = depth[r] + 1
         /\ \A i \in 1 .. depth[r] : zones'[r][i] = zones[r][i]
         /\ zones'[r][depth[r] + 1].kept = isKept
<1>1. zones[r] \in Seq(Zones) /\ Len(zones[r]) = depth[r] /\ depth[r] \in Nat
  BY DEF Inv, ZoneTypes, Shape
<1>2. [zone |-> calls[r] + 1, kept |-> isKept] \in Zones
  BY DEF Inv, ProcessTypes, Zones
<1>3. zones' = [zones EXCEPT ![r] = Append(zones[r], [zone |-> calls[r] + 1, kept |-> isKept])]
  BY DEF Opened
<1> QED
  BY <1>1, <1>2, <1>3, AppendToSeq DEF Inv, ZoneTypes

\* An event of a live recorder.
LEMMA CalledTypes ==
  ASSUME Inv, NEW r \in Recorders, Called(r)
  PROVE  /\ ProcessTypes' /\ Attached(r) /\ Attached(r)' /\ id[r] \in Ids
         /\ state[r] = "live" /\ UNCHANGED state
<1>1. state[r] = "live" /\ state' = state /\ calls[r] < MaxCalls
  BY DEF Called
<1>2. calls' \in [Recorders -> 0 .. MaxCalls]
  <2>1. calls \in [Recorders -> 0 .. MaxCalls] /\ calls' = [calls EXCEPT ![r] = calls[r] + 1]
    BY DEF Inv, ProcessTypes, Called
  <2> QED
    BY <1>1, <2>1, TraceAssumption DEF TraceAssumption
<1>3. ProcessTypes'
  BY <1>2 DEF Inv, ProcessTypes, Called
<1>4. id[r] \in 1 .. nextId - 1 /\ nextId \in 1 .. MaxIds + 1
  BY <1>1 DEF Inv, ProcessTypes
<1>5. id[r] \in Ids
  BY <1>4, TraceAssumption DEF TraceAssumption, Ids
<1> QED
  BY <1>1, <1>3, <1>5 DEF Attached

\* Where the room and the counters of an attached recorder stand.
LEMMA RoomAndShape ==
  ASSUME Inv, NEW r \in Recorders, Attached(r)
  PROVE  /\ Room(r) /\ Shape(r)
         /\ depth[r] \in Nat /\ suppressed[r] \in Nat /\ reserved[r] \in Nat
         /\ dropped[r] \in Nat /\ used[r] \in Nat
  BY DEF Inv, ZoneTypes, BufferTypes

\* lor_trace_begin.
LEMMA BeginInv ==
  ASSUME Inv, NEW r \in Recorders,
         \/ BeginSuppressed(r)
         \/ \E n \in NameSizes : BeginRecorded(r, Header + n) \/ BeginDropped(r, Header + n)
  PROVE  Inv'
<1>1. Called(r)
  BY DEF BeginSuppressed, BeginRecorded, BeginDropped
<1>2. /\ ProcessTypes' /\ Attached(r) /\ id[r] \in Ids
      /\ state[r] = "live" /\ UNCHANGED state
  BY <1>1, CalledTypes
<1>3. /\ Room(r) /\ Shape(r)
      /\ depth[r] \in Nat /\ suppressed[r] \in Nat /\ reserved[r] \in Nat
      /\ dropped[r] \in Nat /\ used[r] \in Nat
  BY <1>2, RoomAndShape
<1>4. calls[r] + 1 \in Nat
  BY DEF Inv, ProcessTypes
<1>5. CASE BeginSuppressed(r)
  <2>1. BufferTypes' /\ used' = used /\ reserved' = reserved
    BY <1>5 DEF BeginSuppressed, bufferVars, Inv, BufferTypes
  <2>2. Opened(r, FALSE)
    BY <1>5 DEF BeginSuppressed
  <2>3. /\ zones' \in [Recorders -> Seq(Zones)]
        /\ Len(zones'[r]) = depth[r] + 1
        /\ \A i \in 1 .. depth[r] : zones'[r][i] = zones[r][i]
        /\ zones'[r][depth[r] + 1].kept = FALSE
    BY <1>2, <2>2, ZoneOpened
  <2>4. /\ depth' = [depth EXCEPT ![r] = depth[r] + 1]
        /\ suppressed' = [suppressed EXCEPT ![r] = suppressed[r] + 1]
        /\ dropped' = [dropped EXCEPT ![r] = dropped[r] + 1]
        /\ \A s \in Recorders \ {r} : zones'[s] = zones[s]
    BY <1>5 DEF BeginSuppressed, Opened, Dropped, Inv, ZoneTypes
  <2>5. ZoneTypes'
    BY <1>3, <2>1, <2>3, <2>4 DEF Inv, ZoneTypes
  <2>6. Room(r)'
    BY <1>3, <2>1 DEF Room
  <2>7. Shape(r)'
    <3>1. /\ depth'[r] = depth[r] + 1 /\ suppressed'[r] = suppressed[r] + 1
          /\ reserved'[r] = reserved[r]
      BY <2>1, <2>4 DEF Inv, ZoneTypes
    <3>2. depth[r] = reserved[r] + suppressed[r] /\ Len(zones[r]) = depth[r]
      BY <1>3 DEF Shape
    <3>3. \A i \in 1 .. depth[r] : zones'[r][i].kept <=> i <= reserved[r]
      <4> SUFFICES ASSUME NEW i \in 1 .. depth[r]
                   PROVE  zones'[r][i].kept <=> i <= reserved[r]
        OBVIOUS
      <4>1. i \in 1 .. Len(zones[r])
        BY <3>2
      <4>2. zones[r][i].kept <=> i <= reserved[r]
        BY <1>3, <4>1 DEF Shape
      <4> QED
        BY <2>3, <4>2
    <3>4. \A i \in 1 .. depth[r] + 1 : zones'[r][i].kept <=> i <= reserved[r]
      <4> SUFFICES ASSUME NEW i \in 1 .. depth[r] + 1
                   PROVE  zones'[r][i].kept <=> i <= reserved[r]
        OBVIOUS
      <4>1. CASE i \in 1 .. depth[r]
        BY <3>3, <4>1
      <4>2. CASE i = depth[r] + 1
        BY <1>3, <2>3, <3>2, <4>2
      <4> QED
        BY <1>3, <4>1, <4>2
    <3> QED
      <4>1. state'[r] # "closing"
        BY <1>2
      <4>2. Len(zones'[r]) = depth'[r]
        BY <2>3, <3>1
      <4>3. depth[r] + 1 = reserved[r] + (suppressed[r] + 1)
        BY <1>3, <3>2
      <4>4. depth'[r] = reserved'[r] + suppressed'[r]
        BY <3>1, <4>3
      <4>5. \A i \in 1 .. Len(zones'[r]) : zones'[r][i].kept <=> i <= reserved'[r]
        BY <2>3, <3>1, <3>4
      <4> QED
        BY <4>1, <4>2, <4>4, <4>5 DEF Shape
  <2> QED
    BY <1>2, <2>1, <2>4, <2>5, <2>6, <2>7, OthersKeep DEF Inv, ZoneTypes
<1>6. ASSUME NEW n \in NameSizes, BeginRecorded(r, Header + n)
      PROVE  Inv'
  <2>0. Header + n \in Nat /\ [kind |-> "begin", zone |-> calls[r] + 1] \in Records
    BY <1>4, TraceAssumption DEF TraceAssumption, Records, Kinds
  <2>1. /\ BufferTypes'
        /\ used'[r] + (reserved[r] + 1) * Header <= Capacity
        /\ \A s \in Recorders \ {r} : used'[s] = used[s]
    BY <1>2, <1>3, <1>6, <2>0, AppendedBuffer DEF BeginRecorded, Inv
  <2>2. Opened(r, TRUE)
    BY <1>6 DEF BeginRecorded
  <2>3. /\ zones' \in [Recorders -> Seq(Zones)]
        /\ Len(zones'[r]) = depth[r] + 1
        /\ \A i \in 1 .. depth[r] : zones'[r][i] = zones[r][i]
        /\ zones'[r][depth[r] + 1].kept = TRUE
    BY <1>2, <2>2, ZoneOpened
  <2>4. /\ depth' = [depth EXCEPT ![r] = depth[r] + 1]
        /\ reserved' = [reserved EXCEPT ![r] = reserved[r] + 1]
        /\ suppressed' = suppressed /\ suppressed[r] = 0 /\ dropped' = dropped
        /\ \A s \in Recorders \ {r} : zones'[s] = zones[s]
    BY <1>6 DEF BeginRecorded, Opened, Inv, ZoneTypes
  <2>5. ZoneTypes'
    BY <1>3, <2>3, <2>4 DEF Inv, ZoneTypes
  <2>6. Room(r)'
    BY <2>1, <2>4 DEF Room, Inv, ZoneTypes
  <2>7. Shape(r)'
    <3>1. depth[r] = reserved[r] /\ Len(zones[r]) = depth[r]
      BY <1>3, <2>4 DEF Shape
    <3>2. depth'[r] = depth[r] + 1 /\ reserved'[r] = reserved[r] + 1 /\ suppressed'[r] = 0
      BY <2>4 DEF Inv, ZoneTypes
    <3>3. \A i \in 1 .. depth[r] : zones'[r][i].kept
      <4> SUFFICES ASSUME NEW i \in 1 .. depth[r] PROVE zones'[r][i].kept
        OBVIOUS
      <4>1. i <= reserved[r] /\ i \in 1 .. Len(zones[r])
        BY <1>3, <3>1
      <4>2. zones[r][i].kept <=> i <= reserved[r]
        BY <1>3, <4>1 DEF Shape
      <4>3. zones'[r][i] = zones[r][i]
        BY <2>3
      <4> QED
        BY <4>1, <4>2, <4>3
    <3>4. \A i \in 1 .. depth[r] + 1 : zones'[r][i].kept <=> i <= reserved[r] + 1
      <4> SUFFICES ASSUME NEW i \in 1 .. depth[r] + 1
                   PROVE  zones'[r][i].kept /\ i <= reserved[r] + 1
        OBVIOUS
      <4>1. i \in 1 .. depth[r] \/ i = depth[r] + 1
        BY <1>3
      <4> QED
        BY <1>3, <2>3, <3>1, <3>3, <4>1
    <3> QED
      BY <1>3, <2>3, <3>1, <3>2, <3>4 DEF Shape
  <2> QED
    BY <1>2, <2>1, <2>4, <2>5, <2>6, <2>7, OthersKeep DEF Inv, ZoneTypes
<1>7. ASSUME NEW n \in NameSizes, BeginDropped(r, Header + n)
      PROVE  Inv'
  <2>0. Header + n \in Nat /\ reserved[r] + 1 \in Nat
    BY <1>3, TraceAssumption DEF TraceAssumption
  <2>1. /\ BufferTypes' /\ used'[r] <= used[r]
        /\ \A s \in Recorders \ {r} : used'[s] = used[s]
    BY <1>2, <1>7, <2>0, NotAppendedBuffer DEF BeginDropped, Inv
  <2>2. Opened(r, FALSE)
    BY <1>7 DEF BeginDropped
  <2>3. /\ zones' \in [Recorders -> Seq(Zones)]
        /\ Len(zones'[r]) = depth[r] + 1
        /\ \A i \in 1 .. depth[r] : zones'[r][i] = zones[r][i]
        /\ zones'[r][depth[r] + 1].kept = FALSE
    BY <1>2, <2>2, ZoneOpened
  <2>4. /\ depth' = [depth EXCEPT ![r] = depth[r] + 1]
        /\ suppressed' = [suppressed EXCEPT ![r] = 1] /\ suppressed[r] = 0
        /\ dropped' = [dropped EXCEPT ![r] = dropped[r] + 1]
        /\ reserved' = reserved
        /\ \A s \in Recorders \ {r} : zones'[s] = zones[s]
    BY <1>7 DEF BeginDropped, Opened, Dropped, Inv, ZoneTypes
  <2>5. ZoneTypes'
    BY <1>3, <2>3, <2>4 DEF Inv, ZoneTypes
  <2>6. Room(r)'
    <3>1. PICK e \in Nat : e = reserved[r] * Header
      BY <1>3, OneMoreEnd, TraceAssumption DEF TraceAssumption
    <3>2. used'[r] \in Nat
      BY <2>1 DEF BufferTypes
    <3> QED
      BY <1>3, <2>1, <2>4, <3>1, <3>2, TraceAssumption DEF Room, TraceAssumption
  <2>7. Shape(r)'
    BY <1>2, <1>3, <2>3, <2>4 DEF Shape, Inv, ZoneTypes
  <2> QED
    BY <1>2, <2>1, <2>4, <2>5, <2>6, <2>7, OthersKeep DEF Inv, ZoneTypes
<1> QED
  BY <1>5, <1>6, <1>7

\* The end of a recorded zone leaves the room of the ends still promised.
LEMMA EndRecorded ==
  ASSUME Inv, NEW r \in Recorders, Attached(r), id[r] \in Ids,
         reserved[r] # 0, suppressed[r] = 0, UNCHANGED state, ProcessTypes',
         Appended(r, EndRecord(r), EndSize, reserved[r] - 1), dropped' = dropped,
         depth' = [depth EXCEPT ![r] = depth[r] - 1],
         reserved' = [reserved EXCEPT ![r] = reserved[r] - 1],
         suppressed' = suppressed,
         zones' = [zones EXCEPT ![r] = SubSeq(@, 1, Len(@) - 1)]
  PROVE  Inv'
<1>1. /\ Room(r) /\ Shape(r)
      /\ depth[r] \in Nat /\ suppressed[r] \in Nat /\ reserved[r] \in Nat
  BY RoomAndShape
<1>2. depth[r] = reserved[r] /\ EndRecord(r) \in Records
  BY EndFits
<1>3. EndSize \in Nat /\ reserved[r] - 1 \in Nat
  BY <1>1, TraceAssumption DEF EndSize, TraceAssumption
<1>4. /\ BufferTypes'
      /\ used'[r] + (reserved[r] - 1) * Header <= Capacity
      /\ \A s \in Recorders \ {r} : used'[s] = used[s]
  BY <1>2, <1>3, AppendedBuffer DEF Inv
<1>5. /\ zones' \in [Recorders -> Seq(Zones)]
      /\ Len(zones'[r]) = depth[r] - 1
      /\ \A i \in 1 .. depth[r] - 1 : zones'[r][i] = zones[r][i]
  BY <1>2, ZoneLeft
<1>6. ZoneTypes'
  BY <1>1, <1>2, <1>3, <1>5 DEF Inv, ZoneTypes
<1>7. Room(r)'
  BY <1>4 DEF Room, Inv, ZoneTypes
<1>8. Shape(r)'
  <2>1. /\ depth'[r] = depth[r] - 1 /\ reserved'[r] = reserved[r] - 1
        /\ suppressed'[r] = suppressed[r]
    BY DEF Inv, ZoneTypes
  <2>2. \A i \in 1 .. depth[r] - 1 : zones'[r][i].kept <=> i <= reserved[r] - 1
    <3> SUFFICES ASSUME NEW i \in 1 .. depth[r] - 1
                 PROVE  zones'[r][i].kept <=> i <= reserved[r] - 1
      OBVIOUS
    <3>1. i <= reserved[r] /\ i <= reserved[r] - 1 /\ i \in 1 .. Len(zones[r])
      BY <1>1, <1>2 DEF Shape
    <3>2. zones[r][i].kept <=> i <= reserved[r]
      BY <1>1, <3>1 DEF Shape
    <3>3. zones'[r][i] = zones[r][i]
      BY <1>5
    <3> QED
      BY <3>1, <3>2, <3>3
  <2> QED
    BY <1>1, <1>2, <1>5, <2>1, <2>2 DEF Shape
<1> QED
  BY <1>4, <1>6, <1>7, <1>8, OthersKeep DEF Inv, ZoneTypes

\* lor_trace_end.
LEMMA EndInv ==
  ASSUME Inv, NEW r \in Recorders, EndUnmatched(r) \/ EndSuppressed(r) \/ EndReserved(r)
  PROVE  Inv'
<1>1. Called(r)
  BY DEF EndUnmatched, EndSuppressed, EndReserved
<1>2. /\ ProcessTypes' /\ Attached(r) /\ id[r] \in Ids
      /\ state[r] = "live" /\ UNCHANGED state
  BY <1>1, CalledTypes
<1>3. /\ Room(r) /\ Shape(r)
      /\ depth[r] \in Nat /\ suppressed[r] \in Nat /\ reserved[r] \in Nat
      /\ dropped[r] \in Nat /\ used[r] \in Nat
  BY <1>2, RoomAndShape
<1>4. CASE EndUnmatched(r)
  <2>1. BufferTypes' /\ used' = used
    BY <1>4 DEF EndUnmatched, bufferVars, Inv, BufferTypes
  <2>2. /\ UNCHANGED <<depth, suppressed, reserved, zones>>
        /\ dropped' = [dropped EXCEPT ![r] = dropped[r] + 1]
    BY <1>4 DEF EndUnmatched, counters, Dropped
  <2>3. ZoneTypes'
    BY <1>3, <2>2 DEF Inv, ZoneTypes
  <2>4. Room(r)' /\ Shape(r)'
    BY <1>2, <1>3, <2>1, <2>2 DEF Room, Shape
  <2> QED
    BY <1>2, <2>1, <2>2, <2>3, <2>4, OthersKeep
<1>5. CASE EndSuppressed(r)
  <2>1. BufferTypes' /\ used' = used /\ reserved' = reserved
    BY <1>5 DEF EndSuppressed, bufferVars, Inv, BufferTypes
  <2>2. /\ depth[r] # 0 /\ suppressed[r] # 0
        /\ depth' = [depth EXCEPT ![r] = depth[r] - 1]
        /\ suppressed' = [suppressed EXCEPT ![r] = suppressed[r] - 1]
        /\ dropped' = [dropped EXCEPT ![r] = dropped[r] + 1]
        /\ zones' = [zones EXCEPT ![r] = SubSeq(@, 1, Len(@) - 1)]
    BY <1>5 DEF EndSuppressed, Closed, Dropped
  <2>3. /\ zones' \in [Recorders -> Seq(Zones)]
        /\ Len(zones'[r]) = depth[r] - 1
        /\ \A i \in 1 .. depth[r] - 1 : zones'[r][i] = zones[r][i]
    BY <1>2, <2>2, ZoneLeft
  <2>4. ZoneTypes'
    <3>1. depth[r] - 1 \in Nat /\ suppressed[r] - 1 \in Nat /\ dropped[r] + 1 \in Nat
      BY <1>3, <2>2
    <3>2. depth' \in [Recorders -> Nat] /\ suppressed' \in [Recorders -> Nat]
          /\ dropped' \in [Recorders -> Nat]
      BY <2>2, <3>1 DEF Inv, ZoneTypes
    <3> QED
      BY <2>1, <2>3, <3>2 DEF Inv, ZoneTypes
  <2>5. Room(r)'
    BY <1>3, <2>1 DEF Room
  <2>6. Shape(r)'
    <3>1. /\ depth'[r] = depth[r] - 1 /\ suppressed'[r] = suppressed[r] - 1
          /\ reserved'[r] = reserved[r]
      BY <2>1, <2>2 DEF Inv, ZoneTypes
    <3>2. depth[r] = reserved[r] + suppressed[r] /\ Len(zones[r]) = depth[r]
      BY <1>3 DEF Shape
    <3>3. \A i \in 1 .. depth[r] - 1 : zones'[r][i].kept <=> i <= reserved[r]
      <4> SUFFICES ASSUME NEW i \in 1 .. depth[r] - 1
                   PROVE  zones'[r][i].kept <=> i <= reserved[r]
        OBVIOUS
      <4>1. i \in 1 .. Len(zones[r])
        BY <1>3, <3>2
      <4>2. zones[r][i].kept <=> i <= reserved[r]
        BY <1>3, <4>1 DEF Shape
      <4> QED
        BY <2>3, <4>2
    <3>4. depth[r] - 1 = reserved[r] + (suppressed[r] - 1)
      BY <1>3, <3>2
    <3>5. depth'[r] = reserved'[r] + suppressed'[r] /\ Len(zones'[r]) = depth'[r]
      BY <2>3, <3>1, <3>4
    <3>6. \A i \in 1 .. Len(zones'[r]) : zones'[r][i].kept <=> i <= reserved'[r]
      BY <2>3, <3>1, <3>3
    <3>7. state'[r] # "closing"
      BY <1>2
    <3> QED
      BY <3>5, <3>6, <3>7 DEF Shape
  <2> QED
    BY <1>2, <2>1, <2>2, <2>4, <2>5, <2>6, OthersKeep DEF Inv, ZoneTypes
<1>6. CASE EndReserved(r)
  <2>1. depth[r] # 0 /\ suppressed[r] = 0 /\ reserved[r] # 0
    BY <1>3, <1>6 DEF EndReserved, Shape
  <2>2. PICK ok \in BOOLEAN :
           /\ TryAppend(r, EndRecord(r), EndSize, reserved[r] - 1, ok)
           /\ IF ok THEN UNCHANGED dropped ELSE Dropped(r)
    BY <1>6, <2>1 DEF EndReserved
  <2>3. Appended(r, EndRecord(r), EndSize, reserved[r] - 1) /\ dropped' = dropped
    BY <1>2, <2>1, <2>2, EndAppended
  <2>4. /\ depth' = [depth EXCEPT ![r] = depth[r] - 1]
        /\ reserved' = [reserved EXCEPT ![r] = reserved[r] - 1]
        /\ suppressed' = suppressed
        /\ zones' = [zones EXCEPT ![r] = SubSeq(@, 1, Len(@) - 1)]
    BY <1>6, <2>1 DEF EndReserved, Closed
  <2> QED
    BY <1>2, <2>1, <2>3, <2>4, EndRecorded
<1> QED
  BY <1>4, <1>5, <1>6

\* A call that leaves the zones alone, and does not fill the buffer further
\* than the reserved ends allow.
LEMMA SameZones ==
  ASSUME Inv, NEW r \in Recorders, Attached(r), ProcessTypes', BufferTypes',
         \A s \in Recorders \ {r} : used'[s] = used[s],
         UNCHANGED <<state, depth, suppressed, reserved, zones>>,
         \/ dropped' = dropped
         \/ dropped' = [dropped EXCEPT ![r] = dropped[r] + 1],
         used'[r] <= used[r] \/ used'[r] + reserved[r] * Header <= Capacity
  PROVE  Inv'
<1>1. /\ Room(r) /\ Shape(r) /\ reserved[r] \in Nat /\ used[r] \in Nat
      /\ dropped[r] \in Nat
  BY RoomAndShape
<1>2. ZoneTypes'
  <2>1. CASE dropped' = dropped
    BY <2>1 DEF Inv, ZoneTypes
  <2>2. CASE dropped' = [dropped EXCEPT ![r] = dropped[r] + 1]
    BY <1>1, <2>2 DEF Inv, ZoneTypes
  <2> QED
    BY <2>1, <2>2
<1>3. Room(r)'
  <2>1. PICK e \in Nat : e = reserved[r] * Header
    BY <1>1, OneMoreEnd, TraceAssumption DEF TraceAssumption
  <2>2. used'[r] \in Nat
    BY DEF BufferTypes
  <2> QED
    BY <1>1, <2>1, <2>2, TraceAssumption DEF Room, TraceAssumption
<1>4. Shape(r)'
  BY <1>1 DEF Shape
<1> QED
  BY <1>2, <1>3, <1>4, OthersKeep

\* lor_trace_instant and lor_trace_counter.
LEMMA EventInv ==
  ASSUME Inv, NEW r \in Recorders,
         \/ EventSuppressed(r)
         \/ \E n \in NameSizes : EventRecorded(r, Header + n) \/ EventDropped(r, Header + n)
  PROVE  Inv'
<1>1. Called(r)
  BY DEF EventSuppressed, EventRecorded, EventDropped
<1>2. /\ ProcessTypes' /\ Attached(r) /\ id[r] \in Ids
      /\ state[r] = "live" /\ UNCHANGED state
  BY <1>1, CalledTypes
<1>3. reserved[r] \in Nat /\ used[r] \in Nat
  BY <1>2, RoomAndShape
<1>4. CASE EventSuppressed(r)
  <2>1. BufferTypes' /\ used' = used
    BY <1>4 DEF EventSuppressed, bufferVars, Inv, BufferTypes
  <2>2. /\ UNCHANGED <<depth, suppressed, reserved, zones>>
        /\ dropped' = [dropped EXCEPT ![r] = dropped[r] + 1]
    BY <1>4 DEF EventSuppressed, counters, Dropped
  <2>3. used'[r] <= used[r] /\ \A s \in Recorders \ {r} : used'[s] = used[s]
    BY <1>3, <2>1
  <2> QED
    BY <1>2, <2>1, <2>2, <2>3, SameZones
<1>5. ASSUME NEW n \in NameSizes, EventRecorded(r, Header + n)
      PROVE  Inv'
  <2>1. Header + n \in Nat /\ [kind |-> "instant", zone |-> 0] \in Records
    BY TraceAssumption DEF TraceAssumption, Records, Kinds
  <2>2. /\ BufferTypes'
        /\ used'[r] + reserved[r] * Header <= Capacity
        /\ \A s \in Recorders \ {r} : used'[s] = used[s]
    BY <1>2, <1>3, <1>5, <2>1, AppendedBuffer DEF EventRecorded, Inv
  <2>3. UNCHANGED <<depth, suppressed, reserved, zones, dropped>>
    BY <1>5 DEF EventRecorded, counters
  <2> QED
    BY <1>2, <2>2, <2>3, SameZones
<1>6. ASSUME NEW n \in NameSizes, EventDropped(r, Header + n)
      PROVE  Inv'
  <2>1. Header + n \in Nat
    BY TraceAssumption DEF TraceAssumption
  <2>2. /\ BufferTypes' /\ used'[r] <= used[r]
        /\ \A s \in Recorders \ {r} : used'[s] = used[s]
    BY <1>2, <1>3, <1>6, <2>1, NotAppendedBuffer DEF EventDropped, Inv
  <2>3. /\ UNCHANGED <<depth, suppressed, reserved, zones>>
        /\ dropped' = [dropped EXCEPT ![r] = dropped[r] + 1]
    BY <1>6 DEF EventDropped, counters, Dropped
  <2> QED
    BY <1>2, <2>2, <2>3, SameZones
<1> QED
  BY <1>4, <1>5, <1>6

\* The id of a recorder that is in use.
LEMMA InUse ==
  ASSUME Inv, NEW r \in Recorders, state[r] # "unused"
  PROVE  id[r] \in Ids
<1>1. id[r] \in 1 .. nextId - 1 /\ nextId \in 1 .. MaxIds + 1
  BY DEF Inv, ProcessTypes
<1> QED
  BY <1>1, TraceAssumption DEF TraceAssumption, Ids

\* lor_trace_thread_flush.
LEMMA FlushInv ==
  ASSUME Inv, NEW r \in Recorders, ThreadFlush(r)
  PROVE  Inv'
<1>1. state[r] = "live" /\ Attached(r) /\ id[r] \in Ids
  BY InUse DEF ThreadFlush, Attached
<1>2. PICK ok \in BOOLEAN : StreamFlush(r, ok)
  BY DEF ThreadFlush
<1>3. UNCHANGED <<phase, active, nextId, finished, state, id, depth, suppressed, reserved,
                  recorded, dropped, result, zones, calls, kept>>
  BY DEF ThreadFlush, counters
<1>4. /\ BufferTypes' /\ used'[r] <= used[r]
      /\ \A s \in Recorders \ {r} : used'[s] = used[s]
  BY <1>1, <1>2, <1>3, StreamFlushBuffer DEF Inv
<1>5. ProcessTypes'
  BY <1>3 DEF Inv, ProcessTypes
<1> QED
  BY <1>1, <1>3, <1>4, <1>5, SameZones

\* lor_trace_thread_finish, as far as forgetting the zones that were dropped.
LEMMA FinishStartInv ==
  ASSUME Inv, NEW r \in Recorders, FinishStart(r)
  PROVE  Inv'
<1>1. state[r] = "live" /\ Attached(r)
  BY DEF FinishStart, Attached
<1>2. /\ Room(r) /\ Shape(r)
      /\ depth[r] \in Nat /\ suppressed[r] \in Nat /\ reserved[r] \in Nat
  BY <1>1, RoomAndShape
<1>3. /\ state' = [state EXCEPT ![r] = "closing"]
      /\ result' = [result EXCEPT ![r] = IF depth[r] = 0 THEN "OK" ELSE "INVALID_ARGUMENT"]
      /\ depth' = [depth EXCEPT ![r] = depth[r] - suppressed[r]]
      /\ suppressed' = [suppressed EXCEPT ![r] = 0]
      /\ zones' = [zones EXCEPT ![r] = SubSeq(zones[r], 1, Len(zones[r]) - suppressed[r])]
      /\ UNCHANGED <<phase, active, nextId, finished, id, reserved, buffer, used,
                     recorded, kept, output, failed, dropped, calls>>
  BY DEF FinishStart, bufferVars
<1>4. ProcessTypes'
  BY <1>1, <1>3 DEF Inv, ProcessTypes, States
<1>5. BufferTypes'
  BY <1>3 DEF Inv, BufferTypes
<1>6. zones[r] \in Seq(Zones) /\ Len(zones[r]) - suppressed[r] = reserved[r]
  BY <1>2 DEF Inv, ZoneTypes, Shape
<1>7. /\ SubSeq(zones[r], 1, reserved[r]) \in Seq(Zones)
      /\ Len(SubSeq(zones[r], 1, reserved[r])) = reserved[r]
      /\ \A i \in 1 .. reserved[r] : SubSeq(zones[r], 1, reserved[r])[i] = zones[r][i]
  <2>1. reserved[r] \in 0 .. Len(zones[r])
    BY <1>2, <1>6
  <2> QED
    BY <1>6, <2>1, FrontOfSeq
<1>8. /\ zones' \in [Recorders -> Seq(Zones)]
      /\ zones'[r] = SubSeq(zones[r], 1, reserved[r])
      /\ \A s \in Recorders \ {r} : zones'[s] = zones[s]
  BY <1>3, <1>6, <1>7 DEF Inv, ZoneTypes
<1>9. depth[r] - suppressed[r] = reserved[r]
  BY <1>2 DEF Shape
<1>10. ZoneTypes'
  BY <1>2, <1>3, <1>8, <1>9 DEF Inv, ZoneTypes
<1>11. Room(r)'
  BY <1>2, <1>3 DEF Room
<1>12. Shape(r)'
  <2>1. depth'[r] = reserved[r] /\ suppressed'[r] = 0 /\ reserved'[r] = reserved[r]
    BY <1>3, <1>9 DEF Inv, ZoneTypes
  <2>2. \A i \in 1 .. reserved[r] : zones'[r][i].kept <=> i <= reserved[r]
    <3> SUFFICES ASSUME NEW i \in 1 .. reserved[r]
                 PROVE  zones'[r][i].kept <=> i <= reserved[r]
      OBVIOUS
    <3>1. i \in 1 .. Len(zones[r])
      BY <1>2, <1>6
    <3>2. zones[r][i].kept <=> i <= reserved[r]
      BY <1>2, <3>1 DEF Shape
    <3> QED
      BY <1>7, <1>8, <3>2
  <2> QED
    BY <1>2, <1>7, <1>8, <2>1, <2>2 DEF Shape
<1>13. \A s \in Recorders \ {r} :
          /\ state'[s] = state[s] /\ used'[s] = used[s]
          /\ depth'[s] = depth[s] /\ suppressed'[s] = suppressed[s]
          /\ reserved'[s] = reserved[s] /\ zones'[s] = zones[s]
  BY <1>3, <1>8 DEF Inv, ZoneTypes, ProcessTypes
<1> QED
  BY <1>4, <1>5, <1>10, <1>11, <1>12, <1>13, OthersKeep

\* ... closing the recorded zones.
LEMMA FinishZoneInv ==
  ASSUME Inv, NEW r \in Recorders, FinishZone(r)
  PROVE  Inv'
<1>1. state[r] = "closing" /\ Attached(r) /\ id[r] \in Ids /\ reserved[r] # 0
  BY InUse DEF FinishZone, Attached
<1>2. Shape(r) /\ suppressed[r] = 0 /\ depth[r] = reserved[r]
  BY <1>1, RoomAndShape DEF Shape
<1>3. PICK ok \in BOOLEAN :
         /\ TryAppend(r, EndRecord(r), EndSize, reserved[r] - 1, ok)
         /\ IF ok THEN UNCHANGED dropped ELSE Dropped(r)
  BY DEF FinishZone
<1>4. Appended(r, EndRecord(r), EndSize, reserved[r] - 1) /\ dropped' = dropped
  BY <1>1, <1>2, <1>3, EndAppended
<1>5. /\ reserved' = [reserved EXCEPT ![r] = reserved[r] - 1]
      /\ depth' = [depth EXCEPT ![r] = depth[r] - 1]
      /\ zones' = [zones EXCEPT ![r] = SubSeq(@, 1, Len(@) - 1)]
      /\ UNCHANGED <<phase, active, nextId, finished, state, id, suppressed, result, calls>>
  BY <1>1, <1>2 DEF FinishZone
<1>6. ProcessTypes'
  BY <1>5 DEF Inv, ProcessTypes
<1> QED
  BY <1>1, <1>2, <1>4, <1>5, <1>6, EndRecorded

\* ... and leaving: the recorder is not attached any more.
LEMMA FinishFlushInv ==
  ASSUME Inv, NEW r \in Recorders, FinishFlush(r)
  PROVE  Inv'
<1>1. state[r] = "closing" /\ id[r] \in Ids
  BY InUse DEF FinishFlush
<1>2. PICK ok \in BOOLEAN :
         /\ StreamFlush(r, ok)
         /\ result' = IF ok THEN result ELSE [result EXCEPT ![r] = "SYSTEM_ERROR"]
  BY DEF FinishFlush
<1>3. /\ state' = [state EXCEPT ![r] = "leaving"]
      /\ depth' = [depth EXCEPT ![r] = 0]
      /\ UNCHANGED <<phase, active, nextId, finished, id, suppressed, reserved, recorded,
                     dropped, zones, calls, kept>>
  BY DEF FinishFlush
<1>4. /\ BufferTypes'
      /\ \A s \in Recorders \ {r} : used'[s] = used[s]
  BY <1>1, <1>2, <1>3, StreamFlushBuffer DEF Inv
<1>5. result' \in [Recorders -> {"none", "OK", "INVALID_ARGUMENT", "SYSTEM_ERROR"}]
  BY <1>2 DEF Inv, ProcessTypes
<1>6. ProcessTypes'
  BY <1>1, <1>3, <1>5 DEF Inv, ProcessTypes, States
<1>7. ZoneTypes'
  BY <1>3 DEF Inv, ZoneTypes
<1>8. ~Attached(r)'
  BY <1>3 DEF Inv, ProcessTypes, Attached
<1> QED
  BY <1>3, <1>4, <1>6, <1>7, <1>8, OthersKeep DEF Inv, ProcessTypes, ZoneTypes

LEMMA FinishLeaveInv ==
  ASSUME Inv, NEW r \in Recorders, FinishLeave(r)
  PROVE  Inv'
<1>1. /\ state[r] = "leaving"
      /\ state' = [state EXCEPT ![r] = "unused"]
      /\ active' = IF active = 0 THEN 0 ELSE active - 1
      /\ buffer' = [buffer EXCEPT ![r] = << >>]
      /\ used' = [used EXCEPT ![r] = 0]
      /\ UNCHANGED <<phase, failed, nextId, output, finished, id, depth, suppressed,
                     reserved, recorded, dropped, result, zones, calls, kept>>
  BY DEF FinishLeave, counters
<1>2. active' \in Nat
  BY <1>1 DEF Inv, ProcessTypes
<1>3. ProcessTypes'
  BY <1>1, <1>2 DEF Inv, ProcessTypes, States
<1>4. BufferTypes'
  BY <1>1 DEF Inv, BufferTypes
<1>5. ZoneTypes'
  BY <1>1 DEF Inv, ZoneTypes
<1>6. ~Attached(r)'
  BY <1>1 DEF Inv, ProcessTypes, Attached
<1> QED
  BY <1>1, <1>3, <1>4, <1>5, <1>6, OthersKeep DEF Inv, ProcessTypes, BufferTypes

\* lor_trace_thread_init.
LEMMA ThreadInitInv ==
  ASSUME Inv, NEW r \in Recorders, ThreadInit(r)
  PROVE  Inv'
<1>1. nextId \in Ids /\ nextId' = nextId + 1 /\ nextId \in Nat
  BY TraceAssumption DEF ThreadInit, TakesId, Ids, TraceAssumption
<1>2. /\ phase' = phase /\ finished' = finished
      /\ active' = active + 1
      /\ state' = [state EXCEPT ![r] = "live"]
      /\ id' = [id EXCEPT ![r] = nextId]
      /\ result' = [result EXCEPT ![r] = "none"]
      /\ calls' = [calls EXCEPT ![r] = 0]
  BY DEF ThreadInit
<1>3. ProcessTypes'
  <2>1. id' \in [Recorders -> 0 .. MaxIds] /\ nextId' \in 1 .. MaxIds + 1
    BY <1>1, <1>2, TraceAssumption DEF Inv, ProcessTypes, Ids, TraceAssumption
  <2>2. \A s \in Recorders : state'[s] # "unused" => id'[s] \in 1 .. nextId' - 1
    BY <1>1, <1>2, TraceAssumption DEF Inv, ProcessTypes, Ids, TraceAssumption
  <2>3. calls' \in [Recorders -> 0 .. MaxCalls]
    BY <1>2, TraceAssumption DEF Inv, ProcessTypes, TraceAssumption
  <2> QED
    BY <1>2, <2>1, <2>2, <2>3 DEF Inv, ProcessTypes, States
<1>4. /\ BufferTypes' /\ used'[r] = 0
      /\ \A s \in Recorders \ {r} : used'[s] = used[s]
  BY DEF ThreadInit, Inv, BufferTypes
<1>5. /\ ZoneTypes'
      /\ depth'[r] = 0 /\ suppressed'[r] = 0 /\ reserved'[r] = 0 /\ zones'[r] = << >>
      /\ \A s \in Recorders \ {r} :
            /\ depth'[s] = depth[s] /\ suppressed'[s] = suppressed[s]
            /\ reserved'[s] = reserved[s] /\ zones'[s] = zones[s]
  BY DEF ThreadInit, Inv, ZoneTypes
<1>6. Room(r)' /\ Shape(r)'
  BY <1>4, <1>5, TraceAssumption DEF Room, Shape, TraceAssumption
<1>7. \A s \in Recorders \ {r} : state'[s] = state[s]
  BY <1>2 DEF Inv, ProcessTypes
<1> QED
  BY <1>3, <1>4, <1>5, <1>6, <1>7, OthersKeep

\* A step that leaves every recorder alone.
LEMMA RecordersKeep ==
  ASSUME Inv, ProcessTypes', failed' \in BOOLEAN, UNCHANGED <<output, recorderVars>>
  PROVE  Inv'
<1>1. BufferTypes' /\ ZoneTypes'
  BY DEF Inv, BufferTypes, ZoneTypes, recorderVars
<1>2. ASSUME NEW s \in Recorders, Attached(s)' PROVE Room(s)' /\ Shape(s)'
  BY <1>2 DEF Inv, Attached, Room, Shape, recorderVars
<1> QED
  BY <1>1, <1>2 DEF Inv

LEMMA InitInv == Init => Inv
<1> SUFFICES ASSUME Init PROVE Inv
  OBVIOUS
<1>1. ProcessTypes /\ BufferTypes /\ ZoneTypes
  <2>1. ProcessTypes
    BY TraceAssumption DEF Init, ProcessTypes, States, TraceAssumption
  <2>2. BufferTypes
    <3>1. << >> \in Seq(Records)
      OBVIOUS
    <3> QED
      BY <3>1 DEF Init, BufferTypes
  <2>3. ZoneTypes
    <3>1. << >> \in Seq(Zones)
      OBVIOUS
    <3> QED
      BY <3>1 DEF Init, ZoneTypes
  <2> QED
    BY <2>1, <2>2, <2>3
<1>2. \A r \in Recorders : ~Attached(r)
  BY DEF Init, Attached
<1> QED
  BY <1>1, <1>2 DEF Inv

LEMMA NextInv ==
  ASSUME Inv, [Next]_vars
  PROVE  Inv'
<1>1. CASE InitFile \/ FinishRefused \/ Finish
  <2>1. ProcessTypes'
    BY <1>1 DEF InitFile, FinishRefused, Finish, Inv, ProcessTypes, recorderVars
  <2>2. failed' \in BOOLEAN /\ UNCHANGED <<output, recorderVars>>
    BY <1>1 DEF InitFile, FinishRefused, Finish, Inv, BufferTypes
  <2> QED
    BY <2>1, <2>2, RecordersKeep
<1>2. ASSUME NEW r \in Recorders, ThreadInitFails(r) PROVE Inv'
  <2>1. nextId' \in 1 .. MaxIds + 1 /\ nextId' >= nextId /\ nextId' \in Nat
    BY <1>2, TraceAssumption DEF ThreadInitFails, TakesId, Ids, TraceAssumption
  <2>2. \A s \in Recorders : state[s] # "unused" => id[s] \in 1 .. nextId' - 1
    BY <2>1, TraceAssumption DEF Inv, ProcessTypes, TraceAssumption
  <2>3. ProcessTypes'
    BY <1>2, <2>1, <2>2 DEF ThreadInitFails, Inv, ProcessTypes, recorderVars
  <2>4. failed' \in BOOLEAN /\ UNCHANGED <<output, recorderVars>>
    BY <1>2 DEF ThreadInitFails
  <2> QED
    BY <2>3, <2>4, RecordersKeep
<1>3. ASSUME NEW r \in Recorders, Record(r) PROVE Inv'
  BY <1>3, BeginInv, EndInv, EventInv DEF Record
<1>4. ASSUME NEW r \in Recorders, ThreadInit(r) \/ ThreadFlush(r) PROVE Inv'
  BY <1>4, ThreadInitInv, FlushInv
<1>5. ASSUME NEW r \in Recorders,
             FinishStart(r) \/ FinishZone(r) \/ FinishFlush(r) \/ FinishLeave(r)
      PROVE  Inv'
  BY <1>5, FinishStartInv, FinishZoneInv, FinishFlushInv, FinishLeaveInv
<1>6. CASE UNCHANGED vars
  <2>1. ProcessTypes' /\ failed' \in BOOLEAN
    BY <1>6 DEF vars, Inv, ProcessTypes, BufferTypes
  <2>2. UNCHANGED <<output, recorderVars>>
    BY <1>6 DEF vars, recorderVars
  <2> QED
    BY <2>1, <2>2, RecordersKeep
<1> QED
  BY <1>1, <1>2, <1>3, <1>4, <1>5, <1>6 DEF Next

LEMMA TraceInv == Spec => []Inv
  BY InitInv, NextInv, PTL DEF Spec

----------------------------------------------------------------------------

\* Every variable of the tracer keeps its type.
THEOREM TraceTypes == Spec => []TypeOK
<1>1. Inv => TypeOK
  BY InvImplies
<1> QED
  BY <1>1, TraceInv, PTL

\* The buffer of a recorder always has room for the end of each recorded zone
\* that is open (lor_trace__space_available holds it back), and the zones whose
\* begin was dropped are the innermost ones.
THEOREM TraceReservation == Spec => []Reservation
<1>1. Inv => Reservation
  BY InvImplies
<1> QED
  BY <1>1, TraceInv, PTL

\* One step of the property below.
EndKept(r) ==
    (Attached(r) /\ Len(zones'[r]) = Len(zones[r]) - 1 /\ zones[r][Len(zones[r])].kept)
    => recorded'[r] = recorded[r] + 1 /\ UNCHANGED <<output, failed>>

\* Only an end, and the closing of zones in lor_trace_thread_finish, leave a
\* recorded zone, and both record an end.
LEMMA StepEndKept ==
  ASSUME Inv, [Next]_vars, NEW r \in Recorders
  PROVE  EndKept(r)
<1> SUFFICES ASSUME Attached(r), Len(zones'[r]) = Len(zones[r]) - 1,
                    zones[r][Len(zones[r])].kept
             PROVE  recorded'[r] = recorded[r] + 1 /\ UNCHANGED <<output, failed>>
  BY DEF EndKept
<1>1. /\ Room(r) /\ Shape(r)
      /\ depth[r] \in Nat /\ suppressed[r] \in Nat /\ reserved[r] \in Nat
      /\ Len(zones[r]) = depth[r] /\ id[r] \in Ids
  BY RoomAndShape, InUse DEF Shape, Attached
<1>2. zones'[r] # zones[r]
  BY <1>1
<1>3. suppressed[r] = 0
  <2>1. Len(zones'[r]) \in Nat /\ Len(zones[r]) # 0
    <3>1. zones'[r] \in Seq(Zones)
      BY NextInv DEF Inv, ZoneTypes
    <3> QED
      BY <1>1, <3>1
  <2>2. Len(zones[r]) \in 1 .. Len(zones[r])
    BY <1>1, <2>1
  <2>3. Len(zones[r]) <= reserved[r]
    BY <1>1, <2>2 DEF Shape
  <2> QED
    BY <1>1, <2>3 DEF Shape
<1>4. EndReserved(r) \/ FinishZone(r)
  <2>1. CASE UNCHANGED zones
    BY <1>2, <2>1
  <2>2. ASSUME NEW s \in Recorders, s # r,
               \/ \E k \in BOOLEAN : Opened(s, k)
               \/ Closed(s) \/ FinishStart(s) \/ FinishZone(s) \/ ThreadInit(s)
        PROVE  FALSE
    BY <1>2, <2>2 DEF Opened, Closed, FinishStart, FinishZone, ThreadInit, Inv, ZoneTypes
  <2>3. ASSUME NEW k \in BOOLEAN, Opened(r, k)
        PROVE  FALSE
    BY <1>1, <2>3, ZoneOpened
  <2>4. CASE FinishStart(r)
    <3>1. zones'[r] = SubSeq(zones[r], 1, Len(zones[r]) - 0)
      BY <1>3, <2>4 DEF FinishStart, Inv, ZoneTypes
    <3> QED
      BY <1>2, <3>1 DEF Inv, ZoneTypes
  <2>5. CASE ThreadInit(r)
    BY <2>5 DEF ThreadInit, Attached
  <2>6. CASE EndSuppressed(r)
    BY <1>3, <2>6 DEF EndSuppressed
  <2>7. \/ UNCHANGED zones
        \/ EndReserved(r) \/ FinishZone(r) \/ FinishStart(r) \/ ThreadInit(r)
        \/ EndSuppressed(r) \/ \E k \in BOOLEAN : Opened(r, k)
        \/ \E s \in Recorders \ {r} :
              \/ \E k \in BOOLEAN : Opened(s, k)
              \/ Closed(s) \/ FinishStart(s) \/ FinishZone(s) \/ ThreadInit(s)
    <3>1. ASSUME NEW s \in Recorders, Record(s)
          PROVE  \/ UNCHANGED zones \/ \E k \in BOOLEAN : Opened(s, k)
                 \/ Closed(s) /\ (EndSuppressed(s) \/ EndReserved(s))
      BY <3>1 DEF Record, BeginSuppressed, BeginRecorded, BeginDropped, EndUnmatched,
                  EndSuppressed, EndReserved, EventSuppressed, EventRecorded, EventDropped
    <3>2. ASSUME NEW s \in Recorders,
                 ThreadInitFails(s) \/ ThreadFlush(s) \/ FinishFlush(s) \/ FinishLeave(s)
          PROVE  UNCHANGED zones
      BY <3>2 DEF ThreadInitFails, ThreadFlush, FinishFlush, FinishLeave, recorderVars
    <3>3. CASE InitFile \/ FinishRefused \/ Finish \/ UNCHANGED vars
      BY <3>3 DEF InitFile, FinishRefused, Finish, vars, recorderVars
    <3> QED
      BY <3>1, <3>2, <3>3 DEF Next
  <2> QED
    BY <2>1, <2>2, <2>3, <2>4, <2>5, <2>6, <2>7
<1>5. PICK ok \in BOOLEAN : TryAppend(r, EndRecord(r), EndSize, reserved[r] - 1, ok)
  <2>1. CASE EndReserved(r)
    <3>1. reserved[r] # 0
      BY <1>1, <1>3, <2>1 DEF EndReserved, Shape
    <3> QED
      BY <2>1, <3>1 DEF EndReserved
  <2>2. CASE FinishZone(r)
    BY <2>2 DEF FinishZone
  <2> QED
    BY <1>4, <2>1, <2>2
<1>6. reserved[r] # 0
  BY <1>1, <1>3, <1>4 DEF EndReserved, FinishZone, Shape
<1>7. Appended(r, EndRecord(r), EndSize, reserved[r] - 1) /\ UNCHANGED <<output, failed>>
  BY <1>3, <1>5, <1>6, EndAppended
<1> QED
  BY <1>7 DEF Appended, Inv, BufferTypes

\* The end of a zone whose begin was recorded is recorded, without touching the
\* file, however full the buffer and whatever has failed (lor_trace__end_impl
\* and lor_trace_thread_finish).
THEOREM TraceEndNeverLost == Spec => EndNeverLost
<1>1. Inv /\ [Next]_vars => [\A r \in Recorders : EndKept(r)]_vars
  BY StepEndKept
<1>2. (\A r \in Recorders : EndKept(r)) <=>
      (\A r \in Recorders :
          (Attached(r) /\ Len(zones'[r]) = Len(zones[r]) - 1 /\ zones[r][Len(zones[r])].kept)
          => recorded'[r] = recorded[r] + 1 /\ UNCHANGED <<output, failed>>)
  BY DEF EndKept
<1> QED
  BY <1>1, <1>2, TraceInv, PTL DEF Spec, EndNeverLost

----------------------------------------------------------------------------
(* The trace and the recorders that still use it.                           *)

InUseSet == {r \in Recorders : state[r] # "unused"}

LEMMA InUseFinite == IsFiniteSet(InUseSet)
<1>1. InUseSet \subseteq Recorders /\ IsFiniteSet(Recorders)
  BY TraceAssumption DEF InUseSet, TraceAssumption
<1> QED
  BY <1>1, FS_Subset

LEMMA StepActive ==
  ASSUME Inv, ActiveCounted, [Next]_vars
  PROVE  ActiveCounted'
<1>0. active = Cardinality(InUseSet) /\ IsFiniteSet(InUseSet) /\ active \in Nat
  BY InUseFinite DEF ActiveCounted, InUseSet, Inv, ProcessTypes
<1>1. SUFFICES /\ active' = Cardinality(InUseSet')
               /\ phase' # "open" => InUseSet' = {}
  BY DEF ActiveCounted, InUseSet
<1>2. CASE InitFile \/ FinishRefused \/ UNCHANGED vars
  <2>1. InUseSet' = InUseSet /\ active' = active
    BY <1>2 DEF InitFile, FinishRefused, vars, recorderVars, InUseSet
  <2>2. phase' # "open" => InUseSet = {}
    BY <1>2 DEF InitFile, FinishRefused, vars, ActiveCounted, InUseSet
  <2> QED
    BY <1>0, <2>1, <2>2
<1>3. CASE Finish
  <2>1. InUseSet' = InUseSet /\ active' = active /\ active = 0
    BY <1>3 DEF Finish, recorderVars, InUseSet
  <2>2. InUseSet = {}
    BY <1>0, <2>1, FS_EmptySet
  <2> QED
    BY <1>0, <2>1, <2>2
<1>4. ASSUME NEW r \in Recorders, ThreadInit(r)
      PROVE  active' = Cardinality(InUseSet') /\ phase' = "open"
  <2>1. InUseSet' = InUseSet \cup {r} /\ r \notin InUseSet
    BY <1>4 DEF ThreadInit, InUseSet, Inv, ProcessTypes
  <2>2. active' = active + 1 /\ phase' = "open"
    BY <1>4 DEF ThreadInit
  <2> QED
    BY <1>0, <2>1, <2>2, FS_AddElement
<1>5. ASSUME NEW r \in Recorders, FinishLeave(r)
      PROVE  active' = Cardinality(InUseSet') /\ phase' = "open"
  <2>1. InUseSet' = InUseSet \ {r} /\ r \in InUseSet
    BY <1>5 DEF FinishLeave, InUseSet, Inv, ProcessTypes
  <2>2. Cardinality(InUseSet \ {r}) = Cardinality(InUseSet) - 1
    BY <1>0, <2>1, FS_RemoveElement
  <2>3. active # 0
    BY <1>0, <2>1, FS_EmptySet
  <2>4. active' = active - 1 /\ phase' = phase
    BY <1>5, <2>3 DEF FinishLeave
  <2>5. phase = "open"
    BY <2>1 DEF ActiveCounted, InUseSet
  <2> QED
    BY <1>0, <2>1, <2>2, <2>4, <2>5
<1>6. ASSUME NEW r \in Recorders,
             \/ ThreadInitFails(r) \/ Record(r) \/ ThreadFlush(r)
             \/ FinishStart(r) \/ FinishZone(r) \/ FinishFlush(r)
      PROVE  active' = active /\ phase' = phase /\ InUseSet' = InUseSet
  <2>1. CASE ThreadInitFails(r) \/ ThreadFlush(r) \/ FinishZone(r)
    BY <2>1 DEF ThreadInitFails, ThreadFlush, FinishZone, recorderVars, InUseSet
  <2>2. CASE Record(r)
    <3>1. Called(r)
      BY <2>2 DEF Record, BeginSuppressed, BeginRecorded, BeginDropped, EndUnmatched,
                  EndSuppressed, EndReserved, EventSuppressed, EventRecorded, EventDropped
    <3> QED
      BY <3>1 DEF Called, InUseSet
  <2>3. CASE FinishStart(r) \/ FinishFlush(r)
    BY <2>3 DEF FinishStart, FinishFlush, InUseSet, Inv, ProcessTypes
  <2> QED
    BY <1>6, <2>1, <2>2, <2>3
<1>7. phase # "open" => InUseSet = {}
  BY DEF ActiveCounted, InUseSet
<1> QED
  BY <1>0, <1>2, <1>3, <1>4, <1>5, <1>6, <1>7 DEF Next

\* active_threads is exact, so lor_trace_finish, which refuses while it is not
\* zero, never frees a trace that a recorder still uses.
THEOREM TraceActiveCounted == Spec => []ActiveCounted
<1>1. Init => ActiveCounted
  <2> SUFFICES ASSUME Init PROVE ActiveCounted
    OBVIOUS
  <2>1. {r \in Recorders : state[r] # "unused"} = {} /\ active = 0
    BY DEF Init
  <2>2. \A r \in Recorders : state[r] = "unused"
    BY DEF Init
  <2> QED
    BY <2>1, <2>2, FS_EmptySet DEF ActiveCounted
<1>2. Inv /\ ActiveCounted /\ [Next]_vars => ActiveCounted'
  BY StepActive
<1> QED
  BY <1>1, <1>2, TraceInv, PTL DEF Spec
----------------------------------------------------------------------------
(* Induction on the naturals.  The provers cannot instantiate a rule that   *)
(* takes a predicate, so it is stated of a set: no nonempty set of naturals *)
(* is without a least element, for the intervals 0 .. x of its elements     *)
(* have a minimal one under inclusion.                                      *)

LEMMA LeastNatural ==
  ASSUME NEW T \in SUBSET Nat, T # {}
  PROVE  \E x \in T : \A y \in T : x <= y
<1> DEFINE R == StrictSubsetOrdering(Nat)
           F == FiniteSubsetsOf(Nat)
           U == {0 .. x : x \in T}
<1>1. IsWellFoundedOn(R, F)
  BY FS_StrictSubsetOrderingWellFounded
<1>2. U \subseteq F
  <2> SUFFICES ASSUME NEW x \in T PROVE 0 .. x \in F
    OBVIOUS
  <2>1. IsFiniteSet(0 .. x)
    BY FS_Interval
  <2> QED
    BY <2>1 DEF FiniteSubsetsOf
<1>3. PICK u \in U : \A v \in U : ~(<<v, u>> \in R)
  <2>1. U # {}
    OBVIOUS
  <2> HIDE DEF R, F, U
  <2> QED
    BY <1>1, <1>2, <2>1, WFMin
<1>4. PICK x \in T : u = 0 .. x
  OBVIOUS
<1>5. ASSUME NEW y \in T, y < x PROVE FALSE
  <2>1. <<0 .. y, 0 .. x>> \in R
    BY <1>5 DEF StrictSubsetOrdering
  <2> QED
    BY <2>1, <1>3, <1>4
<1> QED
  BY <1>5

LEMMA SetInduction ==
  ASSUME NEW S, 0 \in S, \A n \in Nat : n \in S => n + 1 \in S
  PROVE  \A n \in Nat : n \in S
<1> SUFFICES ASSUME Nat \ S # {} PROVE FALSE
  OBVIOUS
<1>1. PICK x \in Nat \ S : \A y \in Nat \ S : x <= y
  BY LeastNatural
<1>2. x - 1 \in Nat /\ x - 1 \in S
  BY <1>1
<1> QED
  BY <1>1, <1>2

----------------------------------------------------------------------------
(* What a viewer sees, one record at a time.                                *)

\* f gives, for the first n records, the zones that they leave open.
ViewOf(f, records, n) ==
    f = [m \in 0 .. n |-> IF m = 0 THEN << >> ELSE Seen(f[m - 1], records[m])]

LEMMA ViewExists ==
  ASSUME NEW records, NEW n \in Nat
  PROVE  \E f : ViewOf(f, records, n)
<1> DEFINE S == {k \in Nat : \E f : ViewOf(f, records, k)}
<1>1. 0 \in S
  <2>1. ViewOf([m \in 0 .. 0 |-> << >>], records, 0)
    BY DEF ViewOf
  <2> QED
    BY <2>1
<1>2. ASSUME NEW k \in Nat, k \in S
      PROVE  k + 1 \in S
  <2>1. PICK f : ViewOf(f, records, k)
    BY <1>2
  <2> DEFINE g == [m \in 0 .. k + 1 |->
                     IF m <= k THEN f[m] ELSE Seen(f[k], records[k + 1])]
  <2>2. ASSUME NEW m \in 0 .. k + 1
        PROVE  g[m] = IF m = 0 THEN << >> ELSE Seen(g[m - 1], records[m])
    <3>1. CASE m = 0
      <4>1. f[0] = << >>
        BY <2>1 DEF ViewOf
      <4> QED
        BY <3>1, <4>1
    <3>2. CASE m \in 1 .. k
      <4>1. f[m] = Seen(f[m - 1], records[m]) /\ m # 0
        BY <2>1, <3>2 DEF ViewOf
      <4>2. g[m] = f[m] /\ g[m - 1] = f[m - 1]
        BY <3>2
      <4> QED
        BY <4>1, <4>2
    <3>3. CASE m = k + 1
      <4>1. g[m] = Seen(f[k], records[k + 1]) /\ g[m - 1] = f[k] /\ m # 0
        BY <3>3
      <4> QED
        BY <3>3, <4>1
    <3> QED
      BY <3>1, <3>2, <3>3
  <2>3. g = [m \in 0 .. k + 1 |-> IF m = 0 THEN << >> ELSE Seen(g[m - 1], records[m])]
    <3> DEFINE h == [m \in 0 .. k + 1 |->
                       IF m = 0 THEN << >> ELSE Seen(g[m - 1], records[m])]
    <3>1. \A m \in 0 .. k + 1 : g[m] = h[m]
      BY <2>2
    <3>2. DOMAIN g = 0 .. k + 1 /\ DOMAIN h = 0 .. k + 1
      OBVIOUS
    <3> QED
      BY <3>1, <3>2
  <2>4. ViewOf(g, records, k + 1)
    BY <2>3 DEF ViewOf
  <2> QED
    BY <2>4
<1>3. \A k \in Nat : k \in S
  <2> HIDE DEF S
  <2> QED
    BY <1>1, <1>2, SetInduction
<1> QED
  BY <1>3

\* It is a function of the records it has seen.
LEMMA ViewUnique ==
  ASSUME NEW records, NEW others, NEW n \in Nat, NEW k \in Nat, n <= k,
         NEW f, ViewOf(f, records, n), NEW g, ViewOf(g, others, k),
         \A m \in 1 .. n : records[m] = others[m]
  PROVE  f[n] = g[n]
<1> DEFINE S == {m \in Nat : m <= n => f[m] = g[m]}
<1>1. 0 \in S
  BY DEF ViewOf
<1>2. ASSUME NEW m \in Nat, m \in S
      PROVE  m + 1 \in S
  <2> SUFFICES ASSUME m + 1 <= n PROVE f[m + 1] = g[m + 1]
    OBVIOUS
  <2>1. f[m + 1] = Seen(f[m], records[m + 1])
    BY DEF ViewOf
  <2>2. g[m + 1] = Seen(g[m], others[m + 1])
    BY DEF ViewOf
  <2>3. f[m] = g[m] /\ records[m + 1] = others[m + 1]
    BY <1>2
  <2> QED
    BY <2>1, <2>2, <2>3
<1>3. n \in S
  <2> HIDE DEF S
  <2> QED
    BY <1>1, <1>2, SetInduction
<1> QED
  BY <1>3

LEMMA OpenAfterView ==
  ASSUME NEW records, Len(records) \in Nat
  PROVE  \E f : ViewOf(f, records, Len(records)) /\ OpenAfter(records) = f[Len(records)]
<1> DEFINE F == CHOOSE View : View =
                  [n \in 0 .. Len(records) |->
                     IF n = 0 THEN << >> ELSE Seen(View[n - 1], records[n])]
<1>1. ViewOf(F, records, Len(records))
  BY ViewExists DEF ViewOf
<1>2. OpenAfter(records) = F[Len(records)]
  BY DEF OpenAfter
<1> QED
  BY <1>1, <1>2

LEMMA OpenAfterNone == OpenAfter(<< >>) = << >>
<1>1. PICK f : ViewOf(f, << >>, 0) /\ OpenAfter(<< >>) = f[0]
  BY OpenAfterView
<1> QED
  BY <1>1 DEF ViewOf

LEMMA OpenAfterOneMore ==
  ASSUME NEW S, NEW s \in Seq(S), NEW e \in S
  PROVE  OpenAfter(Append(s, e)) = Seen(OpenAfter(s), e)
<1> DEFINE n == Len(s)
           t == Append(s, e)
<1>1. n \in Nat /\ Len(t) = n + 1 /\ t[n + 1] = e /\ \A m \in 1 .. n : s[m] = t[m]
  OBVIOUS
<1> HIDE DEF n, t
<1>2. PICK f : ViewOf(f, s, n) /\ OpenAfter(s) = f[n]
  BY <1>1, OpenAfterView DEF n
<1>3. PICK g : ViewOf(g, t, n + 1) /\ OpenAfter(t) = g[n + 1]
  BY <1>1, OpenAfterView
<1>4. f[n] = g[n]
  BY <1>1, <1>2, <1>3, ViewUnique
<1>5. g[n + 1] = Seen(g[n], t[n + 1])
  BY <1>1, <1>3 DEF ViewOf
<1> QED
  BY <1>1, <1>2, <1>3, <1>4, <1>5 DEF t

----------------------------------------------------------------------------
(* Fronts of sequences, and records that never end a zone that is not the   *)
(* innermost open one.                                                      *)

LEMMA WholeFront ==
  ASSUME NEW S, NEW s \in Seq(S)
  PROVE  SubSeq(s, 1, Len(s)) = s /\ s \o << >> = s
  OBVIOUS

LEMMA FrontOfFront ==
  ASSUME NEW S, NEW s \in Seq(S), NEW n \in 0 .. Len(s), NEW k \in 0 .. n
  PROVE  SubSeq(SubSeq(s, 1, n), 1, k) = SubSeq(s, 1, k)
  OBVIOUS

LEMMA FrontOfLonger ==
  ASSUME NEW S, NEW s \in Seq(S), NEW e \in S, NEW k \in 0 .. Len(s)
  PROVE  SubSeq(Append(s, e), 1, k) = SubSeq(s, 1, k)
  OBVIOUS

LEMMA FrontOfBoth ==
  ASSUME NEW S, NEW s \in Seq(S), NEW t \in Seq(S), NEW n \in 0 .. Len(t)
  PROVE  /\ s \o SubSeq(t, 1, n) = SubSeq(s \o t, 1, Len(s) + n)
         /\ Len(s) + n \in 0 .. Len(s \o t)
  OBVIOUS

LEMMA OneMoreBehind ==
  ASSUME NEW S, NEW s \in Seq(S), NEW t \in Seq(S), NEW e \in S
  PROVE  /\ s \o Append(t, e) = Append(s \o t, e)
         /\ s \o <<e>> = Append(s, e)
  OBVIOUS

NoneWrong(open) == \A n \in 1 .. Len(open) : open[n] # -1

\* Wherever the records are cut.
Clean(records) == \A k \in 0 .. Len(records) : NoneWrong(OpenAfter(SubSeq(records, 1, k)))

LEMMA CleanNone == Clean(<< >>)
<1>1. SubSeq(<< >>, 1, 0) = << >> /\ Len(<< >>) = 0
  OBVIOUS
<1>2. NoneWrong(<< >>)
  BY <1>1 DEF NoneWrong
<1>3. \A k \in 0 .. Len(<< >>) : k = 0
  BY <1>1
<1> QED
  BY <1>1, <1>2, <1>3, OpenAfterNone, Zenon DEF Clean

LEMMA CleanFront ==
  ASSUME NEW S, NEW s \in Seq(S), Clean(s), NEW n \in 0 .. Len(s)
  PROVE  Clean(SubSeq(s, 1, n))
<1>1. Len(SubSeq(s, 1, n)) = n
  BY FrontOfSeq
<1> SUFFICES ASSUME NEW k \in 0 .. n
             PROVE  NoneWrong(OpenAfter(SubSeq(SubSeq(s, 1, n), 1, k)))
  BY <1>1 DEF Clean
<1>2. SubSeq(SubSeq(s, 1, n), 1, k) = SubSeq(s, 1, k) /\ k \in 0 .. Len(s)
  BY FrontOfFront
<1> QED
  BY <1>2 DEF Clean

LEMMA CleanOneMore ==
  ASSUME NEW S, NEW s \in Seq(S), NEW e \in S, Clean(s), NoneWrong(OpenAfter(Append(s, e)))
  PROVE  Clean(Append(s, e))
<1>1. /\ Len(Append(s, e)) = Len(s) + 1 /\ Append(s, e) \in Seq(S)
      /\ SubSeq(Append(s, e), 1, Len(s) + 1) = Append(s, e)
  OBVIOUS
<1> SUFFICES ASSUME NEW k \in 0 .. Len(s) + 1
             PROVE  NoneWrong(OpenAfter(SubSeq(Append(s, e), 1, k)))
  BY <1>1 DEF Clean
<1>2. CASE k = Len(s) + 1
  BY <1>1, <1>2
<1>3. CASE k \in 0 .. Len(s)
  <2>1. SubSeq(Append(s, e), 1, k) = SubSeq(s, 1, k)
    BY <1>3, FrontOfLonger
  <2> QED
    BY <1>3, <2>1 DEF Clean
<1> QED
  BY <1>2, <1>3

LEMMA CleanNoneWrong ==
  ASSUME NEW S, NEW s \in Seq(S), Clean(s)
  PROVE  NoneWrong(OpenAfter(s))
<1>1. SubSeq(s, 1, Len(s)) = s /\ Len(s) \in 0 .. Len(s)
  OBVIOUS
<1> QED
  BY <1>1 DEF Clean

----------------------------------------------------------------------------
(* What is in the file.  The records of a thread are those written under    *)
(* its id and those still in its buffer; until a write fails they are all   *)
(* the records kept, and leave open the recorded zones that are open.       *)

Stream(r) == output[id[r]] \o buffer[r]

\* Nobody writes under this id any more, or nobody does yet.
Over(i) == \A r \in Recorders : id[r] = i => ~Attached(r)

Unique ==
    \A r, s \in Recorders :
        r # s /\ state[r] # "unused" /\ state[s] # "unused" => id[r] # id[s]

FileOK(i) ==
    /\ Clean(output[i])
    /\ ~failed /\ Over(i) => OpenAfter(output[i]) = << >> /\ Len(output[i]) = kept[i]
    /\ i >= nextId => kept[i] = 0

StreamOK(r) ==
    /\ Clean(Stream(r))
    /\ OpenAfter(Stream(r)) = KeptZones(r)
    /\ Len(Stream(r)) = kept[id[r]]

RecorderOK(r) ==
    /\ recorded[r] = kept[id[r]]
    /\ state[r] = "live" => recorded[r] + dropped[r] = calls[r]
    /\ ~failed => StreamOK(r)

FileInv ==
    /\ Unique
    /\ \A i \in Ids : FileOK(i)
    /\ \A r \in Recorders : Attached(r) => RecorderOK(r)

----------------------------------------------------------------------------
(* What lor_trace__append and lor_trace__thread_flush_internal do to the    *)
(* records of a thread: some of its buffer is written, and at most one      *)
(* record is added.                                                         *)

Written(r) ==
    /\ failed => failed' /\ output' = output
    /\ \A i \in Ids \ {id[r]} : output'[i] = output[i] /\ kept'[i] = kept[i]
    /\ \A s \in Recorders \ {r} : buffer'[s] = buffer[s] /\ recorded'[s] = recorded[s]
    /\ ~failed => \E n \in 0 .. Len(Stream(r)) : output'[id[r]] = SubSeq(Stream(r), 1, n)

Quiet(r) ==
    /\ Written(r)
    /\ kept'[id[r]] = kept[id[r]] /\ recorded'[r] = recorded[r]
    /\ ~failed' => output'[id[r]] \o buffer'[r] = Stream(r)

Grown(r, record) ==
    /\ Written(r)
    /\ kept'[id[r]] = kept[id[r]] + 1 /\ recorded'[r] = recorded[r] + 1
    /\ failed' = failed
    /\ ~failed => output'[id[r]] \o buffer'[r] = Append(Stream(r), record)

LEMMA StreamTypes ==
  ASSUME BufferTypes, NEW r \in Recorders, id[r] \in Ids
  PROVE  /\ output[id[r]] \in Seq(Records) /\ buffer[r] \in Seq(Records)
         /\ Stream(r) \in Seq(Records)
         /\ Len(Stream(r)) = Len(output[id[r]]) + Len(buffer[r])
         /\ Len(output[id[r]]) \in 0 .. Len(Stream(r))
         /\ output[id[r]] = SubSeq(Stream(r), 1, Len(output[id[r]]))
         /\ Stream(r) = SubSeq(Stream(r), 1, Len(Stream(r)))
         /\ Len(Stream(r)) \in 0 .. Len(Stream(r))
<1>1. output[id[r]] \in Seq(Records) /\ buffer[r] \in Seq(Records)
  BY DEF BufferTypes
<1>2. ASSUME NEW s \in Seq(Records), NEW t \in Seq(Records)
      PROVE  /\ s \o t \in Seq(Records)
             /\ Len(s \o t) = Len(s) + Len(t)
             /\ Len(s) \in 0 .. Len(s \o t) /\ s = SubSeq(s \o t, 1, Len(s))
             /\ Len(s \o t) \in 0 .. Len(s \o t)
             /\ s \o t = SubSeq(s \o t, 1, Len(s \o t))
  OBVIOUS
<1> QED
  BY <1>1, <1>2 DEF Stream

LEMMA NothingWritten ==
  ASSUME BufferTypes, NEW r \in Recorders, id[r] \in Ids,
         UNCHANGED <<buffer, recorded, kept, output, failed>>
  PROVE  Quiet(r)
<1>1. /\ Len(output[id[r]]) \in 0 .. Len(Stream(r))
      /\ output[id[r]] = SubSeq(Stream(r), 1, Len(output[id[r]]))
  BY StreamTypes
<1>2. Written(r)
  BY <1>1 DEF Written
<1> QED
  BY <1>2 DEF Quiet, Stream

\* The whole buffer has been written.
LEMMA FlushWritten ==
  ASSUME BufferTypes, NEW r \in Recorders, id[r] \in Ids, CanFlush(r),
         output' = FlushedOutput(r), UNCHANGED failed,
         \A i \in Ids \ {id[r]} : kept'[i] = kept[i],
         \A s \in Recorders \ {r} : buffer'[s] = buffer[s] /\ recorded'[s] = recorded[s]
  PROVE  Written(r) /\ output'[id[r]] = Stream(r)
<1>1. /\ output[id[r]] \in Seq(Records)
      /\ Len(Stream(r)) \in 0 .. Len(Stream(r))
      /\ Stream(r) = SubSeq(Stream(r), 1, Len(Stream(r)))
  BY StreamTypes
<1>2. /\ output'[id[r]] = Stream(r) /\ output' \in [Ids -> Seq(Records)]
      /\ \A i \in Ids \ {id[r]} : output'[i] = output[i]
  BY StreamTypes DEF BufferTypes, FlushedOutput, Stream
<1>3. failed => output' = output
  <2> SUFFICES ASSUME failed PROVE output' = output
    OBVIOUS
  <2>1. output'[id[r]] = output[id[r]]
    BY <1>1, <1>2, WholeFront DEF CanFlush, Stream
  <2> QED
    BY <1>2, <2>1 DEF BufferTypes
<1> QED
  BY <1>1, <1>2, <1>3 DEF Written

\* A part of it has.
LEMMA PartWritten ==
  ASSUME BufferTypes, NEW r \in Recorders, id[r] \in Ids,
         NEW k \in Int, k <= Len(buffer[r]), FlushFails(r, k),
         UNCHANGED <<recorded, kept>>
  PROVE  Quiet(r)
<1>1. failed' = TRUE /\ buffer' = buffer
  BY DEF FlushFails
<1>2. CASE failed
  <2>1. output' = output
    BY <1>2 DEF FlushFails
  <2> QED
    BY <1>1, <1>2, <2>1 DEF Quiet, Written
<1>3. CASE ~failed
  <2>1. PICK n \in 0 .. k :
           output' = [output EXCEPT ![id[r]] = @ \o SubSeq(buffer[r], 1, n)]
    BY <1>3 DEF FlushFails
  <2>2. /\ output'[id[r]] = output[id[r]] \o SubSeq(buffer[r], 1, n)
        /\ \A i \in Ids \ {id[r]} : output'[i] = output[i]
    BY <2>1 DEF BufferTypes
  <2>3. output[id[r]] \in Seq(Records) /\ buffer[r] \in Seq(Records)
    BY StreamTypes
  <2>4. n \in 0 .. Len(buffer[r])
    BY <2>3
  <2>5. output'[id[r]] = SubSeq(Stream(r), 1, Len(output[id[r]]) + n)
    BY <2>2, <2>3, <2>4, FrontOfBoth DEF Stream
  <2>6. Len(output[id[r]]) + n \in 0 .. Len(Stream(r))
    BY <2>3, <2>4, FrontOfBoth DEF Stream
  <2>7. Written(r)
    BY <1>1, <1>3, <2>2, <2>5, <2>6 DEF Written
  <2> QED
    BY <1>1, <2>7 DEF Quiet
<1> QED
  BY <1>2, <1>3

LEMMA NotAppendedQuiet ==
  ASSUME BufferTypes, NEW r \in Recorders, id[r] \in Ids,
         NEW size, NEW ends, NotAppended(r, size, ends)
  PROVE  Quiet(r)
<1>1. UNCHANGED <<recorded, kept>>
  BY DEF NotAppended
<1>2. CASE UNCHANGED <<buffer, used, output, failed>>
  BY <1>1, <1>2, NothingWritten
<1>3. CASE FlushFails(r, Len(buffer[r]) - 1)
  <2>1. Len(buffer[r]) - 1 \in Int /\ Len(buffer[r]) - 1 <= Len(buffer[r])
    BY StreamTypes
  <2> QED
    BY <1>1, <1>3, <2>1, PartWritten
<1>4. CASE /\ CanFlush(r) /\ output' = FlushedOutput(r)
           /\ buffer' = [buffer EXCEPT ![r] = << >>] /\ UNCHANGED failed
  <2>1. /\ buffer'[r] = << >>
        /\ \A s \in Recorders \ {r} : buffer'[s] = buffer[s]
    BY <1>4 DEF BufferTypes
  <2>2. Written(r) /\ output'[id[r]] = Stream(r)
    BY <1>1, <1>4, <2>1, FlushWritten
  <2>3. Stream(r) \o << >> = Stream(r)
    BY StreamTypes, WholeFront
  <2> QED
    BY <1>1, <2>1, <2>2, <2>3 DEF Quiet
<1> QED
  BY <1>2, <1>3, <1>4 DEF NotAppended

LEMMA StreamFlushQuiet ==
  ASSUME BufferTypes, NEW r \in Recorders, id[r] \in Ids, NEW ok \in BOOLEAN,
         StreamFlush(r, ok), UNCHANGED <<recorded, kept>>
  PROVE  /\ Quiet(r)
         /\ ~failed' => ~failed /\ output'[id[r]] = Stream(r)
<1>1. CASE FlushFails(r, Len(buffer[r]))
  <2>1. Len(buffer[r]) \in Int /\ Len(buffer[r]) <= Len(buffer[r])
    BY StreamTypes
  <2> QED
    BY <1>1, <2>1, PartWritten DEF FlushFails
<1>2. CASE failed' = TRUE /\ UNCHANGED <<buffer, used, output>>
  <2>1. /\ Len(output[id[r]]) \in 0 .. Len(Stream(r))
        /\ output[id[r]] = SubSeq(Stream(r), 1, Len(output[id[r]]))
    BY StreamTypes
  <2> QED
    BY <1>2, <2>1 DEF Quiet, Written
<1>3. CASE /\ ~failed /\ output' = FlushedOutput(r)
           /\ buffer' = [buffer EXCEPT ![r] = << >>] /\ UNCHANGED failed
  <2>1. /\ buffer'[r] = << >>
        /\ \A s \in Recorders \ {r} : buffer'[s] = buffer[s]
    BY <1>3 DEF BufferTypes
  <2>2. Written(r) /\ output'[id[r]] = Stream(r)
    BY <1>3, <2>1, FlushWritten DEF CanFlush
  <2>3. Stream(r) \o << >> = Stream(r)
    BY StreamTypes, WholeFront
  <2> QED
    BY <1>3, <2>1, <2>2, <2>3 DEF Quiet
<1> QED
  BY <1>1, <1>2, <1>3 DEF StreamFlush

LEMMA AppendedGrown ==
  ASSUME BufferTypes, NEW r \in Recorders, id[r] \in Ids,
         NEW record \in Records, NEW size, NEW ends, Appended(r, record, size, ends)
  PROVE  Grown(r, record)
<1>1. /\ kept'[id[r]] = kept[id[r]] + 1 /\ \A i \in Ids \ {id[r]} : kept'[i] = kept[i]
      /\ recorded'[r] = recorded[r] + 1
      /\ \A s \in Recorders \ {r} : recorded'[s] = recorded[s]
      /\ failed' = failed
  BY DEF Appended, BufferTypes
<1>2. CASE UNCHANGED output /\ buffer' = [buffer EXCEPT ![r] = Append(@, record)]
  <2>1. /\ buffer'[r] = Append(buffer[r], record)
        /\ \A s \in Recorders \ {r} : buffer'[s] = buffer[s]
    BY <1>2 DEF BufferTypes
  <2>2. /\ Len(output[id[r]]) \in 0 .. Len(Stream(r))
        /\ output[id[r]] = SubSeq(Stream(r), 1, Len(output[id[r]]))
        /\ output[id[r]] \in Seq(Records) /\ buffer[r] \in Seq(Records)
    BY StreamTypes
  <2>3. Written(r)
    BY <1>1, <1>2, <2>1, <2>2 DEF Written
  <2>4. output[id[r]] \o Append(buffer[r], record) = Append(Stream(r), record)
    <3>1. output[id[r]] \o Append(buffer[r], record)
            = Append(output[id[r]] \o buffer[r], record)
      <4>1. ASSUME NEW s \in Seq(Records), NEW t \in Seq(Records)
            PROVE  s \o Append(t, record) = Append(s \o t, record)
        BY OneMoreBehind
      <4> QED
        BY ONLY <2>2, <4>1
    <3> QED
      BY <3>1 DEF Stream
  <2> QED
    BY <1>1, <1>2, <2>1, <2>3, <2>4 DEF Grown
<1>3. CASE /\ CanFlush(r) /\ output' = FlushedOutput(r)
           /\ buffer' = [buffer EXCEPT ![r] = <<record>>]
  <2>1. /\ buffer'[r] = <<record>>
        /\ \A s \in Recorders \ {r} : buffer'[s] = buffer[s]
    BY <1>3 DEF BufferTypes
  <2>2. Written(r) /\ output'[id[r]] = Stream(r)
    BY <1>1, <1>3, <2>1, FlushWritten
  <2>3. Stream(r) \o <<record>> = Append(Stream(r), record)
    BY StreamTypes, OneMoreBehind
  <2> QED
    BY <1>1, <2>1, <2>2, <2>3 DEF Grown
<1> QED
  BY <1>2, <1>3 DEF Appended
----------------------------------------------------------------------------
(* FileInv is kept: what the steps of one recorder have in common.          *)

\* The zones whose begin was recorded, as a sequence of their numbers.
LEMMA ZoneNumbers ==
  ASSUME NEW z \in Seq(Zones), NEW n \in Nat, n <= Len(z),
         NEW k, k = [i \in 1 .. n |-> z[i].zone]
  PROVE  /\ k \in Seq(Nat) /\ Len(k) = n
         /\ \A i \in 1 .. n : k[i] = z[i].zone
         /\ NoneWrong(k)
<1>1. \A i \in 1 .. n : z[i].zone \in Nat
  <2> SUFFICES ASSUME NEW i \in 1 .. n PROVE z[i].zone \in Nat
    OBVIOUS
  <2>1. z[i] \in Zones
    OBVIOUS
  <2> QED
    BY <2>1 DEF Zones
<1>2. k \in Seq(Nat) /\ Len(k) = n /\ \A i \in 1 .. n : k[i] = z[i].zone
  BY <1>1
<1>3. NoneWrong(k)
  BY <1>1, <1>2 DEF NoneWrong
<1> QED
  BY <1>2, <1>3

LEMMA KeptZonesSeq ==
  ASSUME Inv, NEW r \in Recorders, Attached(r)
  PROVE  /\ KeptZones(r) \in Seq(Nat) /\ Len(KeptZones(r)) = reserved[r]
         /\ \A i \in 1 .. reserved[r] : KeptZones(r)[i] = zones[r][i].zone
<1>1. /\ reserved[r] \in Nat /\ zones[r] \in Seq(Zones) /\ reserved[r] <= Len(zones[r])
  BY RoomAndShape DEF Inv, ZoneTypes, Shape
<1> QED
  BY <1>1, ZoneNumbers DEF KeptZones

LEMMA KeptZonesSeqNext ==
  ASSUME Inv', NEW r \in Recorders, Attached(r)'
  PROVE  /\ KeptZones(r)' \in Seq(Nat) /\ Len(KeptZones(r)') = reserved'[r]
         /\ \A i \in 1 .. reserved'[r] : KeptZones(r)'[i] = zones'[r][i].zone
         /\ NoneWrong(KeptZones(r)')
<1>1. /\ reserved'[r] \in Nat /\ zones'[r] \in Seq(Zones)
      /\ reserved'[r] <= Len(zones'[r])
  BY DEF Inv, ZoneTypes, Shape
<1> QED
  BY <1>1, ZoneNumbers DEF KeptZones

LEMMA SameSequence ==
  ASSUME NEW S, NEW T, NEW s \in Seq(S), NEW t \in Seq(T), Len(s) = Len(t),
         \A i \in 1 .. Len(s) : s[i] = t[i]
  PROVE  s = t
  OBVIOUS

\* What the written file holds is clean.
LEMMA WrittenClean ==
  ASSUME Inv, FileInv, NEW r \in Recorders, Attached(r), Written(r)
  PROVE  Clean(output'[id[r]])
<1>1. id[r] \in Ids /\ Stream(r) \in Seq(Records)
  BY InUse, StreamTypes DEF Attached, Inv
<1>2. CASE failed
  BY <1>1, <1>2 DEF Written, FileInv, FileOK
<1>3. CASE ~failed
  <2>1. Clean(Stream(r))
    BY <1>3 DEF FileInv, RecorderOK, StreamOK
  <2>2. PICK n \in 0 .. Len(Stream(r)) : output'[id[r]] = SubSeq(Stream(r), 1, n)
    BY <1>3 DEF Written
  <2> QED
    BY <1>1, <2>1, <2>2, CleanFront
<1> QED
  BY <1>2, <1>3

\* The others do not notice.
LEMMA FileKept ==
  ASSUME Inv, FileInv, NEW r \in Recorders, Attached(r), Written(r),
         nextId' = nextId, id' = id, state'[r] # "unused",
         \A s \in Recorders \ {r} :
            /\ state'[s] = state[s] /\ dropped'[s] = dropped[s] /\ calls'[s] = calls[s]
            /\ reserved'[s] = reserved[s] /\ zones'[s] = zones[s],
         Attached(r)' => RecorderOK(r)',
         ~Attached(r)' /\ ~failed' =>
            OpenAfter(output'[id[r]]) = << >> /\ Len(output'[id[r]]) = kept'[id[r]]
  PROVE  FileInv'
<1>1. state[r] # "unused" /\ id[r] \in Ids /\ id[r] < nextId /\ nextId \in Nat
  BY InUse, TraceAssumption DEF Attached, Inv, ProcessTypes, TraceAssumption
<1>2. Unique'
  BY <1>1 DEF FileInv, Unique
<1>3. \A s \in Recorders \ {r} : Attached(s)' <=> Attached(s)
  BY DEF Attached
<1>4. ASSUME NEW i \in Ids PROVE FileOK(i)'
  <2>1. CASE i = id[r]
    <3>1. Clean(output'[i])
      BY <2>1, WrittenClean
    <3>2. Over(i)' => ~Attached(r)'
      BY <2>1 DEF Over
    <3>3. ~(i >= nextId)
      BY <1>1, <2>1 DEF Ids
    <3> QED
      BY <2>1, <3>1, <3>2, <3>3 DEF FileOK
  <2>2. CASE i # id[r]
    <3>1. output'[i] = output[i] /\ kept'[i] = kept[i] /\ (~failed' => ~failed)
      BY <2>2 DEF Written
    <3>2. Over(i)' => Over(i)
      BY <1>3, <2>2 DEF Over
    <3> QED
      BY <3>1, <3>2 DEF FileInv, FileOK
  <2> QED
    BY <2>1, <2>2
<1>5. ASSUME NEW s \in Recorders, s # r, Attached(s)' PROVE RecorderOK(s)'
  <2>1. Attached(s) /\ RecorderOK(s) /\ state[s] # "unused" /\ id[s] \in Ids
    BY <1>3, <1>5, InUse DEF FileInv, Attached
  <2>2. id[s] # id[r]
    BY <1>1, <1>5, <2>1 DEF FileInv, Unique
  <2>3. /\ output'[id[s]] = output[id[s]] /\ kept'[id[s]] = kept[id[s]]
        /\ buffer'[s] = buffer[s] /\ recorded'[s] = recorded[s] /\ (~failed' => ~failed)
    BY <1>5, <2>1, <2>2 DEF Written
  <2>4. Stream(s)' = Stream(s) /\ KeptZones(s)' = KeptZones(s)
    BY <1>5, <2>3 DEF Stream, KeptZones
  <2>5. StreamOK(s) => StreamOK(s)'
    BY <2>3, <2>4 DEF StreamOK
  <2> QED
    BY <1>5, <2>1, <2>3, <2>5 DEF RecorderOK
<1> QED
  BY <1>2, <1>4, <1>5 DEF FileInv

\* Nothing is recorded, and the recorded zones that are open stay open.
LEMMA QuietKept ==
  ASSUME Inv, Inv', FileInv, NEW r \in Recorders, Attached(r), Attached(r)', Quiet(r),
         nextId' = nextId, id' = id,
         \A s \in Recorders \ {r} :
            /\ state'[s] = state[s] /\ dropped'[s] = dropped[s] /\ calls'[s] = calls[s]
            /\ reserved'[s] = reserved[s] /\ zones'[s] = zones[s],
         reserved'[r] = reserved[r],
         \A i \in 1 .. reserved[r] : zones'[r][i] = zones[r][i],
         state'[r] = "live" =>
            /\ state[r] = "live"
            /\ \/ dropped'[r] = dropped[r] /\ calls'[r] = calls[r]
               \/ dropped'[r] = dropped[r] + 1 /\ calls'[r] = calls[r] + 1
  PROVE  FileInv'
<1>1. KeptZones(r)' = KeptZones(r)
  BY DEF KeptZones
<1>2. recorded'[r] = recorded[r] /\ kept'[id[r]] = kept[id[r]] /\ (~failed' => ~failed)
  BY DEF Quiet, Written
<1>3. StreamOK(r) /\ ~failed' => StreamOK(r)'
  BY <1>1, <1>2 DEF StreamOK, Stream, Quiet
<1>4. RecorderOK(r)
  BY DEF FileInv
<1>5. state'[r] = "live" => recorded'[r] + dropped'[r] = calls'[r]
  <2>1. recorded[r] \in Nat /\ dropped[r] \in Nat /\ calls[r] \in Int
    BY DEF Inv, BufferTypes, ZoneTypes, ProcessTypes
  <2> QED
    BY <1>2, <1>4, <2>1 DEF RecorderOK
<1>6. RecorderOK(r)'
  BY <1>2, <1>3, <1>4, <1>5 DEF RecorderOK
<1> QED
  BY <1>6, FileKept DEF Quiet, Attached

\* One record more, which does to what a viewer sees what the step does to the
\* recorded zones that are open.
LEMMA GrownKept ==
  ASSUME Inv, Inv', FileInv, NEW r \in Recorders, Attached(r), Attached(r)',
         NEW record \in Records, Grown(r, record),
         nextId' = nextId, id' = id,
         \A s \in Recorders \ {r} :
            /\ state'[s] = state[s] /\ dropped'[s] = dropped[s] /\ calls'[s] = calls[s]
            /\ reserved'[s] = reserved[s] /\ zones'[s] = zones[s],
         KeptZones(r)' = Seen(KeptZones(r), record),
         state'[r] = "live" =>
            state[r] = "live" /\ dropped'[r] = dropped[r] /\ calls'[r] = calls[r] + 1
  PROVE  FileInv'
<1>1. recorded'[r] = recorded[r] + 1 /\ kept'[id[r]] = kept[id[r]] + 1 /\ failed' = failed
  BY DEF Grown
<1>2. RecorderOK(r) /\ id[r] \in Ids
  BY InUse DEF FileInv, Attached
<1>3. ASSUME ~failed PROVE StreamOK(r)'
  <2>1. StreamOK(r) /\ Stream(r) \in Seq(Records)
    BY <1>2, <1>3, StreamTypes DEF RecorderOK, Inv
  <2>2. Stream(r)' = Append(Stream(r), record)
    BY <1>3 DEF Stream, Grown
  <2>3. OpenAfter(Append(Stream(r), record)) = KeptZones(r)'
    BY <2>1, OpenAfterOneMore DEF StreamOK
  <2>4. NoneWrong(KeptZones(r)')
    BY KeptZonesSeqNext
  <2>5. Clean(Append(Stream(r), record))
    BY <2>1, <2>3, <2>4, CleanOneMore DEF StreamOK
  <2>6. Len(Append(Stream(r), record)) = kept'[id[r]]
    BY <1>1, <2>1, AppendToSeq DEF StreamOK
  <2>7. id'[r] = id[r]
    OBVIOUS
  <2> QED
    BY <2>2, <2>3, <2>5, <2>6, <2>7 DEF StreamOK
<1>4. state'[r] = "live" => recorded'[r] + dropped'[r] = calls'[r]
  <2>1. recorded[r] \in Nat /\ dropped[r] \in Nat /\ calls[r] \in Int
    BY DEF Inv, BufferTypes, ZoneTypes, ProcessTypes
  <2> QED
    BY <1>1, <1>2, <2>1 DEF RecorderOK
<1>5. RecorderOK(r)'
  BY <1>1, <1>2, <1>3, <1>4 DEF RecorderOK
<1> QED
  BY <1>5, FileKept DEF Grown, Attached

\* What a viewer sees after each kind of record.
LEMMA SeenBegin ==
  ASSUME NEW open, NEW z
  PROVE  Seen(open, [kind |-> "begin", zone |-> z]) = Append(open, z)
  BY DEF Seen

LEMMA SeenInstant ==
  ASSUME NEW open
  PROVE  Seen(open, [kind |-> "instant", zone |-> 0]) = open
  BY DEF Seen

LEMMA SeenEnd ==
  ASSUME NEW open, open # << >>
  PROVE  Seen(open, [kind |-> "end", zone |-> open[Len(open)]])
           = SubSeq(open, 1, Len(open) - 1)
  BY DEF Seen
----------------------------------------------------------------------------
(* ... and the steps one by one.                                            *)

\* An event asked of a live recorder.
LEMMA CalledFacts ==
  ASSUME Inv, NEW r \in Recorders, Called(r)
  PROVE  /\ state[r] = "live" /\ Attached(r) /\ Attached(r)' /\ id[r] \in Ids
         /\ state' = state /\ id' = id /\ nextId' = nextId
         /\ calls'[r] = calls[r] + 1 /\ \A s \in Recorders \ {r} : calls'[s] = calls[s]
<1>1. /\ state[r] = "live" /\ state' = state /\ id' = id /\ nextId' = nextId
      /\ calls' = [calls EXCEPT ![r] = @ + 1]
  BY DEF Called
<1> QED
  BY <1>1, InUse DEF Attached, Inv, ProcessTypes

\* The events that are dropped because of a zone that was, or for want of one.
LEMMA DroppedKept ==
  ASSUME Inv, Inv', FileInv, NEW r \in Recorders,
         \/ BeginSuppressed(r) \/ EndUnmatched(r) \/ EndSuppressed(r) \/ EventSuppressed(r)
         \/ \E n \in NameSizes : BeginDropped(r, Header + n) \/ EventDropped(r, Header + n)
  PROVE  FileInv'
<1>1. Called(r) /\ Dropped(r) /\ reserved' = reserved
  BY DEF BeginSuppressed, EndUnmatched, EndSuppressed, EventSuppressed, BeginDropped,
         EventDropped, counters
<1>2. /\ state[r] = "live" /\ Attached(r) /\ Attached(r)' /\ id[r] \in Ids
      /\ state' = state /\ id' = id /\ nextId' = nextId
      /\ calls'[r] = calls[r] + 1 /\ \A s \in Recorders \ {r} : calls'[s] = calls[s]
  BY <1>1, CalledFacts
<1>3. dropped'[r] = dropped[r] + 1 /\ \A s \in Recorders \ {r} : dropped'[s] = dropped[s]
  BY <1>1 DEF Dropped, Inv, ZoneTypes
<1>4. Quiet(r)
  <2>1. CASE UNCHANGED <<buffer, recorded, kept, output, failed>>
    BY <1>2, <2>1, NothingWritten DEF Inv
  <2>2. ASSUME NEW size, NEW ends, NotAppended(r, size, ends) PROVE Quiet(r)
    BY <1>2, <2>2, NotAppendedQuiet DEF Inv
  <2>3. ASSUME NEW n \in NameSizes, BeginDropped(r, Header + n) \/ EventDropped(r, Header + n)
        PROVE  Quiet(r)
    BY <2>2, <2>3 DEF BeginDropped, EventDropped
  <2>4. CASE BeginSuppressed(r) \/ EndUnmatched(r) \/ EndSuppressed(r) \/ EventSuppressed(r)
    BY <2>1, <2>4
    DEF BeginSuppressed, EndUnmatched, EndSuppressed, EventSuppressed, bufferVars
  <2> QED
    BY <2>3, <2>4
<1>5. /\ Shape(r) /\ depth[r] \in Nat /\ suppressed[r] \in Nat /\ reserved[r] \in Nat
      /\ depth[r] = reserved[r] + suppressed[r]
  BY <1>2, RoomAndShape DEF Shape
<1>6. /\ \A s \in Recorders \ {r} : zones'[s] = zones[s]
      /\ \A i \in 1 .. reserved[r] : zones'[r][i] = zones[r][i]
  <2>1. CASE UNCHANGED zones
    BY <2>1
  <2>2. CASE Opened(r, FALSE)
    <3>1. \A i \in 1 .. depth[r] : zones'[r][i] = zones[r][i]
      BY <1>2, <2>2, ZoneOpened
    <3>2. \A i \in 1 .. reserved[r] : i \in 1 .. depth[r]
      BY <1>5
    <3> QED
      BY <2>2, <3>1, <3>2 DEF Opened, Inv, ZoneTypes
  <2>3. CASE EndSuppressed(r)
    <3>1. /\ depth[r] # 0 /\ suppressed[r] # 0
          /\ zones' = [zones EXCEPT ![r] = SubSeq(@, 1, Len(@) - 1)]
      BY <2>3 DEF EndSuppressed, Closed
    <3>2. \A i \in 1 .. depth[r] - 1 : zones'[r][i] = zones[r][i]
      BY <1>2, <3>1, ZoneLeft
    <3>3. \A i \in 1 .. reserved[r] : i \in 1 .. depth[r] - 1
      BY <1>5, <3>1
    <3> QED
      BY <3>1, <3>2, <3>3 DEF Inv, ZoneTypes
  <2>4. UNCHANGED zones \/ Opened(r, FALSE) \/ EndSuppressed(r)
    BY DEF BeginSuppressed, BeginDropped, EndUnmatched, EventSuppressed, EventDropped
  <2> QED
    BY <2>1, <2>2, <2>3, <2>4
<1> QED
  BY <1>1, <1>2, <1>3, <1>4, <1>6, QuietKept

LEMMA FlushKept ==
  ASSUME Inv, Inv', FileInv, NEW r \in Recorders, ThreadFlush(r)
  PROVE  FileInv'
<1>1. /\ state[r] = "live"
      /\ UNCHANGED <<nextId, state, id, reserved, recorded, dropped, zones, calls, kept>>
  BY DEF ThreadFlush, counters
<1>2. Attached(r) /\ Attached(r)' /\ id[r] \in Ids
  BY <1>1, InUse DEF Attached
<1>3. PICK ok \in BOOLEAN : StreamFlush(r, ok)
  BY DEF ThreadFlush
<1>4. Quiet(r)
  BY <1>1, <1>2, <1>3, StreamFlushQuiet DEF Inv
<1> QED
  BY <1>1, <1>2, <1>4, QuietKept

LEMMA FinishStartKept ==
  ASSUME Inv, Inv', FileInv, NEW r \in Recorders, FinishStart(r)
  PROVE  FileInv'
<1>1. /\ state[r] = "live" /\ state' = [state EXCEPT ![r] = "closing"]
      /\ zones' = [zones EXCEPT ![r] = SubSeq(@, 1, Len(@) - suppressed[r])]
      /\ UNCHANGED <<nextId, id, reserved, buffer, recorded, kept, output, failed,
                     dropped, calls>>
  BY DEF FinishStart, bufferVars
<1>2. /\ state'[r] = "closing" /\ \A s \in Recorders \ {r} : state'[s] = state[s]
      /\ Attached(r) /\ Attached(r)' /\ id[r] \in Ids
  BY <1>1, InUse DEF Attached, Inv, ProcessTypes
<1>3. Quiet(r)
  BY <1>1, <1>2, NothingWritten DEF Inv
<1>4. /\ suppressed[r] \in Nat /\ reserved[r] \in Nat /\ zones[r] \in Seq(Zones)
      /\ Len(zones[r]) - suppressed[r] = reserved[r]
      /\ reserved[r] \in 0 .. Len(zones[r])
  BY <1>2, RoomAndShape DEF Shape, Inv, ZoneTypes
<1>5. /\ zones'[r] = SubSeq(zones[r], 1, reserved[r])
      /\ \A s \in Recorders \ {r} : zones'[s] = zones[s]
  BY <1>1, <1>4 DEF Inv, ZoneTypes
<1>6. \A i \in 1 .. reserved[r] : zones'[r][i] = zones[r][i]
  BY <1>4, <1>5, FrontOfSeq
<1> QED
  BY <1>1, <1>2, <1>3, <1>5, <1>6, QuietKept

\* A begin that is recorded.
LEMMA BeginKept ==
  ASSUME Inv, Inv', FileInv, NEW r \in Recorders, NEW n \in NameSizes,
         BeginRecorded(r, Header + n)
  PROVE  FileInv'
<1> DEFINE z == calls[r] + 1
           record == [kind |-> "begin", zone |-> z]
<1>1. /\ Called(r) /\ suppressed[r] = 0
      /\ Appended(r, record, Header + n, reserved[r] + 1)
      /\ reserved' = [reserved EXCEPT ![r] = @ + 1]
      /\ zones' = [zones EXCEPT ![r] = Append(@, [zone |-> z, kept |-> TRUE])]
      /\ dropped' = dropped /\ Opened(r, TRUE)
  BY DEF BeginRecorded, Opened
<1>2. /\ state[r] = "live" /\ Attached(r) /\ Attached(r)' /\ id[r] \in Ids
      /\ state' = state /\ id' = id /\ nextId' = nextId
      /\ calls'[r] = calls[r] + 1 /\ \A s \in Recorders \ {r} : calls'[s] = calls[s]
  BY <1>1, CalledFacts
<1>3. record \in Records /\ z \in Nat
  BY DEF Inv, ProcessTypes, Records, Kinds
<1>4. Grown(r, record)
  BY <1>1, <1>2, <1>3, AppendedGrown DEF Inv
<1>5. /\ depth[r] \in Nat /\ reserved[r] \in Nat /\ zones[r] \in Seq(Zones)
      /\ Len(zones[r]) = depth[r] /\ depth[r] = reserved[r]
  BY <1>1, <1>2, RoomAndShape DEF Shape, Inv, ZoneTypes
<1>6. /\ reserved'[r] = reserved[r] + 1
      /\ zones'[r] = Append(zones[r], [zone |-> z, kept |-> TRUE])
      /\ \A s \in Recorders \ {r} : reserved'[s] = reserved[s] /\ zones'[s] = zones[s]
  BY <1>1 DEF Inv, ZoneTypes
<1>7. /\ zones'[r][reserved[r] + 1].zone = z
      /\ \A i \in 1 .. reserved[r] : zones'[r][i] = zones[r][i]
  <2>1. [zone |-> z, kept |-> TRUE] \in Zones
    BY <1>3 DEF Zones
  <2> HIDE DEF z
  <2> QED
    BY <1>5, <1>6, <2>1, AppendToSeq
<1>8. KeptZones(r)' = Append(KeptZones(r), z)
  <2>1. /\ KeptZones(r) \in Seq(Nat) /\ Len(KeptZones(r)) = reserved[r]
        /\ \A i \in 1 .. reserved[r] : KeptZones(r)[i] = zones[r][i].zone
    BY <1>2, KeptZonesSeq
  <2>2. /\ KeptZones(r)' \in Seq(Nat) /\ Len(KeptZones(r)') = reserved[r] + 1
        /\ \A i \in 1 .. reserved[r] + 1 : KeptZones(r)'[i] = zones'[r][i].zone
    BY <1>2, <1>6, KeptZonesSeqNext
  <2> HIDE DEF z
  <2>3. /\ Append(KeptZones(r), z) \in Seq(Nat)
        /\ Len(Append(KeptZones(r), z)) = reserved[r] + 1
        /\ \A i \in 1 .. reserved[r] : Append(KeptZones(r), z)[i] = KeptZones(r)[i]
        /\ Append(KeptZones(r), z)[reserved[r] + 1] = z
    BY <1>3, <2>1, AppendToSeq
  <2>4. \A i \in 1 .. reserved[r] + 1 : KeptZones(r)'[i] = Append(KeptZones(r), z)[i]
    <3> SUFFICES ASSUME NEW i \in 1 .. reserved[r] + 1
                 PROVE  KeptZones(r)'[i] = Append(KeptZones(r), z)[i]
      OBVIOUS
    <3>1. KeptZones(r)'[i] = zones'[r][i].zone
      BY <2>2
    <3>2. CASE i = reserved[r] + 1
      BY <1>7, <2>3, <3>1, <3>2
    <3>3. CASE i \in 1 .. reserved[r]
      <4>1. zones'[r][i] = zones[r][i] /\ KeptZones(r)[i] = zones[r][i].zone
        BY <1>7, <2>1, <3>3
      <4>2. Append(KeptZones(r), z)[i] = KeptZones(r)[i]
        BY <2>3, <3>3
      <4> QED
        BY <3>1, <4>1, <4>2
    <3>4. reserved[r] \in Nat
      BY <1>5
    <3>5. i = reserved[r] + 1 \/ i \in 1 .. reserved[r]
      BY ONLY <3>4, i \in 1 .. reserved[r] + 1
    <3> QED
      BY <3>2, <3>3, <3>5
  <2> QED
    BY <2>2, <2>3, <2>4, SameSequence
<1>9. Seen(KeptZones(r), record) = Append(KeptZones(r), z)
  BY SeenBegin
<1> HIDE DEF record
<1> QED
  BY <1>1, <1>2, <1>3, <1>4, <1>6, <1>8, <1>9, GrownKept

\* The innermost recorded zone ends, in lor_trace_end or lor_trace_thread_finish.
LEMMA EndZoneKept ==
  ASSUME Inv, Inv', FileInv, NEW r \in Recorders, Attached(r), Attached(r)',
         suppressed[r] = 0, reserved[r] # 0, NEW ok \in BOOLEAN,
         TryAppend(r, EndRecord(r), EndSize, reserved[r] - 1, ok),
         reserved' = [reserved EXCEPT ![r] = @ - 1],
         zones' = [zones EXCEPT ![r] = SubSeq(@, 1, Len(@) - 1)],
         nextId' = nextId, id' = id, state' = state,
         IF ok THEN dropped' = dropped ELSE Dropped(r),
         \A s \in Recorders \ {r} : calls'[s] = calls[s],
         state[r] = "live" => calls'[r] = calls[r] + 1
  PROVE  FileInv'
<1>1. /\ Appended(r, EndRecord(r), EndSize, reserved[r] - 1) /\ dropped' = dropped
      /\ EndRecord(r) \in Records /\ id[r] \in Ids
  BY EndAppended, EndFits, InUse DEF Attached
<1>2. Grown(r, EndRecord(r))
  BY <1>1, AppendedGrown DEF Inv
<1>3. /\ depth[r] \in Nat /\ reserved[r] \in Nat /\ zones[r] \in Seq(Zones)
      /\ Len(zones[r]) = depth[r] /\ depth[r] = reserved[r]
  BY RoomAndShape DEF Shape, Inv, ZoneTypes
<1>4. /\ reserved'[r] = reserved[r] - 1
      /\ \A i \in 1 .. reserved[r] - 1 : zones'[r][i] = zones[r][i]
      /\ \A s \in Recorders \ {r} : reserved'[s] = reserved[s] /\ zones'[s] = zones[s]
  <2>1. \A i \in 1 .. depth[r] - 1 : zones'[r][i] = zones[r][i]
    BY <1>3, ZoneLeft
  <2> QED
    BY <1>3, <2>1 DEF Inv, ZoneTypes
<1>5. /\ KeptZones(r) \in Seq(Nat) /\ Len(KeptZones(r)) = reserved[r]
      /\ \A i \in 1 .. reserved[r] : KeptZones(r)[i] = zones[r][i].zone
  BY KeptZonesSeq
<1>6. KeptZones(r)' = SubSeq(KeptZones(r), 1, reserved[r] - 1)
  <2>1. /\ KeptZones(r)' \in Seq(Nat) /\ Len(KeptZones(r)') = reserved[r] - 1
        /\ \A i \in 1 .. reserved[r] - 1 : KeptZones(r)'[i] = zones'[r][i].zone
    BY <1>4, KeptZonesSeqNext
  <2>2. reserved[r] - 1 \in 0 .. Len(KeptZones(r))
    BY <1>3, <1>5
  <2>3. /\ SubSeq(KeptZones(r), 1, reserved[r] - 1) \in Seq(Nat)
        /\ Len(SubSeq(KeptZones(r), 1, reserved[r] - 1)) = reserved[r] - 1
        /\ \A i \in 1 .. reserved[r] - 1 :
              SubSeq(KeptZones(r), 1, reserved[r] - 1)[i] = KeptZones(r)[i]
    BY <1>5, <2>2, FrontOfSeq
  <2>4. \A i \in 1 .. reserved[r] - 1 :
           KeptZones(r)'[i] = SubSeq(KeptZones(r), 1, reserved[r] - 1)[i]
    <3> SUFFICES ASSUME NEW i \in 1 .. reserved[r] - 1
                 PROVE  KeptZones(r)'[i] = SubSeq(KeptZones(r), 1, reserved[r] - 1)[i]
      OBVIOUS
    <3>1. KeptZones(r)'[i] = zones'[r][i].zone /\ zones'[r][i] = zones[r][i]
      BY <1>4, <2>1
    <3>2. KeptZones(r)[i] = zones[r][i].zone
      BY <1>3, <1>5
    <3>3. SubSeq(KeptZones(r), 1, reserved[r] - 1)[i] = KeptZones(r)[i]
      BY <2>3
    <3> QED
      BY <3>1, <3>2, <3>3
  <2> QED
    BY <2>1, <2>3, <2>4, SameSequence
<1>7. Seen(KeptZones(r), EndRecord(r)) = SubSeq(KeptZones(r), 1, reserved[r] - 1)
  <2>1. KeptZones(r) # << >> /\ reserved[r] \in 1 .. reserved[r]
    BY <1>3, <1>5
  <2>2. KeptZones(r)[Len(KeptZones(r))] = zones[r][Len(zones[r])].zone
    BY <1>3, <1>5, <2>1
  <2>3. EndRecord(r) = [kind |-> "end", zone |-> KeptZones(r)[Len(KeptZones(r))]]
    BY <2>2 DEF EndRecord
  <2> QED
    BY <1>5, <2>1, <2>3, SeenEnd
<1> QED
  BY <1>1, <1>2, <1>4, <1>6, <1>7, GrownKept

LEMMA EndReservedKept ==
  ASSUME Inv, Inv', FileInv, NEW r \in Recorders, EndReserved(r)
  PROVE  FileInv'
<1>1. Called(r) /\ depth[r] # 0 /\ suppressed[r] = 0 /\ Closed(r)
  BY DEF EndReserved
<1>2. /\ state[r] = "live" /\ Attached(r) /\ Attached(r)' /\ id[r] \in Ids
      /\ state' = state /\ id' = id /\ nextId' = nextId
      /\ calls'[r] = calls[r] + 1 /\ \A s \in Recorders \ {r} : calls'[s] = calls[s]
  BY <1>1, CalledFacts
<1>3. reserved[r] # 0
  BY <1>1, <1>2, RoomAndShape DEF Shape
<1>4. PICK ok \in BOOLEAN : /\ TryAppend(r, EndRecord(r), EndSize, reserved[r] - 1, ok)
                            /\ IF ok THEN dropped' = dropped ELSE Dropped(r)
  BY <1>3 DEF EndReserved
<1>5. /\ reserved' = [reserved EXCEPT ![r] = @ - 1]
      /\ zones' = [zones EXCEPT ![r] = SubSeq(@, 1, Len(@) - 1)]
  BY <1>1, <1>3 DEF EndReserved, Closed
<1> QED
  BY <1>1, <1>2, <1>3, <1>4, <1>5, EndZoneKept

LEMMA FinishZoneKept ==
  ASSUME Inv, Inv', FileInv, NEW r \in Recorders, FinishZone(r)
  PROVE  FileInv'
<1>1. /\ state[r] = "closing" /\ reserved[r] # 0
      /\ reserved' = [reserved EXCEPT ![r] = @ - 1]
      /\ zones' = [zones EXCEPT ![r] = SubSeq(@, 1, Len(@) - 1)]
      /\ nextId' = nextId /\ id' = id /\ state' = state /\ calls' = calls
  BY DEF FinishZone
<1>2. Attached(r) /\ Attached(r)' /\ state[r] # "live"
  BY <1>1 DEF Attached
<1>3. suppressed[r] = 0
  BY <1>1, <1>2, RoomAndShape DEF Shape
<1>4. PICK ok \in BOOLEAN : /\ TryAppend(r, EndRecord(r), EndSize, reserved[r] - 1, ok)
                            /\ IF ok THEN dropped' = dropped ELSE Dropped(r)
  BY DEF FinishZone
<1> QED
  BY <1>1, <1>2, <1>3, <1>4, EndZoneKept

\* An instant event or a counter that is recorded.
LEMMA EventKept ==
  ASSUME Inv, Inv', FileInv, NEW r \in Recorders, NEW n \in NameSizes,
         EventRecorded(r, Header + n)
  PROVE  FileInv'
<1> DEFINE record == [kind |-> "instant", zone |-> 0]
<1>1. /\ Called(r) /\ Appended(r, record, Header + n, reserved[r])
      /\ UNCHANGED <<reserved, dropped, zones>>
  BY DEF EventRecorded, counters
<1>2. /\ state[r] = "live" /\ Attached(r) /\ Attached(r)' /\ id[r] \in Ids
      /\ state' = state /\ id' = id /\ nextId' = nextId
      /\ calls'[r] = calls[r] + 1 /\ \A s \in Recorders \ {r} : calls'[s] = calls[s]
  BY <1>1, CalledFacts
<1>3. record \in Records
  BY DEF Records, Kinds
<1>4. Grown(r, record)
  BY <1>1, <1>2, <1>3, AppendedGrown DEF Inv
<1>5. KeptZones(r)' = KeptZones(r)
  BY <1>1 DEF KeptZones
<1>6. Seen(KeptZones(r), record) = KeptZones(r)
  BY SeenInstant
<1> HIDE DEF record
<1> QED
  BY <1>1, <1>2, <1>3, <1>4, <1>5, <1>6, GrownKept

\* The recorder writes what is left and is not attached any more.
LEMMA FinishFlushKept ==
  ASSUME Inv, Inv', FileInv, NEW r \in Recorders, FinishFlush(r)
  PROVE  FileInv'
<1>1. /\ state[r] = "closing" /\ reserved[r] = 0
      /\ state' = [state EXCEPT ![r] = "leaving"]
      /\ UNCHANGED <<nextId, id, reserved, recorded, dropped, zones, calls, kept>>
  BY DEF FinishFlush
<1>2. /\ Attached(r) /\ id[r] \in Ids
      /\ state'[r] = "leaving" /\ \A s \in Recorders \ {r} : state'[s] = state[s]
      /\ ~Attached(r)'
  BY <1>1, InUse DEF Attached, Inv, ProcessTypes
<1>3. PICK ok \in BOOLEAN : StreamFlush(r, ok)
  BY DEF FinishFlush
<1>4. Quiet(r) /\ (~failed' => ~failed /\ output'[id[r]] = Stream(r))
  BY <1>1, <1>2, <1>3, StreamFlushQuiet DEF Inv
<1>5. ASSUME ~failed'
      PROVE  OpenAfter(output'[id[r]]) = << >> /\ Len(output'[id[r]]) = kept'[id[r]]
  <2>1. output'[id[r]] = Stream(r) /\ StreamOK(r)
    BY <1>2, <1>4, <1>5 DEF FileInv, RecorderOK
  <2>2. KeptZones(r) = << >>
    BY <1>1, <1>2, KeptZonesSeq
  <2> QED
    BY <1>1, <2>1, <2>2 DEF StreamOK
<1> QED
  BY <1>1, <1>2, <1>4, <1>5, FileKept DEF Quiet

LEMMA FinishLeaveKept ==
  ASSUME Inv, FileInv, NEW r \in Recorders, FinishLeave(r)
  PROVE  FileInv'
<1>1. /\ state[r] = "leaving" /\ state' = [state EXCEPT ![r] = "unused"]
      /\ buffer' = [buffer EXCEPT ![r] = << >>]
      /\ UNCHANGED <<failed, nextId, output, id, reserved, recorded, dropped, zones,
                     calls, kept>>
  BY DEF FinishLeave, counters
<1>2. /\ state'[r] = "unused" /\ ~Attached(r) /\ ~Attached(r)'
      /\ \A s \in Recorders \ {r} : state'[s] = state[s] /\ buffer'[s] = buffer[s]
  BY <1>1 DEF Attached, Inv, ProcessTypes, BufferTypes
<1>3. Unique'
  BY <1>1, <1>2 DEF FileInv, Unique
<1>4. \A s \in Recorders : Attached(s)' <=> Attached(s)
  BY <1>2 DEF Attached
<1>5. ASSUME NEW i \in Ids PROVE FileOK(i)'
  BY <1>1, <1>4 DEF FileInv, FileOK, Over
<1>6. ASSUME NEW s \in Recorders, Attached(s)' PROVE RecorderOK(s)'
  <2>1. s # r /\ RecorderOK(s) /\ state'[s] = state[s] /\ buffer'[s] = buffer[s]
    BY <1>2, <1>4, <1>6 DEF FileInv
  <2>2. Stream(s)' = Stream(s) /\ KeptZones(s)' = KeptZones(s)
    BY <1>1, <2>1 DEF Stream, KeptZones
  <2> QED
    BY <1>1, <2>1, <2>2 DEF RecorderOK, StreamOK
<1> QED
  BY <1>3, <1>5, <1>6 DEF FileInv

\* A recorder is attached under a new id, with nothing recorded.
LEMMA ThreadInitKept ==
  ASSUME Inv, FileInv, NEW r \in Recorders, ThreadInit(r)
  PROVE  FileInv'
<1>1. /\ ~failed /\ state[r] = "unused" /\ nextId \in Ids /\ nextId' = nextId + 1
      /\ state' = [state EXCEPT ![r] = "live"] /\ id' = [id EXCEPT ![r] = nextId]
      /\ UNCHANGED <<failed, output, kept>>
  BY DEF ThreadInit, TakesId
<1>2. /\ state'[r] = "live" /\ id'[r] = nextId /\ buffer'[r] = << >> /\ reserved'[r] = 0
      /\ recorded'[r] = 0 /\ dropped'[r] = 0 /\ calls'[r] = 0
      /\ \A s \in Recorders \ {r} :
            /\ state'[s] = state[s] /\ id'[s] = id[s] /\ buffer'[s] = buffer[s]
            /\ reserved'[s] = reserved[s] /\ zones'[s] = zones[s]
            /\ recorded'[s] = recorded[s] /\ dropped'[s] = dropped[s] /\ calls'[s] = calls[s]
  BY DEF ThreadInit, Inv, ProcessTypes, BufferTypes, ZoneTypes
<1>3. \A s \in Recorders : state[s] # "unused" => id[s] # nextId
  BY TraceAssumption DEF Inv, ProcessTypes, TraceAssumption
<1>4. Unique'
  BY <1>2, <1>3 DEF FileInv, Unique
<1>5. Over(nextId)
  BY <1>3 DEF Over, Attached
<1>6. OpenAfter(output[nextId]) = << >> /\ Len(output[nextId]) = kept[nextId] /\ kept[nextId] = 0
  BY <1>1, <1>5, TraceAssumption DEF FileInv, FileOK, Ids, TraceAssumption
<1>7. ASSUME NEW i \in Ids PROVE FileOK(i)'
  <2>1. Over(i)' => Over(i)
    BY <1>1, <1>2 DEF Over, Attached
  <2>2. i >= nextId' => i >= nextId
    BY <1>1, TraceAssumption DEF Ids, TraceAssumption
  <2> QED
    BY <1>1, <2>1, <2>2 DEF FileInv, FileOK
<1>8. RecorderOK(r)'
  <2>1. output[nextId] \in Seq(Records) /\ output[nextId] = << >>
    BY <1>1, <1>6 DEF Inv, BufferTypes
  <2>2. Stream(r)' = << >>
    BY <1>1, <1>2, <2>1 DEF Stream
  <2>3. KeptZones(r)' = << >>
    BY <1>2 DEF KeptZones
  <2> QED
    BY <1>1, <1>2, <1>6, <2>1, <2>2, <2>3, CleanNone, OpenAfterNone DEF RecorderOK, StreamOK
<1>9. ASSUME NEW s \in Recorders, s # r, Attached(s)' PROVE RecorderOK(s)'
  <2>1. Attached(s) /\ RecorderOK(s)
    BY <1>2, <1>9 DEF FileInv, Attached
  <2>2. Stream(s)' = Stream(s) /\ KeptZones(s)' = KeptZones(s)
    BY <1>1, <1>2, <1>9 DEF Stream, KeptZones
  <2> QED
    BY <1>1, <1>2, <1>9, <2>1, <2>2 DEF RecorderOK, StreamOK
<1> QED
  BY <1>4, <1>7, <1>8, <1>9 DEF FileInv

\* A step that only takes an id, or touches no recorder at all.
LEMMA IdTakenKept ==
  ASSUME Inv, FileInv, nextId' \in {nextId, nextId + 1}, failed => failed',
         UNCHANGED <<output, recorderVars>>
  PROVE  FileInv'
<1>1. UNCHANGED <<state, id, buffer, reserved, recorded, dropped, zones, calls, kept>>
  BY DEF recorderVars
<1>2. Unique'
  BY <1>1 DEF FileInv, Unique
<1>3. ASSUME NEW i \in Ids PROVE FileOK(i)'
  <2>1. Over(i)' <=> Over(i)
    BY <1>1 DEF Over, Attached
  <2>2. i >= nextId' => i >= nextId
    BY TraceAssumption DEF Ids, TraceAssumption, Inv, ProcessTypes
  <2> QED
    BY <1>1, <2>1, <2>2 DEF FileInv, FileOK
<1>4. ASSUME NEW s \in Recorders, Attached(s)' PROVE RecorderOK(s)'
  <2>1. RecorderOK(s)
    BY <1>1, <1>4 DEF FileInv, Attached
  <2>2. Stream(s)' = Stream(s) /\ KeptZones(s)' = KeptZones(s)
    BY <1>1 DEF Stream, KeptZones
  <2> QED
    BY <1>1, <2>1, <2>2 DEF RecorderOK, StreamOK
<1> QED
  BY <1>2, <1>3, <1>4 DEF FileInv

LEMMA NextKept ==
  ASSUME Inv, Inv', FileInv, [Next]_vars
  PROVE  FileInv'
<1>1. CASE InitFile \/ FinishRefused \/ Finish \/ UNCHANGED vars
  <2>1. nextId' = nextId /\ failed' = failed /\ UNCHANGED <<output, recorderVars>>
    BY <1>1 DEF InitFile, FinishRefused, Finish, vars, recorderVars
  <2> QED
    BY <2>1, IdTakenKept
<1>2. ASSUME NEW r \in Recorders, ThreadInitFails(r) PROVE FileInv'
  <2>1. nextId' = nextId + 1 /\ failed' /\ UNCHANGED <<output, recorderVars>>
    BY <1>2 DEF ThreadInitFails, TakesId
  <2> QED
    BY <2>1, IdTakenKept
<1>3. ASSUME NEW r \in Recorders, Record(r) PROVE FileInv'
  BY <1>3, DroppedKept, BeginKept, EndReservedKept, EventKept DEF Record
<1>4. ASSUME NEW r \in Recorders, ThreadInit(r) \/ ThreadFlush(r) PROVE FileInv'
  BY <1>4, ThreadInitKept, FlushKept
<1>5. ASSUME NEW r \in Recorders,
             FinishStart(r) \/ FinishZone(r) \/ FinishFlush(r) \/ FinishLeave(r)
      PROVE  FileInv'
  BY <1>5, FinishStartKept, FinishZoneKept, FinishFlushKept, FinishLeaveKept
<1> QED
  BY <1>1, <1>2, <1>3, <1>4, <1>5 DEF Next

LEMMA InitFileInv == Init => FileInv
<1> SUFFICES ASSUME Init PROVE FileInv
  OBVIOUS
<1>1. /\ \A r \in Recorders : state[r] = "unused" /\ ~Attached(r)
      /\ \A i \in Ids : output[i] = << >> /\ kept[i] = 0
  BY DEF Init, Attached
<1>2. Len(<< >>) = 0
  OBVIOUS
<1>3. \A i \in Ids : FileOK(i)
  BY <1>1, <1>2, CleanNone, OpenAfterNone DEF FileOK
<1> QED
  BY <1>1, <1>3 DEF FileInv, Unique

LEMMA TraceFileInv == Spec => []FileInv
<1>1. Inv /\ Inv' /\ FileInv /\ [Next]_vars => FileInv'
  BY NextKept
<1> QED
  BY <1>1, InitFileInv, TraceInv, PTL DEF Spec

\* lor_trace_finish has closed the file and reported that nothing failed.
Closing == finished = "OK" => phase = "done" /\ ~failed

LEMMA ClosingKept ==
  ASSUME ActiveCounted, Closing, [Next]_vars
  PROVE  Closing'
<1>1. CASE phase = "done"
  <2>1. \A r \in Recorders : state[r] = "unused"
    BY <1>1 DEF ActiveCounted
  <2>2. ASSUME NEW r \in Recorders
        PROVE  /\ ~ThreadInit(r) /\ ~ThreadInitFails(r) /\ ~ThreadFlush(r)
               /\ ~FinishStart(r) /\ ~FinishZone(r) /\ ~FinishFlush(r) /\ ~FinishLeave(r)
    BY <1>1, <2>1 DEF ThreadInit, ThreadInitFails, ThreadFlush, FinishStart, FinishZone,
                      FinishFlush, FinishLeave
  <2>3. ASSUME NEW r \in Recorders PROVE ~Record(r)
    <3>1. ~Called(r)
      BY <2>1 DEF Called
    <3> QED
      BY <3>1 DEF Record, BeginSuppressed, BeginRecorded, BeginDropped, EndUnmatched,
                  EndSuppressed, EndReserved, EventSuppressed, EventRecorded, EventDropped
  <2>4. UNCHANGED vars
    BY <1>1, <2>2, <2>3 DEF Next, InitFile, FinishRefused, Finish
  <2> QED
    BY <2>4 DEF vars, Closing
<1>2. CASE phase # "done"
  <2>1. finished # "OK"
    BY <1>2 DEF Closing
  <2>2. ASSUME NEW r \in Recorders,
               \/ ThreadInit(r) \/ ThreadInitFails(r) \/ ThreadFlush(r) \/ Record(r)
               \/ FinishStart(r) \/ FinishZone(r) \/ FinishFlush(r) \/ FinishLeave(r)
        PROVE  finished' = finished
    <3>1. CASE Record(r)
      <4>1. Called(r)
        BY <3>1 DEF Record, BeginSuppressed, BeginRecorded, BeginDropped, EndUnmatched,
                    EndSuppressed, EndReserved, EventSuppressed, EventRecorded, EventDropped
      <4> QED
        BY <4>1 DEF Called
    <3> QED
      BY <2>2, <3>1 DEF ThreadInit, ThreadInitFails, ThreadFlush, FinishStart, FinishZone,
                        FinishFlush, FinishLeave
  <2>3. CASE Finish
    BY <2>3 DEF Finish, Closing
  <2>4. CASE InitFile \/ FinishRefused \/ UNCHANGED vars
    BY <2>1, <2>4 DEF InitFile, FinishRefused, vars, Closing
  <2> QED
    BY <2>1, <2>2, <2>3, <2>4 DEF Next, Closing
<1> QED
  BY <1>1, <1>2

LEMMA TraceClosing == Spec => []Closing
<1>1. Init => Closing
  BY DEF Init, Closing
<1>2. ActiveCounted /\ Closing /\ [Next]_vars => Closing'
  BY ClosingKept
<1> QED
  BY <1>1, <1>2, TraceActiveCounted, PTL DEF Spec

\* No end in the file closes a zone it does not belong to, even when writes
\* fail; until one does, what a viewer sees open after the records of a thread
\* is what is open in the program, and nothing once the recorder has finished
\* (lor_trace__append, lor_trace__end_impl, lor_trace_thread_finish).
THEOREM TraceNested == Spec => []Nested
<1>1. Inv /\ FileInv => Nested
  <2> SUFFICES ASSUME Inv, FileInv PROVE Nested
    OBVIOUS
  <2>1. NoWrongEnd
    <3> SUFFICES ASSUME NEW i \in Ids PROVE NoneWrong(OpenAfter(output[i]))
      BY DEF NoWrongEnd, NoneWrong
    <3>1. output[i] \in Seq(Records) /\ Clean(output[i])
      BY DEF Inv, BufferTypes, FileInv, FileOK
    <3> QED
      BY <3>1, CleanNoneWrong
  <2>2. ASSUME ~failed, NEW r \in Recorders, Attached(r)
        PROVE  OpenAfter(output[id[r]] \o buffer[r]) = KeptZones(r)
    BY <2>2 DEF FileInv, RecorderOK, StreamOK, Stream
  <2>3. ASSUME ~failed, NEW i \in 1 .. nextId - 1,
               \A r \in Recorders : id[r] = i => ~Attached(r)
        PROVE  OpenAfter(output[i]) = << >>
    <3>1. i \in Ids
      BY TraceAssumption DEF Inv, ProcessTypes, Ids, TraceAssumption
    <3> QED
      BY <2>3, <3>1 DEF FileInv, FileOK, Over
  <2> QED
    BY <2>1, <2>2, <2>3 DEF Nested
<1> QED
  BY <1>1, TraceInv, TraceFileInv, PTL

\* Each event asked for is recorded or dropped, the recorded ones are in the
\* file or the buffer until a write fails, and when lor_trace_finish returns OK
\* the file holds every recorded event of every thread and each zone is closed.
THEOREM TraceEventsAccounted == Spec => []EventsAccounted
<1>1. Inv /\ FileInv => Accounted
  <2> SUFFICES ASSUME Inv, FileInv, NEW r \in Recorders, state[r] = "live"
               PROVE  /\ recorded[r] + dropped[r] = calls[r]
                      /\ ~failed => Len(output[id[r]]) + Len(buffer[r]) = recorded[r]
    BY DEF Accounted
  <2>1. RecorderOK(r) /\ id[r] \in Ids
    BY InUse DEF FileInv, Attached
  <2>2. Len(Stream(r)) = Len(output[id[r]]) + Len(buffer[r])
    BY <2>1, StreamTypes DEF Inv
  <2> QED
    BY <2>1, <2>2 DEF RecorderOK, StreamOK
<1>2. FileInv /\ ActiveCounted /\ Closing => FinishComplete
  <2> SUFFICES ASSUME FileInv, ActiveCounted, Closing, finished = "OK", NEW i \in Ids
               PROVE  Len(output[i]) = kept[i] /\ OpenAfter(output[i]) = << >>
    BY DEF FinishComplete
  <2>1. ~failed /\ Over(i)
    BY DEF Closing, ActiveCounted, Over, Attached
  <2> QED
    BY <2>1 DEF FileInv, FileOK
<1> QED
  BY <1>1, <1>2, TraceInv, TraceFileInv, TraceActiveCounted, TraceClosing, PTL
  DEF EventsAccounted
----------------------------------------------------------------------------
(* Concatenation of many sequences.                                         *)

Associate(a, b, c) == (a \o b) \o c = a \o (b \o c)

\* Concatenation is associative.
LEMMA Associates ==
  ASSUME NEW S, NEW a \in Seq(S), NEW b \in Seq(S), NEW c \in Seq(S)
  PROVE  Associate(a, b, c)
  BY ConcatAssociative DEF Associate

\* Sequence s is a followed by b.
Split(s, a, b) == s = a \o b

\* J joins the first parts of P, which are sequences over S.
Joins(S, n, P, J) ==
    /\ J \in [0 .. n -> Seq(S)] /\ J[0] = << >>
    /\ \A k \in 1 .. n : J[k] = J[k - 1] \o P[k]

\* Parts can be joined.
LEMMA JoinsExist ==
  ASSUME NEW S, NEW n \in Nat, NEW P, \A k \in 1 .. n : P[k] \in Seq(S)
  PROVE  \E J : Joins(S, n, P, J)
<1> DEFINE T == {m \in 0 .. n : ~ \E J : Joins(S, m, P, J)}
<1>1. SUFFICES T = {}
  BY <1>1
<1>2. SUFFICES ASSUME T # {}
               PROVE  FALSE
  OBVIOUS
<1>3. T \in SUBSET Nat
  OBVIOUS
<1>4. PICK m \in T : \A y \in T : m <= y
  <2> HIDE DEF T
  <2> QED
    BY <1>2, <1>3, LeastNatural
<1>5. m \in 0 .. n /\ ~ \E J : Joins(S, m, P, J)
  BY <1>4
<1>6. CASE m = 0
  <2>1. [k \in 0 .. m |-> << >>] \in [0 .. m -> Seq(S)]
    OBVIOUS
  <2>2. Joins(S, m, P, [k \in 0 .. m |-> << >>])
    BY <1>6, <2>1 DEF Joins
  <2> QED
    BY <1>5, <2>2
<1>7. CASE m # 0
  <2>1. m - 1 \in 0 .. n /\ m \in 1 .. n /\ m - 1 < m
    BY <1>5, <1>7
  <2>2. m - 1 \notin T
    BY <1>4, <2>1
  <2>3. PICK J : Joins(S, m - 1, P, J)
    BY <2>1, <2>2
  <2>4. J[m - 1] \in Seq(S) /\ P[m] \in Seq(S)
    BY <2>1, <2>3 DEF Joins
  <2>5. PICK x \in Seq(S) : x = J[m - 1] \o P[m]
    BY <2>4, ConcatProperties
  <2>6. PICK K : K = [k \in 0 .. m |-> IF k = m THEN x ELSE J[k]]
    OBVIOUS
  <2>7. K \in [0 .. m -> Seq(S)]
    <3>1. \A k \in 0 .. m : k # m => k \in 0 .. m - 1
      BY <2>1
    <3>2. \A k \in 0 .. m - 1 : J[k] \in Seq(S)
      BY <2>3 DEF Joins
    <3> QED
      BY <3>1, <3>2, <2>6
  <2>8. K[0] = << >>
    BY <1>7, <2>1, <2>3, <2>6 DEF Joins
  <2>9. ASSUME NEW k \in 1 .. m
        PROVE  K[k] = K[k - 1] \o P[k]
    <3>1. k \in 0 .. m /\ k - 1 \in 0 .. m /\ k - 1 # m
      BY <2>1
    <3>2. K[k - 1] = J[k - 1]
      BY <3>1, <2>6
    <3>3. CASE k = m
      BY <3>1, <3>2, <3>3, <2>5, <2>6
    <3>4. CASE k # m
      <4>1. k \in 1 .. m - 1
        BY <3>4, <2>1
      <4>2. J[k] = J[k - 1] \o P[k]
        BY <4>1, <2>3 DEF Joins
      <4> QED
        BY <4>2, <3>1, <3>2, <3>4, <2>6
    <3> QED
      BY <3>3, <3>4
  <2>10. Joins(S, m, P, K)
    BY <2>7, <2>8, <2>9 DEF Joins
  <2> QED
    BY <1>5, <2>10
<1> QED
  BY <1>6, <1>7

\* Q is a sequence of the first parts of P.
FirstParts(S, n, P, Q) ==
    Q \in Seq(Seq(S)) /\ Len(Q) <= n /\ \A k \in 1 .. Len(Q) : Q[k] = P[k]

FlattensTo(Q, s) == TextSeq!FlattenSeq(Q) = s

\* What is joined from parts is what FlattenSeq gives for them.
LEMMA FlattenJoins ==
  ASSUME NEW S, NEW n \in Nat, NEW P, NEW J, Joins(S, n, P, J), NEW Q, FirstParts(S, n, P, Q)
  PROVE  FlattensTo(Q, J[Len(Q)])
<1>0. Q \in Seq(Seq(S)) /\ Len(Q) <= n /\ \A k \in 1 .. Len(Q) : Q[k] = P[k]
  BY DEF FirstParts
<1>. SUFFICES TextSeq!FlattenSeq(Q) = J[Len(Q)]
  BY DEF FlattensTo
<1>. USE <1>0
<1>1. PICK q \in Nat : q = Len(Q)
  OBVIOUS
<1>2. CASE q = 0
  <2>1. Q = << >>
    BY <1>1, <1>2, EmptySeq
  <2>2. TextSeq!FlattenSeq(Q) = Q
    BY <1>1, <1>2 DEF TextSeq!FlattenSeq
  <2> QED
    BY <2>1, <2>2, <1>1, <1>2 DEF Joins
<1>3. CASE q # 0
  <2> DEFINE G(f) == f = [i \in 1 .. q |-> IF i = 1 THEN Q[i] ELSE f[i - 1] \o Q[i]]
  <2>1. TextSeq!FlattenSeq(Q) = (CHOOSE f : G(f))[q]
    BY <1>1, <1>3 DEF TextSeq!FlattenSeq
  <2>2. \A k \in 1 .. q : J[k] \in Seq(S) /\ Q[k] = P[k] /\ J[k] = J[k - 1] \o Q[k]
    <3>1. \A k \in 1 .. q : k \in 0 .. n /\ k \in 1 .. n
      BY <1>1
    <3> QED
      BY <3>1, <1>1 DEF Joins
  <2>3. J[1] = Q[1]
    <3>1. 1 \in 1 .. q
      BY <1>3
    <3>2. J[1] = << >> \o Q[1]
      <4>1. J[1] = J[1 - 1] \o Q[1] /\ J[0] = << >>
        BY <3>1, <2>2 DEF Joins
      <4>2. 1 - 1 = 0
        OBVIOUS
      <4> QED
        BY <4>1, <4>2
    <3>3. Q[1] \in Seq(S)
      BY <3>1, <1>1
    <3> QED
      BY <3>2, <3>3, ConcatEmptySeq
  <2>4. G([i \in 1 .. q |-> J[i]])
    <3>1. PICK g : g = [i \in 1 .. q |-> J[i]]
      OBVIOUS
    <3>2. ASSUME NEW i \in 1 .. q
          PROVE  g[i] = IF i = 1 THEN Q[i] ELSE g[i - 1] \o Q[i]
      <4>1. CASE i = 1
        BY <4>1, <3>1, <2>3
      <4>2. CASE i # 1
        <5>1. i - 1 \in 1 .. q
          BY <4>2
        <5> QED
          BY <5>1, <4>2, <3>1, <2>2
      <4> QED
        BY <4>1, <4>2
    <3>3. g = [i \in 1 .. q |-> IF i = 1 THEN Q[i] ELSE g[i - 1] \o Q[i]]
      BY <3>1, <3>2
    <3> QED
      BY <3>1, <3>3
  <2>5. PICK f : f = (CHOOSE g : G(g)) /\ G(f)
    BY <2>4
  <2>6. f[1] = Q[1] /\ \A i \in 2 .. q : f[i] = f[i - 1] \o Q[i]
    <3>1. 1 \in 1 .. q /\ \A i \in 2 .. q : i \in 1 .. q /\ i # 1
      BY <1>3
    <3> QED
      BY <3>1, <2>5
  <2> DEFINE T == {k \in 1 .. q : f[k] # J[k]}
  <2>7. T = {}
    <3>1. SUFFICES ASSUME T # {}
                   PROVE  FALSE
      OBVIOUS
    <3>2. T \in SUBSET Nat
      OBVIOUS
    <3>3. PICK m \in T : \A y \in T : m <= y
      <4> HIDE DEF T
      <4> QED
        BY <3>1, <3>2, LeastNatural
    <3>4. CASE m = 1
      BY <3>3, <3>4, <2>3, <2>6
    <3>5. CASE m # 1
      <4>1. m \in 2 .. q /\ m - 1 \in 1 .. q /\ m - 1 < m
        BY <3>3, <3>5
      <4>2. f[m - 1] = J[m - 1]
        BY <3>3, <4>1
      <4>3. f[m] = J[m]
        BY <4>1, <4>2, <2>2, <2>6
      <4> QED
        BY <4>3, <3>3
    <3> QED
      BY <3>4, <3>5
  <2>8. q \in 1 .. q
    BY <1>3
  <2>9. f[q] = J[q]
    BY <2>7, <2>8
  <2> HIDE DEF G
  <2> QED
    BY <2>1, <2>5, <2>9, <1>1
<1> QED
  BY <1>2, <1>3

----------------------------------------------------------------------------
(* CliHelp: what calls print.                                               *)

\* The calls print t, texts of S.
Prints(S, puts, t) ==
    puts \in Seq(Seq(S)) /\ t \in Seq(S) /\ TextSeq!FlattenSeq(puts) = t

LEMMA PrintsJoined ==
  ASSUME NEW S, NEW n \in Nat, NEW P, NEW J, Joins(S, n, P, J), NEW Q, FirstParts(S, n, P, Q)
  PROVE  Prints(S, Q, J[Len(Q)])
<1>1. Len(Q) \in 0 .. n /\ Q \in Seq(Seq(S))
  BY DEF FirstParts
<1>2. J[Len(Q)] \in Seq(S)
  BY <1>1 DEF Joins
<1>3. FlattensTo(Q, J[Len(Q)])
  BY FlattenJoins, Zenon
<1> QED
  BY <1>1, <1>2, <1>3, Zenon DEF Prints, FlattensTo

\* Calls are a list of parts that can be joined.
LEMMA CallsJoin ==
  ASSUME NEW S, NEW puts \in Seq(Seq(S))
  PROVE  \E J : Joins(S, Len(puts), puts, J) /\ Prints(S, puts, J[Len(puts)])
<1>1. Len(puts) \in Nat /\ \A k \in 1 .. Len(puts) : puts[k] \in Seq(S)
  OBVIOUS
<1>2. PICK J : Joins(S, Len(puts), puts, J)
  BY <1>1, JoinsExist, Zenon
<1>3. FirstParts(S, Len(puts), puts, puts)
  BY <1>1 DEF FirstParts
<1>4. Prints(S, puts, J[Len(puts)])
  BY <1>1, <1>2, <1>3, PrintsJoined, Zenon
<1> QED
  BY <1>2, <1>4, Zenon

LEMMA PrintsNothing ==
  ASSUME NEW S
  PROVE  Prints(S, << >>, << >>)
<1>1. << >> \in Seq(Seq(S)) /\ Len(<< >>) = 0
  OBVIOUS
<1>2. PICK J : Joins(S, 0, << >>, J) /\ Prints(S, << >>, J[0])
  BY <1>1, CallsJoin
<1>3. J[0] = << >>
  BY <1>2 DEF Joins
<1> QED
  BY <1>2, <1>3, Zenon

LEMMA OneElement ==
  ASSUME NEW S, NEW x \in S
  PROVE  \E q \in Seq(S) : q = <<x>> /\ Len(q) = 1 /\ q[1] = x
<1>1. <<x>> \in Seq(S) /\ Len(<<x>>) = 1 /\ <<x>>[1] = x
  OBVIOUS
<1> WITNESS <<x>> \in Seq(S)
<1> QED
  BY <1>1

LEMMA PrintsOne ==
  ASSUME NEW S, NEW t \in Seq(S)
  PROVE  Prints(S, <<t>>, t)
<1>1. PICK q \in Seq(Seq(S)) : q = <<t>> /\ Len(q) = 1 /\ q[1] = t
  BY OneElement, Zenon
<1>2. PICK J : Joins(S, 1, q, J) /\ Prints(S, q, J[1])
  BY <1>1, CallsJoin
<1>3. 1 \in 1 .. 1 /\ 1 - 1 = 0
  OBVIOUS
<1>4. J[1] = << >> \o t
  <2>1. J[1] = J[1 - 1] \o q[1] /\ J[0] = << >>
    BY <1>2, <1>3 DEF Joins
  <2> QED
    BY <2>1, <1>1, <1>3
<1>5. J[1] = t
  BY <1>4, ConcatEmptySeq
<1> QED
  BY <1>1, <1>2, <1>5, Zenon
\* Parts that come behind others are joined behind what those joined.
LEMMA JoinsBehind ==
  ASSUME NEW S, NEW n \in Nat, NEW P, NEW J, Joins(S, n, P, J),
         NEW m \in 0 .. n, NEW l \in Nat, m + l = n,
         NEW R, NEW K, Joins(S, l, R, K), \A k \in 1 .. l : P[m + k] = R[k] /\ R[k] \in Seq(S)
  PROVE  Split(J[n], J[m], K[l])
<1> DEFINE Same(k) == J[m + k] = J[m] \o K[k]
           T == {k \in 0 .. l : ~Same(k)}
<1>1. SUFFICES T = {}
  <2>1. Same(l)
    <3> HIDE DEF Same
    <3> QED
      BY <1>1
  <2> QED
    BY <2>1 DEF Split
<1>2. SUFFICES ASSUME T # {}
               PROVE  FALSE
  OBVIOUS
<1> HIDE DEF Same
<1>3. T \in SUBSET Nat
  OBVIOUS
<1>4. PICK k \in T : \A y \in T : k <= y
  <2> HIDE DEF T
  <2> QED
    BY <1>2, <1>3, LeastNatural
<1>5. k \in 0 .. l /\ ~Same(k)
  BY <1>4
<1>6. J[m] \in Seq(S)
  BY DEF Joins
<1>7. CASE k = 0
  <2>1. J[m] = J[m] \o << >>
    BY <1>6, ConcatEmptySeq
  <2>2. K[0] = << >> /\ m + 0 = m
    BY DEF Joins
  <2> QED
    BY <1>5, <1>7, <2>1, <2>2 DEF Same
<1>8. CASE k # 0
  <2>1. /\ k \in 1 .. l /\ k - 1 \in 0 .. l /\ k - 1 < k
        /\ m + k \in 1 .. n /\ (m + k) - 1 = m + (k - 1)
    BY <1>4, <1>8
  <2>2. J[m + (k - 1)] = J[m] \o K[k - 1]
    <3>1. Same(k - 1)
      BY <1>4, <2>1
    <3> QED
      BY <3>1, Zenon DEF Same
  <2>3. J[m + k] = J[m + (k - 1)] \o R[k]
    <3>1. J[m + k] = J[(m + k) - 1] \o P[m + k]
      BY <2>1 DEF Joins
    <3> QED
      BY <3>1, <2>1, Zenon
  <2>4. K[k] = K[k - 1] \o R[k] /\ K[k - 1] \in Seq(S) /\ R[k] \in Seq(S)
    BY <2>1 DEF Joins
  <2>5. (J[m] \o K[k - 1]) \o R[k] = J[m] \o (K[k - 1] \o R[k])
    <3>1. Associate(J[m], K[k - 1], R[k])
      BY <1>6, <2>4, Associates, Zenon
    <3> QED
      BY <3>1, Zenon DEF Associate
  <2>6. J[m + k] = J[m] \o K[k]
    BY <2>2, <2>3, <2>4, <2>5, Zenon
  <2> QED
    BY <1>5, <2>6, Zenon DEF Same
<1> QED
  BY <1>7, <1>8

LEMMA PrintsBoth ==
  ASSUME NEW S, NEW c, NEW s, Prints(S, c, s), NEW d, NEW t, Prints(S, d, t)
  PROVE  Prints(S, c \o d, s \o t)
<1>1. c \in Seq(Seq(S)) /\ d \in Seq(Seq(S)) /\ s \in Seq(S) /\ t \in Seq(S)
  BY DEF Prints
<1>2. PICK m \in Nat, l \in Nat : m = Len(c) /\ l = Len(d)
  BY <1>1
<1>3. PICK q \in Seq(Seq(S)) :
         /\ q = c \o d /\ Len(q) = m + l
         /\ \A k \in 1 .. m : q[k] = c[k]
         /\ \A k \in 1 .. l : q[m + k] = d[k]
  <2>1. c \o d \in Seq(Seq(S)) /\ Len(c \o d) = m + l
    BY <1>1, <1>2, ConcatProperties
  <2>2. \A k \in 1 .. m + l : (c \o d)[k] = IF k <= m THEN c[k] ELSE d[k - m]
    BY <1>1, <1>2, ConcatProperties
  <2>3. \A k \in 1 .. m : k \in 1 .. m + l /\ k <= m
    OBVIOUS
  <2>4. \A k \in 1 .. l : m + k \in 1 .. m + l /\ ~(m + k <= m) /\ (m + k) - m = k
    OBVIOUS
  <2>5. \A k \in 1 .. m : (c \o d)[k] = c[k]
    BY <2>2, <2>3
  <2>6. \A k \in 1 .. l : (c \o d)[m + k] = d[k]
    BY <2>2, <2>4
  <2> QED
    BY <2>1, <2>5, <2>6, Zenon
<1>4. PICK J : Joins(S, m + l, q, J) /\ Prints(S, q, J[m + l])
  BY <1>3, CallsJoin
<1>5. PICK K : Joins(S, l, d, K) /\ Prints(S, d, K[l])
  BY <1>1, <1>2, CallsJoin
<1>6. J[m] = s
  <2>1. FirstParts(S, m + l, q, c)
    <3>1. \A k \in 1 .. m : c[k] = q[k]
      BY <1>3
    <3>2. m <= m + l
      OBVIOUS
    <3> QED
      BY <3>1, <3>2, <1>1, <1>2, Zenon DEF FirstParts
  <2>2. m + l \in Nat
    OBVIOUS
  <2>3. Prints(S, c, J[Len(c)])
    BY <2>1, <2>2, <1>4, PrintsJoined, Zenon
  <2> QED
    BY <2>3, <1>2, Zenon DEF Prints
<1>7. K[l] = t
  BY <1>5, Zenon DEF Prints
<1>8. J[m + l] = J[m] \o K[l]
  <2>1. \A k \in 1 .. l : q[m + k] = d[k] /\ d[k] \in Seq(S)
    BY <1>1, <1>2, <1>3
  <2>2. m \in 0 .. m + l /\ m + l \in Nat
    OBVIOUS
  <2>3. m + l \in Nat /\ m \in 0 .. m + l /\ m + l = m + l
    OBVIOUS
  <2>4. Split(J[m + l], J[m], K[l])
    BY <2>1, <2>3, <1>4, <1>5, JoinsBehind, Zenon
  <2> QED
    BY <2>4, Zenon DEF Split
<1> QED
  BY <1>3, <1>4, <1>6, <1>7, <1>8, Zenon

LEMMA PrintsWhen ==
  ASSUME NEW S, NEW text \in S, NEW condition
  PROVE  Prints(S, When(condition, text), IF condition THEN <<text>> ELSE << >>)
<1>1. PICK t \in Seq(S) : t = <<text>>
  BY OneElement
<1>2. CASE condition
  BY <1>1, <1>2, PrintsOne, Zenon DEF When
<1>3. CASE ~condition
  BY <1>3, PrintsNothing, Zenon DEF When
<1> QED
  BY <1>2, <1>3

----------------------------------------------------------------------------
(* CliHelp: the columns of a text.                                          *)

\* c has the column in which each text of t begins, and the one behind the last, when the
\* first begins in column x.
Runs(t, c, x) ==
    /\ c \in [1 .. Len(t) + 1 -> Nat] /\ c[1] = x
    /\ \A k \in 1 .. Len(t) :
          c[k + 1] = IF t[k].role = "newline" THEN 0 ELSE c[k] + t[k].size

LEMMA RunsExist ==
  ASSUME NEW n \in Nat, NEW t, Len(t) = n, \A k \in 1 .. n : t[k].size \in Nat, NEW x \in Nat
  PROVE  \E c : Runs(t, c, x)
<1> DEFINE G(m, c) == /\ c \in [1 .. m + 1 -> Nat] /\ c[1] = x
                      /\ \A k \in 1 .. m : c[k + 1] = IF t[k].role = "newline" THEN 0
                                                      ELSE c[k] + t[k].size
           T == {m \in 0 .. n : ~ \E c : G(m, c)}
<1>1. SUFFICES T = {}
  <2>1. \E c : G(n, c)
    <3> HIDE DEF G
    <3> QED
      BY <1>1
  <2> QED
    BY <2>1 DEF Runs
<1>2. SUFFICES ASSUME T # {}
               PROVE  FALSE
  OBVIOUS
<1>3. T \in SUBSET Nat
  <2> HIDE DEF G
  <2> QED
    OBVIOUS
<1>4. PICK m \in T : \A y \in T : m <= y
  <2> HIDE DEF T
  <2> QED
    BY <1>2, <1>3, LeastNatural
<1>5. m \in 0 .. n /\ ~ \E c : G(m, c)
  <2> HIDE DEF G
  <2> QED
    BY <1>4
<1>6. CASE m = 0
  <2>1. G(0, [k \in 1 .. 1 |-> x])
    OBVIOUS
  <2> HIDE DEF G
  <2> QED
    BY <1>5, <1>6, <2>1
<1>7. CASE m # 0
  <2>1. PICK l \in Nat : m = l + 1 /\ l \in 0 .. n /\ l < m /\ m \in 1 .. n
    <3>1. m - 1 \in Nat /\ m = (m - 1) + 1 /\ m - 1 \in 0 .. n /\ m - 1 < m /\ m \in 1 .. n
      BY <1>5, <1>7
    <3> QED
      BY <3>1
  <2>2. PICK c : G(l, c)
    <3> HIDE DEF G
    <3> QED
      BY <1>4, <2>1
  <2>3. PICK y \in Nat : y = IF t[m].role = "newline" THEN 0 ELSE c[m] + t[m].size
    <3>1. c[m] \in Nat /\ t[m].size \in Nat
      BY <2>1, <2>2
    <3> QED
      BY <3>1
  <2>4. PICK d : d = [k \in 1 .. m + 1 |-> IF k = m + 1 THEN y ELSE c[k]]
    OBVIOUS
  <2>5. d \in [1 .. m + 1 -> Nat] /\ d[1] = x
    <3>1. \A k \in 1 .. m + 1 : k # m + 1 => k \in 1 .. l + 1
      BY <2>1
    <3>2. \A k \in 1 .. l + 1 : c[k] \in Nat
      BY <2>2
    <3> QED
      BY <3>1, <3>2, <2>1, <2>2, <2>4
  <2>6. ASSUME NEW k \in 1 .. m
        PROVE  d[k + 1] = IF t[k].role = "newline" THEN 0 ELSE d[k] + t[k].size
    <3>1. d[k] = c[k]
      BY <2>1, <2>4
    <3>2. CASE k = m
      BY <3>1, <3>2, <2>1, <2>3, <2>4
    <3>3. CASE k # m
      <4>1. k \in 1 .. l /\ d[k + 1] = c[k + 1]
        BY <3>3, <2>1, <2>4
      <4> QED
        BY <3>1, <4>1, <2>2
    <3> QED
      BY <3>2, <3>3
  <2>7. G(m, d)
    BY <2>5, <2>6
  <2> HIDE DEF G
  <2> QED
    BY <1>5, <2>7
<1> QED
  BY <1>6, <1>7, <1>5

\* The k-th text is the help of a line whose label has size s, in a section of width w.
HelpAt(t, c, k, s, w) ==
    /\ 3 < k /\ t[k - 1].role = "blanks" /\ t[k - 2].role = "blanks"
    /\ t[k - 3].role \notin {"blanks", "newline"} /\ c[k - 3] + t[k - 3].size = 2 + s
    /\ c[k] = 2 + s + FillUp(s, w) + 2

\* The text t consists of whole lines over S, of which n have a help: the i-th of them at
\* place p[i], with a label of size f[i] in a section of width w[i].
Lines(S, t, n, f, w, c, p) ==
    /\ t \in Seq(S) /\ n \in Nat /\ Runs(t, c, 0) /\ c[Len(t) + 1] = 0
    /\ p \in [1 .. n -> 1 .. Len(t)] /\ \A i, j \in 1 .. n : p[i] = p[j] => i = j
    /\ \A k \in 1 .. Len(t) : t[k].role = "help" <=> \E i \in 1 .. n : p[i] = k
    /\ \A i \in 1 .. n : HelpAt(t, c, p[i], f[i], w[i])

\* What is known of a concatenation, without a word on how it is made.
Behind(t, a, b) ==
    /\ Len(t) = Len(a) + Len(b) /\ \A k \in 1 .. Len(a) : t[k] = a[k]
    /\ \A k \in 1 .. Len(b) : t[Len(a) + k] = b[k]

LEMMA Concatenated ==
  ASSUME NEW S, NEW a \in Seq(S), NEW b \in Seq(S)
  PROVE  a \o b \in Seq(S) /\ Behind(a \o b, a, b)
<1>1. PICK m \in Nat, l \in Nat : m = Len(a) /\ l = Len(b)
  OBVIOUS
<1>2. a \o b \in Seq(S) /\ Len(a \o b) = m + l
  BY <1>1, ConcatProperties
<1>3. \A k \in 1 .. m + l : (a \o b)[k] = IF k <= m THEN a[k] ELSE b[k - m]
  BY <1>1, ConcatProperties
<1>4. \A k \in 1 .. m : k \in 1 .. m + l /\ k <= m
  OBVIOUS
<1>5. \A k \in 1 .. l : m + k \in 1 .. m + l /\ ~(m + k <= m) /\ (m + k) - m = k
  OBVIOUS
<1>6. \A k \in 1 .. m : (a \o b)[k] = a[k]
  BY <1>3, <1>4
<1>7. \A k \in 1 .. l : (a \o b)[m + k] = b[k]
  BY <1>3, <1>5
<1> QED
  BY <1>1, <1>2, <1>6, <1>7, Zenon DEF Behind

\* The columns of two texts, one behind the other.
Meet(c, d, e, m, l) ==
    e = [k \in 1 .. (m + l) + 1 |-> IF k <= m THEN c[k] ELSE d[k - m]]

Met(t, e, x, c, d, m, l) ==
    /\ Runs(t, e, x)
    /\ \A k \in 1 .. m + 1 : e[k] = c[k]
    /\ \A k \in 1 .. l + 1 : e[m + k] = d[k]

LEMMA RunsMeet ==
  ASSUME NEW m \in Nat, NEW l \in Nat, NEW a, NEW b, NEW t, Len(a) = m, Len(b) = l,
         Behind(t, a, b), NEW c, NEW x \in Nat, Runs(a, c, x), NEW d, Runs(b, d, c[m + 1]),
         NEW e, Meet(c, d, e, m, l)
  PROVE  Met(t, e, x, c, d, m, l)
<1>1. /\ \A k \in 1 .. m + 1 : c[k] \in Nat
      /\ \A k \in 1 .. l + 1 : d[k] \in Nat
      /\ d[1] = c[m + 1] /\ c[1] = x
  BY DEF Runs
<1>2. \A k \in 1 .. m + 1 : e[k] = c[k]
  <2> TAKE k \in 1 .. m + 1
  <2>1. k \in 1 .. (m + l) + 1 /\ (k <= m \/ (k = m + 1 /\ k - m = 1 /\ ~(k <= m)))
    OBVIOUS
  <2> QED
    BY <2>1, <1>1 DEF Meet
<1>3. \A k \in 1 .. l + 1 : e[m + k] = d[k]
  <2> TAKE k \in 1 .. l + 1
  <2>1. m + k \in 1 .. (m + l) + 1 /\ ~(m + k <= m) /\ (m + k) - m = k
    OBVIOUS
  <2> QED
    BY <2>1 DEF Meet
<1>4. \A k \in 1 .. (m + l) + 1 : k \in 1 .. m + 1 \/ \E j \in 1 .. l + 1 : k = m + j
  <2> TAKE k \in 1 .. (m + l) + 1
  <2>1. k \in 1 .. m + 1 \/ (k - m \in 1 .. l + 1 /\ k = m + (k - m))
    OBVIOUS
  <2> QED
    BY <2>1
<1>5. e \in [1 .. (m + l) + 1 -> Nat]
  <2>1. ASSUME NEW k \in 1 .. (m + l) + 1
        PROVE  e[k] \in Nat
    <3>1. CASE k \in 1 .. m + 1
      BY <3>1, <1>1, <1>2, Zenon
    <3>2. CASE \E j \in 1 .. l + 1 : k = m + j
      <4>1. PICK j \in 1 .. l + 1 : k = m + j
        BY <3>2, Zenon
      <4>2. e[k] = d[j]
        BY <4>1, <1>3, Zenon
      <4> QED
        BY <4>2, <1>1, Zenon
    <3> QED
      BY <3>1, <3>2, <1>4, Zenon
  <2> QED
    BY <2>1 DEF Meet
<1>6. e[1] = x
  BY <1>1, <1>2
<1>7. ASSUME NEW k \in 1 .. m + l
      PROVE  e[k + 1] = IF t[k].role = "newline" THEN 0 ELSE e[k] + t[k].size
  <2>1. CASE k <= m
    <3>1. k \in 1 .. m /\ k \in 1 .. m + 1 /\ k + 1 \in 1 .. m + 1
      BY <2>1
    <3>2. e[k] = c[k] /\ e[k + 1] = c[k + 1] /\ t[k] = a[k]
      BY <3>1, <1>2 DEF Behind
    <3> QED
      BY <3>1, <3>2 DEF Runs
  <2>2. CASE ~(k <= m)
    <3>1. PICK j \in 1 .. l : k = m + j /\ k + 1 = m + (j + 1) /\ {j, j + 1} \subseteq 1 .. l + 1
      <4>1. /\ k - m \in 1 .. l /\ k = m + (k - m) /\ k + 1 = m + ((k - m) + 1)
            /\ {k - m, (k - m) + 1} \subseteq 1 .. l + 1
        BY <2>2
      <4> QED
        BY <4>1
    <3>2. e[k] = d[j] /\ e[k + 1] = d[j + 1] /\ t[k] = b[j]
      BY <3>1, <1>3 DEF Behind
    <3> QED
      BY <3>1, <3>2 DEF Runs
  <2> QED
    BY <2>1, <2>2
<1>8. Len(t) = m + l
  BY DEF Behind
<1> QED
  BY <1>2, <1>3, <1>5, <1>6, <1>7, <1>8 DEF Runs, Met

\* The sizes and widths of the first lines, and those of the ones behind them.
Together(n, f, w, m, g, v, h, u) ==
    /\ \A i \in 1 .. n : h[i] = f[i] /\ u[i] = w[i]
    /\ \A i \in 1 .. m : h[n + i] = g[i] /\ u[n + i] = v[i]

\* The places of the helps of two texts, one behind the other.
PlacesMeet(n, m, l, p, q, r) ==
    (\A i \in 1 .. n : r[i] = p[i]) /\ (\A i \in 1 .. m : r[n + i] = l + q[i])

\* Lines behind lines: the helps keep their places, those of the second text behind the first.
LEMMA LinesMeet ==
  ASSUME NEW S, NEW a, NEW n, NEW f, NEW w, NEW c, NEW p, Lines(S, a, n, f, w, c, p),
         NEW b, NEW m, NEW g, NEW v, NEW d, NEW q, Lines(S, b, m, g, v, d, q),
         NEW h, NEW u, Together(n, f, w, m, g, v, h, u)
  PROVE  \E e, r : Lines(S, a \o b, n + m, h, u, e, r) /\ PlacesMeet(n, m, Len(a), p, q, r)
<1>1. PICK la \in Nat, lb \in Nat : la = Len(a) /\ lb = Len(b)
  BY DEF Lines
<1>2. PICK t : t = a \o b /\ t \in Seq(S) /\ Behind(t, a, b)
  BY Concatenated DEF Lines
<1>3. PICK e : Meet(c, d, e, la, lb)
  BY DEF Meet
<1>4. /\ Runs(t, e, 0)
      /\ \A k \in 1 .. la + 1 : e[k] = c[k]
      /\ \A k \in 1 .. lb + 1 : e[la + k] = d[k]
  <2>1. c[la + 1] = 0 /\ Runs(a, c, 0) /\ Runs(b, d, 0) /\ 0 \in Nat
    BY <1>1 DEF Lines
  <2>2. Runs(b, d, c[la + 1])
    BY <2>1
  <2>3. Len(a) = la /\ Len(b) = lb /\ Behind(t, a, b)
    BY <1>1, <1>2
  <2>4. Met(t, e, 0, c, d, la, lb)
    BY <2>1, <2>2, <2>3, <1>3, RunsMeet, Zenon
  <2> QED
    BY <2>4, Zenon DEF Met
<1>5. n \in Nat /\ m \in Nat
  BY DEF Lines
<1>6. PICK r : r = [i \in 1 .. n + m |-> IF i <= n THEN p[i] ELSE la + q[i - n]]
  OBVIOUS
<1>7. \A i \in 1 .. n : r[i] = p[i] /\ p[i] \in 1 .. la
  <2> TAKE i \in 1 .. n
  <2>1. i \in 1 .. n + m /\ i <= n
    BY <1>5
  <2> QED
    BY <2>1, <1>1, <1>6 DEF Lines
<1>8. \A i \in 1 .. m : r[n + i] = la + q[i] /\ q[i] \in 1 .. lb
  <2> TAKE i \in 1 .. m
  <2>1. n + i \in 1 .. n + m /\ ~(n + i <= n) /\ (n + i) - n = i
    BY <1>5
  <2> QED
    BY <2>1, <1>1, <1>6 DEF Lines
<1>9. \A i \in 1 .. n + m : i \in 1 .. n \/ \E j \in 1 .. m : i = n + j
  <2> TAKE i \in 1 .. n + m
  <2>1. i \in 1 .. n \/ (i - n \in 1 .. m /\ i = n + (i - n))
    BY <1>5
  <2> QED
    BY <2>1
<1>10. \A k \in 1 .. la + lb : k \in 1 .. la \/ \E j \in 1 .. lb : k = la + j
  <2> TAKE k \in 1 .. la + lb
  <2>1. k \in 1 .. la \/ (k - la \in 1 .. lb /\ k = la + (k - la))
    OBVIOUS
  <2> QED
    BY <2>1
<1>11. Len(t) = la + lb /\ (\A k \in 1 .. la : t[k] = a[k])
       /\ \A k \in 1 .. lb : t[la + k] = b[k]
  BY <1>1, <1>2 DEF Behind
<1>12. e[(la + lb) + 1] = 0
  <2>1. lb + 1 \in 1 .. lb + 1 /\ (la + lb) + 1 = la + (lb + 1)
    OBVIOUS
  <2>2. d[lb + 1] = 0
    BY <1>1, Zenon DEF Lines
  <2>3. e[la + (lb + 1)] = d[lb + 1]
    BY <2>1, <1>4, Zenon
  <2> QED
    BY <2>1, <2>2, <2>3, Zenon
<1>13. r \in [1 .. n + m -> 1 .. la + lb]
  <2>1. \A i \in 1 .. n : r[i] \in 1 .. la + lb
    BY <1>7
  <2>2. \A i \in 1 .. m : r[n + i] \in 1 .. la + lb
    BY <1>8
  <2>3. \A i \in 1 .. n + m : r[i] \in 1 .. la + lb
    BY <2>1, <2>2, <1>9
  <2> QED
    BY <2>3, <1>6
<1>14. ASSUME NEW i \in 1 .. n + m, NEW j \in 1 .. n + m, r[i] = r[j]
       PROVE  i = j
  <2>1. CASE i \in 1 .. n /\ j \in 1 .. n
    BY <2>1, <1>7, <1>14 DEF Lines
  <2>2. ASSUME NEW k \in 1 .. m, NEW l \in 1 .. m, i = n + k, j = n + l
        PROVE  i = j
    <3>1. q[k] = q[l]
      BY <2>2, <1>8, <1>14
    <3>2. k = l
      BY <3>1 DEF Lines
    <3> QED
      BY <3>2, <2>2
  <2>3. ASSUME NEW k \in 1 .. n, NEW l \in 1 .. m
        PROVE  r[k] # r[n + l]
    BY <1>7, <1>8
  <2> QED
    BY <2>1, <2>2, <2>3, <1>9, <1>14
<1>15. ASSUME NEW k \in 1 .. la + lb
       PROVE  t[k].role = "help" <=> \E i \in 1 .. n + m : r[i] = k
  <2>1. CASE k \in 1 .. la
    <3>1. t[k].role = "help" <=> \E i \in 1 .. n : p[i] = k
      BY <2>1, <1>1, <1>11 DEF Lines
    <3>2. \A i \in 1 .. n : i \in 1 .. n + m /\ r[i] = p[i]
      BY <1>5, <1>7
    <3>3. \A i \in 1 .. m : r[n + i] # k
      BY <2>1, <1>8
    <3> QED
      BY <3>1, <3>2, <3>3, <1>9
  <2>2. ASSUME NEW j \in 1 .. lb, k = la + j
        PROVE  t[k].role = "help" <=> \E i \in 1 .. n + m : r[i] = k
    <3>1. b[j].role = "help" <=> \E i \in 1 .. m : q[i] = j
      BY <2>2, <1>1, Zenon DEF Lines
    <3>2. t[k] = b[j]
      BY <2>2, <1>11
    <3>3. \A i \in 1 .. m : n + i \in 1 .. n + m /\ (r[n + i] = k <=> q[i] = j)
      BY <2>2, <1>5, <1>8
    <3>4. \A i \in 1 .. n : r[i] # k
      BY <2>2, <1>7
    <3> QED
      BY <3>2, <3>1, <3>3, <3>4, <1>9
  <2> QED
    BY <2>1, <2>2, <1>10
<1>16. ASSUME NEW i \in 1 .. n
       PROVE  HelpAt(t, e, r[i], h[i], u[i])
  <2>1. HelpAt(a, c, p[i], f[i], w[i]) /\ p[i] \in 1 .. la
    BY <1>7 DEF Lines
  <2>2. 3 < p[i]
    BY <2>1 DEF HelpAt
  <2>3. {p[i] - 1, p[i] - 2, p[i] - 3, p[i]} \subseteq 1 .. la
    BY <2>1, <2>2
  <2>4. HelpAt(t, e, p[i], f[i], w[i])
    <3>1. \A k \in 1 .. la : t[k] = a[k] /\ e[k] = c[k]
      BY <1>4, <1>11
    <3> QED
      BY <2>1, <2>3, <3>1 DEF HelpAt
  <2> QED
    BY <2>4, <1>7 DEF Together
<1>17. ASSUME NEW i \in 1 .. m
       PROVE  HelpAt(t, e, r[n + i], h[n + i], u[n + i])
  <2>1. HelpAt(b, d, q[i], g[i], v[i]) /\ q[i] \in 1 .. lb
    BY <1>8 DEF Lines
  <2>2. 3 < q[i]
    BY <2>1 DEF HelpAt
  <2>3. {q[i] - 1, q[i] - 2, q[i] - 3, q[i]} \subseteq 1 .. lb
    BY <2>1, <2>2
  <2>4. HelpAt(t, e, la + q[i], g[i], v[i])
    <3>1. \A k \in 1 .. lb : t[la + k] = b[k] /\ e[la + k] = d[k]
      BY <1>4, <1>11
    <3>2. /\ (la + q[i]) - 1 = la + (q[i] - 1) /\ (la + q[i]) - 2 = la + (q[i] - 2)
          /\ (la + q[i]) - 3 = la + (q[i] - 3) /\ 3 < la + q[i]
      BY <2>1, <2>2
    <3> QED
      BY <2>1, <2>3, <3>1, <3>2 DEF HelpAt
  <2> QED
    BY <2>4, <1>8 DEF Together
<1>18. \A i \in 1 .. n + m : HelpAt(t, e, r[i], h[i], u[i])
  BY <1>9, <1>16, <1>17
<1>19. n + m \in Nat
  BY <1>5
<1>20. Lines(S, t, n + m, h, u, e, r)
  <2>1. \A i, j \in 1 .. n + m : r[i] = r[j] => i = j
    BY <1>14
  <2> QED
    BY <2>1, <1>2, <1>4, <1>11, <1>12, <1>13, <1>15, <1>18, <1>19, Zenon DEF Lines
<1>21. PlacesMeet(n, m, Len(a), p, q, r)
  BY <1>1, <1>7, <1>8 DEF PlacesMeet
<1> QED
  BY <1>2, <1>20, <1>21, Zenon

\* What stands between a label of size s and the help of a line, and the help.
Filling(s, v) == <<Blanks(FillUp(s, v)), Blanks(2), Text("help", 0)>>

LEMMA FillUpNatural ==
  ASSUME NEW s \in Nat, NEW v \in Nat
  PROVE  FillUp(s, v) \in Nat
<1>1. CASE s < v
  BY <1>1 DEF FillUp
<1>2. CASE ~(s < v)
  BY <1>2 DEF FillUp
<1> QED
  BY <1>1, <1>2

LEMMA OfThree ==
  ASSUME NEW n \in Nat, NEW k \in n + 1 .. n + 3
  PROVE  k = n + 1 \/ k = n + 2 \/ k = n + 3
OBVIOUS

\* A line with a help: what comes before the filling ends with a label, and what comes
\* behind it ends the line.
LEMMA LineWithHelp ==
  ASSUME NEW S, NEW s \in Nat, NEW v \in Nat,
         NEW a \in Seq(S), NEW c, Runs(a, c, 0), Len(a) # 0, c[Len(a) + 1] = 2 + s,
         a[Len(a)].role \notin {"blanks", "newline"},
         \A k \in 1 .. Len(a) : a[k].role # "help",
         Filling(s, v) \in Seq(S),
         NEW z \in Seq(S), Len(z) # 0, z[Len(z)].role = "newline",
         \A k \in 1 .. Len(z) : z[k].role # "help" /\ z[k].size \in Nat,
         NEW f, NEW w, f[1] = s, w[1] = v
  PROVE  \E e, p : Lines(S, (a \o Filling(s, v)) \o z, 1, f, w, e, p)
<1>1. PICK la \in Nat, lz \in Nat : la = Len(a) /\ lz = Len(z) /\ la # 0 /\ lz # 0
  OBVIOUS
<1>2. PICK x \in Nat : x = FillUp(s, v)
  BY FillUpNatural, Zenon
<1>3. PICK b \in Seq(S) : /\ b = Filling(s, v) /\ Len(b) = 3
                          /\ b[1] = Blanks(x) /\ b[2] = Blanks(2) /\ b[3] = Text("help", 0)
  BY <1>2 DEF Filling
<1>4. /\ b[1].role = "blanks" /\ b[1].size = x /\ b[2].role = "blanks" /\ b[2].size = 2
      /\ b[3].role = "help" /\ b[3].size = 0
  BY <1>3 DEF Blanks, Text
<1>5. PICK t \in Seq(S) : t = a \o b /\ Behind(t, a, b)
  BY Concatenated, Zenon
<1>6. PICK y \in Seq(S) : y = t \o z /\ Behind(y, t, z)
  BY Concatenated, Zenon
<1>7. PICK d : Runs(b, d, 2 + s)
  <2>1. \A k \in 1 .. 3 : k = 1 \/ k = 2 \/ k = 3
    OBVIOUS
  <2>2. b[1].size \in Nat /\ b[2].size \in Nat /\ b[3].size \in Nat
    BY <1>4
  <2>3. \A k \in 1 .. 3 : b[k].size \in Nat
    BY <2>1, <2>2, Zenon
  <2>4. 3 \in Nat /\ 2 + s \in Nat
    OBVIOUS
  <2> QED
    BY <2>3, <2>4, <1>3, RunsExist, Zenon
<1>8. d[3] = 2 + s + x + 2 /\ d[4] = 2 + s + x + 2
  <2>1. d[1] = 2 + s
    BY <1>7 DEF Runs
  <2>2. \A k \in 1 .. 3 : d[k + 1] = IF b[k].role = "newline" THEN 0 ELSE d[k] + b[k].size
    BY <1>3, <1>7, Zenon DEF Runs
  <2>3. /\ 1 \in 1 .. 3 /\ 2 \in 1 .. 3 /\ 3 \in 1 .. 3
        /\ 1 + 1 = 2 /\ 2 + 1 = 3 /\ 3 + 1 = 4
    OBVIOUS
  <2>4. d[2] = d[1] + x /\ d[3] = d[2] + 2 /\ d[4] = d[3] + 0
    BY <2>2, <2>3, <1>4
  <2> QED
    BY <2>1, <2>4
<1>9. PICK e : Meet(c, d, e, la, 3)
  BY DEF Meet
<1>10. /\ Runs(t, e, 0) /\ Len(t) = la + 3
       /\ \A k \in 1 .. la + 1 : e[k] = c[k]
       /\ \A k \in 1 .. 3 + 1 : e[la + k] = d[k]
  <2>1. Runs(b, d, c[la + 1]) /\ Len(a) = la /\ Len(b) = 3
    BY <1>1, <1>3, <1>7
  <2>2. Len(t) = la + 3
    BY <2>1, <1>5 DEF Behind
  <2>3. 0 \in Nat /\ 3 \in Nat
    OBVIOUS
  <2>4. Met(t, e, 0, c, d, la, 3)
    BY <2>1, <2>3, <1>5, <1>9, RunsMeet, Zenon
  <2> QED
    BY <2>2, <2>4, Zenon DEF Met
<1>11. PICK g : Runs(z, g, 2 + s + x + 2)
  <2>1. \A k \in 1 .. lz : z[k].size \in Nat
    BY <1>1
  <2>2. 2 + s + x + 2 \in Nat
    BY ONLY s \in Nat, x \in Nat
  <2> QED
    BY <2>1, <2>2, <1>1, RunsExist, Zenon
<1>12. g[lz + 1] = 0
  <2>1. lz \in 1 .. lz
    BY <1>1
  <2> QED
    BY <2>1, <1>1, <1>11 DEF Runs
<1>13. PICK h : Meet(e, g, h, la + 3, lz)
  BY DEF Meet
<1>14. /\ Runs(y, h, 0) /\ Len(y) = (la + 3) + lz
       /\ \A k \in 1 .. (la + 3) + 1 : h[k] = e[k]
       /\ \A k \in 1 .. lz + 1 : h[(la + 3) + k] = g[k]
  <2>1. e[(la + 3) + 1] = 2 + s + x + 2
    <3>1. (la + 3) + 1 = la + 4 /\ 4 \in 1 .. 3 + 1
      OBVIOUS
    <3> QED
      BY <3>1, <1>8, <1>10
  <2>2. Runs(z, g, e[(la + 3) + 1]) /\ Len(t) = la + 3 /\ Len(z) = lz
    BY <2>1, <1>1, <1>10, <1>11
  <2>3. Len(y) = (la + 3) + lz
    BY <2>2, <1>6 DEF Behind
  <2>4. la + 3 \in Nat /\ 0 \in Nat
    BY <1>1
  <2>5. PICK m \in Nat : m = la + 3
    BY <2>4
  <2>6. /\ Len(t) = m /\ Meet(e, g, h, m, lz) /\ Runs(z, g, e[m + 1]) /\ Len(z) = lz
        /\ Behind(y, t, z) /\ Runs(t, e, 0)
    BY <2>2, <2>5, <1>6, <1>10, <1>13
  <2>7. Met(y, h, 0, e, g, m, lz)
    BY <2>4, <2>6, RunsMeet, Zenon
  <2> QED
    BY <2>3, <2>5, <2>7, Zenon DEF Met
<1>15. h[Len(y) + 1] = 0
  <2>1. ((la + 3) + lz) + 1 = (la + 3) + (lz + 1) /\ lz + 1 \in 1 .. lz + 1
    OBVIOUS
  <2>2. h[(la + 3) + (lz + 1)] = g[lz + 1]
    BY <2>1, <1>14, Zenon
  <2>3. Len(y) + 1 = (la + 3) + (lz + 1)
    BY <2>1, <1>14, Zenon
  <2> QED
    BY <2>2, <2>3, <1>12, Zenon
<1>16. /\ \A k \in 1 .. la : y[k] = a[k]
       /\ \A k \in 1 .. 3 : y[la + k] = b[k]
       /\ \A k \in 1 .. lz : y[(la + 3) + k] = z[k]
  <2>1. \A k \in 1 .. la + 3 : y[k] = t[k]
    BY <1>6, <1>10 DEF Behind
  <2>2. \A k \in 1 .. lz : y[(la + 3) + k] = z[k]
    BY <1>1, <1>6, <1>10 DEF Behind
  <2>3. \A k \in 1 .. la : k \in 1 .. la + 3 /\ t[k] = a[k]
    BY <1>1, <1>5 DEF Behind
  <2>4. \A k \in 1 .. 3 : la + k \in 1 .. la + 3 /\ t[la + k] = b[k]
    <3>1. \A k \in 1 .. 3 : la + k \in 1 .. la + 3
      BY ONLY la \in Nat
    <3>2. \A k \in 1 .. 3 : t[la + k] = b[k]
      BY <1>1, <1>3, <1>5, Zenon DEF Behind
    <3> QED
      BY <3>1, <3>2, Zenon
  <2> QED
    BY <2>1, <2>2, <2>3, <2>4
<1>17. PICK p : p = [i \in 1 .. 1 |-> la + 3]
  OBVIOUS
<1>18. p \in [1 .. 1 -> 1 .. Len(y)] /\ p[1] = la + 3
  <2>1. la + 3 \in 1 .. (la + 3) + lz
    OBVIOUS
  <2>2. la + 3 \in 1 .. Len(y)
    BY <2>1, <1>14, Zenon
  <2> QED
    BY ONLY <2>2, <1>17
<1>19. ASSUME NEW k \in 1 .. Len(y)
       PROVE  y[k].role = "help" <=> k = la + 3
  <2>1. CASE k \in 1 .. la
    <3>1. y[k] = a[k] /\ k # la + 3
      BY <2>1, <1>16
    <3>2. a[k].role # "help"
      BY <2>1, <1>1
    <3> QED
      BY <3>1, <3>2
  <2>2. CASE k \in la + 1 .. la + 3
    <3>1. k = la + 1 \/ k = la + 2 \/ k = la + 3
      BY <2>2, <1>1, OfThree, Zenon
    <3>2. y[la + 1] = b[1] /\ y[la + 2] = b[2] /\ y[la + 3] = b[3]
      BY <1>16
    <3> QED
      BY <3>1, <3>2, <1>4
  <2>3. CASE k > la + 3
    <3>1. k - (la + 3) \in 1 .. lz /\ k = (la + 3) + (k - (la + 3))
      BY <2>3, <1>14
    <3>2. PICK j \in 1 .. lz : k = (la + 3) + j
      BY <3>1, Zenon
    <3>3. y[k] = z[j]
      BY <3>2, <1>16, Zenon
    <3>4. z[j].role # "help"
      BY <3>2, <1>1, Zenon
    <3>5. k # la + 3
      BY <2>3
    <3> QED
      BY <3>3, <3>4, <3>5, Zenon
  <2> QED
    BY <2>1, <2>2, <2>3, <1>14
<1>20. HelpAt(y, h, la + 3, s, v)
  <2>1. y[la + 2].role = "blanks" /\ y[la + 1].role = "blanks" /\ y[la] = a[la]
    <3>1. y[la + 1] = b[1] /\ y[la + 2] = b[2]
      BY <1>16
    <3>2. la \in 1 .. la
      BY <1>1
    <3> QED
      BY <3>1, <3>2, <1>4, <1>16
  <2>2. h[la] = c[la] /\ h[la + 3] = d[3]
    <3>1. /\ la \in 1 .. (la + 3) + 1 /\ la \in 1 .. la + 1
          /\ la + 3 \in 1 .. (la + 3) + 1 /\ 3 \in 1 .. 3 + 1
      BY <1>1
    <3> QED
      BY <3>1, <1>10, <1>14
  <2>3. c[la] + a[la].size = 2 + s
    <3>1. la \in 1 .. la /\ a[la].role # "newline"
      BY <1>1
    <3> QED
      BY <3>1, <1>1 DEF Runs
  <2>4. (la + 3) - 1 = la + 2 /\ (la + 3) - 2 = la + 1 /\ (la + 3) - 3 = la /\ 3 < la + 3
    BY <1>1
  <2>5. a[la].role \notin {"blanks", "newline"}
    BY <1>1
  <2> QED
    BY <2>1, <2>2, <2>3, <2>4, <2>5, <1>2, <1>8 DEF HelpAt
<1>21. Lines(S, y, 1, f, w, h, p)
  <2>1. \A i \in 1 .. 1 : HelpAt(y, h, p[i], f[i], w[i])
    BY <1>18, <1>20
  <2>2. \A i, j \in 1 .. 1 : p[i] = p[j] => i = j
    OBVIOUS
  <2>3. \A k \in 1 .. Len(y) : y[k].role = "help" <=> \E i \in 1 .. 1 : p[i] = k
    BY <1>18, <1>19
  <2>4. 1 \in Nat
    OBVIOUS
  <2> QED
    BY <2>1, <2>2, <2>3, <2>4, <1>6, <1>14, <1>15, <1>18, Zenon DEF Lines
<1> QED
  BY <1>3, <1>5, <1>6, <1>21, Zenon

\* Lines without a help.
LEMMA LinesWithout ==
  ASSUME NEW S, NEW z \in Seq(S), Len(z) # 0, z[Len(z)].role = "newline",
         \A k \in 1 .. Len(z) : z[k].role # "help" /\ z[k].size \in Nat, NEW f, NEW w
  PROVE  \E e, p : Lines(S, z, 0, f, w, e, p)
<1>1. PICK n \in Nat : n = Len(z) /\ n \in 1 .. n
  OBVIOUS
<1>2. PICK e : Runs(z, e, 0)
  BY <1>1, RunsExist
<1>3. e[Len(z) + 1] = 0
  BY <1>1, <1>2 DEF Runs
<1>4. PICK p : p = [i \in 1 .. 0 |-> i]
  OBVIOUS
<1>5. p \in [1 .. 0 -> 1 .. Len(z)]
  BY <1>4
<1>6. Lines(S, z, 0, f, w, e, p)
  BY <1>2, <1>3, <1>5 DEF Lines
<1> QED
  BY <1>6

----------------------------------------------------------------------------
(* CliHelp: the lines of options and names.                                 *)

LabelRoles == {"-c", ", ", "--name", " value"}
EndRoles == {"required", "default", "newline"}
UsageRoles == {"usage", "[options]", "[name...]", "<name>", "[name]", "description", "Options:",
               "newline"}
SectionRoles ==
    LabelRoles \cup EndRoles \cup UsageRoles
    \cup {"blanks", "-h, --help", "name", "help"}
TextsOf(roles) == [role : roles, size : Nat]

LEMMA TextOf ==
  ASSUME NEW roles, NEW role \in roles, NEW size \in Nat
  PROVE  Text(role, size) \in TextsOf(roles)
BY DEF Text, TextsOf

LEMMA SequencesWider ==
  ASSUME NEW S, NEW W, S \subseteq W
  PROVE  Seq(S) \subseteq Seq(W)
<1> SUFFICES ASSUME NEW q \in Seq(S)
             PROVE  q \in Seq(W)
  OBVIOUS
<1>1. PICK n \in Nat : n = Len(q)
  OBVIOUS
<1>2. \A k \in 1 .. n : q[k] \in W
  BY <1>1
<1>3. q = [k \in 1 .. n |-> q[k]]
  BY <1>1
<1>4. [k \in 1 .. n |-> q[k]] \in Seq(W)
  BY <1>2
<1> QED
  BY <1>3, <1>4, Zenon

LEMMA PrintsWider ==
  ASSUME NEW S, NEW W, S \subseteq W, NEW puts, NEW t, Prints(S, puts, t)
  PROVE  Prints(W, puts, t)
<1>1. Seq(S) \subseteq Seq(W)
  BY SequencesWider
<1>2. Seq(Seq(S)) \subseteq Seq(Seq(W))
  BY <1>1, SequencesWider
<1> QED
  BY <1>1, <1>2 DEF Prints

LEMMA LinesWider ==
  ASSUME NEW S, NEW W, S \subseteq W, NEW t, NEW n, NEW f, NEW w, NEW c, NEW p,
         Lines(S, t, n, f, w, c, p)
  PROVE  Lines(W, t, n, f, w, c, p)
<1>1. Seq(S) \subseteq Seq(W)
  BY SequencesWider
<1> QED
  BY <1>1, Zenon DEF Lines

\* The calls print texts of S that begin in column x and end in column y of one line.
Part(S, puts, x, y) ==
    \E t, c : Prints(S, puts, t) /\ Runs(t, c, x) /\ c[Len(t) + 1] = y /\ x \in Nat /\ y \in Nat

LEMMA PartWhen ==
  ASSUME NEW S, NEW role, NEW size \in Nat, Text(role, size) \in S, role # "newline",
         NEW x \in Nat, NEW condition, NEW y, y = x + (IF condition THEN size ELSE 0)
  PROVE  Part(S, When(condition, Text(role, size)), x, y)
<1>1. PICK text \in S : text = Text(role, size) /\ text.role = role /\ text.size = size
  BY DEF Text
<1> SUFFICES Part(S, When(condition, text), x, x + (IF condition THEN text.size ELSE 0))
  BY <1>1
<1> USE <1>1
<1>2. CASE condition
  <2>1. PICK t \in Seq(S) : t = <<text>> /\ Len(t) = 1 /\ t[1] = text
    BY OneElement
  <2>2. Prints(S, When(condition, text), t)
    BY <1>2, <2>1, PrintsWhen
  <2>3. PICK c : Runs(t, c, x)
    <3>1. \A k \in 1 .. 1 : t[k].size \in Nat
      BY <2>1
    <3> QED
      BY <3>1, <2>1, RunsExist
  <2>4. c[2] = x + text.size
    <3>1. 1 \in 1 .. 1 /\ 1 + 1 = 2
      OBVIOUS
    <3>2. c[1 + 1] = c[1] + text.size /\ c[1] = x
      BY <3>1, <2>1, <2>3 DEF Runs
    <3> QED
      BY <3>1, <3>2
  <2>5. Len(t) + 1 = 2 /\ x + text.size \in Nat
    BY <2>1
  <2> QED
    BY <1>2, <2>2, <2>3, <2>4, <2>5 DEF Part
<1>3. CASE ~condition
  <2>1. << >> \in Seq(S) /\ Len(<< >>) = 0
    OBVIOUS
  <2>2. PICK t \in Seq(S) : t = << >> /\ Len(t) = 0
    BY <2>1
  <2>3. Prints(S, When(condition, text), t)
    BY <1>3, <2>2, PrintsWhen
  <2>4. PICK c : Runs(t, c, x)
    <3>1. \A k \in 1 .. 0 : t[k].size \in Nat
      OBVIOUS
    <3> QED
      BY <3>1, <2>2, RunsExist
  <2>5. c[0 + 1] = x /\ x + 0 = x
    BY <2>4 DEF Runs
  <2> QED
    BY <1>3, <2>2, <2>3, <2>4, <2>5 DEF Part
<1> QED
  BY <1>2, <1>3

LEMMA PartBoth ==
  ASSUME NEW S, NEW a, NEW b, NEW x, NEW y, NEW z, Part(S, a, x, y), Part(S, b, y, z)
  PROVE  Part(S, a \o b, x, z)
<1>1. PICK t, c : Prints(S, a, t) /\ Runs(t, c, x) /\ c[Len(t) + 1] = y /\ x \in Nat
  BY DEF Part
<1>2. PICK u, d : Prints(S, b, u) /\ Runs(u, d, y) /\ d[Len(u) + 1] = z /\ z \in Nat
  BY DEF Part
<1>3. t \in Seq(S) /\ u \in Seq(S)
  BY <1>1, <1>2 DEF Prints
<1>4. PICK v : v = t \o u /\ Behind(v, t, u)
  BY <1>3, Concatenated
<1>5. Prints(S, a \o b, v)
  BY <1>1, <1>2, <1>4, PrintsBoth, Zenon
<1>6. PICK m \in Nat, l \in Nat : Len(t) = m /\ Len(u) = l
  BY <1>3
<1>7. PICK e : Meet(c, d, e, m, l)
  BY DEF Meet
<1>8. Runs(u, d, c[m + 1])
  BY <1>1, <1>2, <1>6
<1>9. Met(v, e, x, c, d, m, l)
  BY <1>1, <1>4, <1>6, <1>7, <1>8, RunsMeet, Zenon
<1>10. e[Len(v) + 1] = z
  <2>1. Len(v) = m + l /\ (m + l) + 1 = m + (l + 1) /\ l + 1 \in 1 .. l + 1
    BY <1>4, <1>6 DEF Behind
  <2>2. e[m + (l + 1)] = d[l + 1]
    BY <2>1, <1>9, Zenon DEF Met
  <2> QED
    BY <2>1, <2>2, <1>2, <1>6
<1>11. Runs(v, e, x)
  BY <1>9, Zenon DEF Met
<1> QED
  BY <1>1, <1>2, <1>5, <1>10, <1>11, Zenon DEF Part

AnOption(o) ==
    /\ o.short \in BOOLEAN /\ o.long \in Nat /\ o.value \in Nat
    /\ o.required \in BOOLEAN /\ o.default \in BOOLEAN /\ (o.short \/ o.long # 0)

LEMMA ValueNameNatural ==
  ASSUME NEW o, AnOption(o)
  PROVE  ValueName(o) \in Nat
<1>1. DefaultValueName(o.kind) \in Nat
  <2>1. CASE o.kind \in {"string", "strings"}
    BY <2>1 DEF DefaultValueName
  <2>2. CASE o.kind \in {"int", "ints"}
    BY <2>2 DEF DefaultValueName
  <2>3. CASE o.kind \in {"double", "doubles"}
    BY <2>3 DEF DefaultValueName
  <2>4. CASE o.kind \notin {"string", "strings", "int", "ints", "double", "doubles"}
    BY <2>4 DEF DefaultValueName
  <2> QED
    BY <2>1, <2>2, <2>3, <2>4
<1>2. o.value \in Nat
  BY DEF AnOption
<1> QED
  BY <1>1, <1>2 DEF ValueName

LEMMA LabelIs ==
  ASSUME NEW o, AnOption(o)
  PROVE  /\ LabelSize(o) \in Nat /\ LabelSize(o) # 0
         /\ Part(TextsOf(LabelRoles), Label(o), 2, 2 + LabelSize(o))
<1>1. o.short \in BOOLEAN /\ o.long \in Nat /\ (o.short \/ o.long # 0) /\ ValueName(o) \in Nat
  BY ValueNameNatural DEF AnOption
<1>2. PICK s \in Nat : s = IF o.short THEN 2 ELSE 0
  BY <1>1
<1>3. PICK b \in Nat : b = IF o.short /\ o.long # 0 THEN 2 ELSE 0
  BY <1>1
<1>4. PICK l \in Nat : l = IF o.long # 0 THEN 2 + o.long ELSE 0
  BY <1>1
<1>5. PICK v \in Nat : v = IF ValueName(o) # 0 THEN 1 + ValueName(o) ELSE 0
  BY <1>1
<1>6. LabelSize(o) = s + b + l + v
  BY <1>2, <1>3, <1>4, <1>5, Zenon DEF LabelSize
<1>7. s + b + l + v # 0 /\ s + b + l + v \in Nat
  BY <1>1, <1>2, <1>3, <1>4, <1>5
<1> DEFINE S == TextsOf(LabelRoles)
<1>8. /\ Text("-c", 2) \in S /\ Text(", ", 2) \in S /\ Text("--name", 2 + o.long) \in S
      /\ Text(" value", 1 + ValueName(o)) \in S
  <2>1. 2 \in Nat /\ 2 + o.long \in Nat /\ 1 + ValueName(o) \in Nat
    BY <1>1
  <2>2. {"-c", ", ", "--name", " value"} \subseteq LabelRoles
    BY DEF LabelRoles
  <2> QED
    BY <2>1, <2>2, TextOf
<1> HIDE DEF S
<1>9. /\ 2 + s = 2 + (IF o.short THEN 2 ELSE 0)
      /\ 2 + s + b = (2 + s) + (IF o.short /\ o.long # 0 THEN 2 ELSE 0)
      /\ 2 + s + b + l = (2 + s + b) + (IF o.long # 0 THEN 2 + o.long ELSE 0)
      /\ 2 + s + b + l + v = (2 + s + b + l)
                             + (IF ValueName(o) # 0 THEN 1 + ValueName(o) ELSE 0)
  BY <1>2, <1>3, <1>4, <1>5, Zenon
<1>10. /\ 2 \in Nat /\ 2 + o.long \in Nat /\ 1 + ValueName(o) \in Nat
       /\ 2 + s \in Nat /\ 2 + s + b \in Nat /\ 2 + s + b + l \in Nat
  BY <1>1
<1>11. "-c" # "newline" /\ ", " # "newline" /\ "--name" # "newline" /\ " value" # "newline"
  OBVIOUS
<1>12. Part(S, When(o.short, Text("-c", 2)), 2, 2 + s)
  BY <1>8, <1>9, <1>10, <1>11, PartWhen, Zenon
<1>13. Part(S, When(o.short /\ o.long # 0, Text(", ", 2)), 2 + s, 2 + s + b)
  BY <1>8, <1>9, <1>10, <1>11, PartWhen, Zenon
<1>14. Part(S, When(o.long # 0, Text("--name", 2 + o.long)), 2 + s + b, 2 + s + b + l)
  BY <1>8, <1>9, <1>10, <1>11, PartWhen, Zenon
<1>15. Part(S, When(ValueName(o) # 0, Text(" value", 1 + ValueName(o))), 2 + s + b + l,
            2 + s + b + l + v)
  BY <1>8, <1>9, <1>10, <1>11, PartWhen, Zenon
<1>16. Part(S, Label(o), 2, 2 + s + b + l + v)
  BY <1>12, <1>13, <1>14, <1>15, PartBoth, Zenon DEF Label
<1>17. 2 + s + b + l + v = 2 + LabelSize(o)
  BY <1>6
<1> QED
  BY <1>6, <1>7, <1>16, <1>17, Zenon DEF S

LEMMA Reassociated ==
  ASSUME NEW S, NEW a \in Seq(S), NEW b \in Seq(S), NEW c \in Seq(S), NEW d \in Seq(S)
  PROVE  Split(((a \o b) \o c) \o d, a, (b \o c) \o d)
<1>1. PICK u \in Seq(S) : u = b \o c
  BY ConcatProperties
<1>2. Associate(a, b, c) /\ Associate(a, u, d)
  BY <1>1, Associates, Zenon
<1>3. (a \o b) \o c = a \o u
  BY <1>1, <1>2, Zenon DEF Associate
<1>4. ((a \o b) \o c) \o d = a \o (u \o d)
  BY <1>2, <1>3, Zenon DEF Associate
<1> QED
  BY <1>1, <1>4, Zenon DEF Split

\* The calls print whole lines over S, of which n have a help.
LinesOf(S, puts, n, f, w) ==
    \E t, c, p : Prints(S, puts, t) /\ Lines(S, t, n, f, w, c, p)

\* What ends the line of an option: two texts that may be missing, and the newline.
EndOfLine(x, y, u, v, z) ==
    /\ Prints(TextsOf(EndRoles), When(x, Text("required", 0)), u)
    /\ Prints(TextsOf(EndRoles), When(y, Text("default", 0)), v)
    /\ u \in Seq(TextsOf(EndRoles)) /\ v \in Seq(TextsOf(EndRoles))
    /\ z = (u \o v) \o <<LineBreak>> /\ z \in Seq(TextsOf(EndRoles))
    /\ Len(z) # 0 /\ z[Len(z)].role = "newline"

LEMMA LineEnd ==
  ASSUME NEW x, NEW y
  PROVE  \E u, v, z : EndOfLine(x, y, u, v, z)
<1> DEFINE S == TextsOf(EndRoles)
<1>1. Text("required", 0) \in S /\ Text("default", 0) \in S /\ LineBreak \in S
  <2>1. {"required", "default", "newline"} \subseteq EndRoles /\ 0 \in Nat
    BY DEF EndRoles
  <2> QED
    BY <2>1, TextOf DEF LineBreak
<1>2. LineBreak.role = "newline"
  BY DEF LineBreak, Text
<1> HIDE DEF S
<1>3. PICK u : u = IF x THEN <<Text("required", 0)>> ELSE << >>
  OBVIOUS
<1>4. PICK v : v = IF y THEN <<Text("default", 0)>> ELSE << >>
  OBVIOUS
<1>5. /\ Prints(S, When(x, Text("required", 0)), u)
      /\ Prints(S, When(y, Text("default", 0)), v)
  BY <1>1, <1>3, <1>4, PrintsWhen, Zenon
<1>6. u \in Seq(S) /\ v \in Seq(S)
  BY <1>5, Zenon DEF Prints
<1>7. PICK q \in Seq(S) : q = u \o v
  BY <1>6, ConcatProperties
<1>8. PICK l \in Seq(S) : l = <<LineBreak>> /\ Len(l) = 1 /\ l[1] = LineBreak
  BY <1>1, OneElement, Zenon
<1>9. PICK z \in Seq(S) : z = q \o l /\ Behind(z, q, l)
  BY Concatenated, Zenon
<1>10. Len(z) # 0 /\ z[Len(z)] = LineBreak
  <2>1. Len(q) \in Nat /\ Len(z) = Len(q) + 1 /\ 1 \in 1 .. 1
    BY <1>8, <1>9 DEF Behind
  <2>2. z[Len(q) + 1] = l[1]
    BY <1>8, <1>9, <2>1 DEF Behind
  <2> QED
    BY <2>1, <2>2, <1>8
<1> QED
  BY <1>2, <1>5, <1>6, <1>7, <1>8, <1>9, <1>10, Zenon DEF S, EndOfLine

LEMMA FillingTyped ==
  ASSUME NEW s \in Nat, NEW v \in Nat
  PROVE  Filling(s, v) \in Seq(TextsOf(SectionRoles))
<1>1. PICK x \in Nat : x = FillUp(s, v)
  BY FillUpNatural, Zenon
<1>2. /\ Blanks(x) \in TextsOf(SectionRoles) /\ Blanks(2) \in TextsOf(SectionRoles)
      /\ Text("help", 0) \in TextsOf(SectionRoles)
  <2>1. {"blanks", "help"} \subseteq SectionRoles /\ 0 \in Nat /\ 2 \in Nat
    BY DEF SectionRoles
  <2> QED
    BY <2>1, TextOf DEF Blanks
<1>3. PICK a, b, c : /\ a = Blanks(x) /\ b = Blanks(2) /\ c = Text("help", 0)
                     /\ {a, b, c} \subseteq TextsOf(SectionRoles)
  BY <1>2
<1>4. <<a, b, c>> \in Seq(TextsOf(SectionRoles))
  BY <1>3
<1> QED
  BY <1>1, <1>3, <1>4, Zenon DEF Filling

LEMMA OptionLineIs ==
  ASSUME NEW o, AnOption(o), NEW width \in Nat, NEW f, NEW w, f[1] = LabelSize(o), w[1] = width
  PROVE  LinesOf(TextsOf(SectionRoles), OptionLine(o, width), 1, f, w)
<1> DEFINE S == TextsOf(SectionRoles)
<1>1. TextsOf(LabelRoles) \subseteq S /\ TextsOf(EndRoles) \subseteq S
  BY DEF TextsOf, SectionRoles
<1>2. PICK s \in Nat : s = LabelSize(o) /\ s # 0
  BY LabelIs, Zenon
<1>3. PICK l, d : /\ Prints(TextsOf(LabelRoles), Label(o), l) /\ Runs(l, d, 2)
                  /\ d[Len(l) + 1] = 2 + s
  BY <1>2, LabelIs, Zenon DEF Part
<1>4. l \in Seq(TextsOf(LabelRoles)) /\ l \in Seq(S) /\ Prints(S, Label(o), l)
  <2>1. Prints(S, Label(o), l)
    BY <1>1, <1>3, PrintsWider, Zenon
  <2> QED
    BY <2>1, <1>3, Zenon DEF Prints
<1>5. PICK m \in Nat : m = Len(l) /\ m # 0
  <2>1. Len(l) \in Nat
    BY <1>4
  <2>2. ASSUME Len(l) = 0
        PROVE  FALSE
    <3>1. d[0 + 1] = 2 + s /\ d[1] = 2 /\ 0 + 1 = 1
      BY <2>2, <1>3 DEF Runs
    <3> QED
      BY <3>1, <1>2
  <2> QED
    BY <2>1, <2>2
<1>6. Blanks(2) \in S
  <2>1. "blanks" \in SectionRoles /\ 2 \in Nat
    BY DEF SectionRoles
  <2> QED
    BY <2>1, TextOf DEF Blanks
<1>7. Blanks(2).role = "blanks" /\ Blanks(2).size = 2
  BY DEF Blanks, Text
<1>8. PICK b \in Seq(S) : b = <<Blanks(2)>> /\ Len(b) = 1 /\ b[1] = Blanks(2)
  BY <1>6, OneElement, Zenon
<1>9. PICK e : Runs(b, e, 0) /\ e[2] = 2
  <2>1. \A k \in 1 .. 1 : b[k].size \in Nat
    BY <1>7, <1>8
  <2>2. PICK e : Runs(b, e, 0)
    BY <2>1, <1>8, RunsExist
  <2>3. 1 \in 1 .. Len(b) /\ 1 + 1 = 2
    BY <1>8
  <2>4. e[1 + 1] = e[1] + 2 /\ e[1] = 0
    BY <2>2, <2>3, <1>7, <1>8 DEF Runs
  <2> QED
    BY <2>2, <2>3, <2>4
<1>10. PICK a \in Seq(S) : a = b \o l /\ Behind(a, b, l)
  BY <1>4, Concatenated, Zenon
<1>11. PICK c : Meet(e, d, c, 1, m)
  BY DEF Meet
<1>12. Met(a, c, 0, e, d, 1, m)
  <2>1. Runs(l, d, e[1 + 1])
    BY <1>3, <1>9
  <2>2. Len(b) = 1 /\ Len(l) = m /\ 1 \in Nat /\ 0 \in Nat
    BY <1>5, <1>8
  <2> QED
    BY <2>1, <2>2, <1>9, <1>10, <1>11, RunsMeet, Zenon
<1>13. Runs(a, c, 0) /\ Len(a) = 1 + m /\ c[Len(a) + 1] = 2 + s
  <2>1. Len(a) = 1 + m /\ (1 + m) + 1 = 1 + (m + 1) /\ m + 1 \in 1 .. m + 1
    BY <1>5, <1>8, <1>10 DEF Behind
  <2>2. c[1 + (m + 1)] = d[m + 1]
    BY <2>1, <1>12, Zenon DEF Met
  <2>3. Runs(a, c, 0)
    BY <1>12, Zenon DEF Met
  <2> QED
    BY <2>1, <2>2, <2>3, <1>3, <1>5
<1>14. \A k \in 1 .. m : l[k].role \in LabelRoles
  <2> TAKE k \in 1 .. m
  <2>1. l[k] \in TextsOf(LabelRoles)
    BY <1>4, <1>5
  <2> QED
    BY <2>1 DEF TextsOf
<1>15. a[Len(a)].role \notin {"blanks", "newline"} /\ \A k \in 1 .. Len(a) : a[k].role # "help"
  <2>1. a[1] = b[1] /\ \A k \in 1 .. m : a[1 + k] = l[k]
    BY <1>5, <1>8, <1>10 DEF Behind
  <2>2. m \in 1 .. m
    BY <1>5
  <2>3. a[Len(a)] = l[m]
    BY <2>1, <2>2, <1>13
  <2>4. ASSUME NEW k \in 1 .. Len(a)
        PROVE  a[k].role # "help"
    <3>1. k = 1 \/ (k - 1 \in 1 .. m /\ k = 1 + (k - 1))
      BY <1>13
    <3>2. CASE k = 1
      BY <3>2, <2>1, <1>7, <1>8
    <3>3. CASE k - 1 \in 1 .. m /\ k = 1 + (k - 1)
      <4>1. a[k] = l[k - 1] /\ l[k - 1].role \in LabelRoles
        BY <3>3, <2>1, <1>14
      <4> QED
        BY <4>1 DEF LabelRoles
    <3> QED
      BY <3>1, <3>2, <3>3
  <2>5. a[Len(a)].role \in LabelRoles
    BY <2>2, <2>3, <1>14
  <2> QED
    BY <2>4, <2>5 DEF LabelRoles
<1>16. PICK u, v, z : EndOfLine(o.required, o.default, u, v, z)
  BY LineEnd, Zenon
<1>17. /\ Prints(TextsOf(EndRoles), When(o.required, Text("required", 0)), u)
       /\ Prints(TextsOf(EndRoles), When(o.default, Text("default", 0)), v)
       /\ u \in Seq(TextsOf(EndRoles)) /\ v \in Seq(TextsOf(EndRoles))
       /\ z = (u \o v) \o <<LineBreak>> /\ z \in Seq(TextsOf(EndRoles))
       /\ Len(z) # 0 /\ z[Len(z)].role = "newline"
  BY <1>16, Zenon DEF EndOfLine
<1>18. \A k \in 1 .. Len(z) : z[k].role # "help" /\ z[k].size \in Nat
  <2> TAKE k \in 1 .. Len(z)
  <2>1. z[k] \in TextsOf(EndRoles)
    BY <1>17
  <2> QED
    BY <2>1 DEF TextsOf, EndRoles
<1>19. Seq(TextsOf(EndRoles)) \subseteq Seq(S)
  BY <1>1, SequencesWider
<1>20. Filling(s, width) \in Seq(S)
  BY FillingTyped
<1> HIDE DEF S
<1>21. PICK x, p : Lines(S, (a \o Filling(s, width)) \o z, 1, f, w, x, p)
  <2>1. Len(a) # 0
    BY <1>5, <1>13
  <2>2. z \in Seq(S)
    BY <1>17, <1>19
  <2>3. f[1] = s /\ w[1] = width
    BY <1>2
  <2> QED
    BY <2>1, <2>2, <2>3, <1>13, <1>15, <1>17, <1>18, <1>20, LineWithHelp, Zenon
<1>22. PICK g : g = a \o Filling(s, width) /\ g \in Seq(S)
  BY <1>20, ConcatProperties
<1>23. Prints(S, OptionLine(o, width), ((g \o u) \o v) \o <<LineBreak>>)
  <2>1. Prints(S, << <<Blanks(2)>> >>, b)
    BY <1>8, PrintsOne, Zenon
  <2>2. Prints(S, << <<Blanks(2)>> >> \o Label(o), a)
    BY <2>1, <1>4, <1>10, PrintsBoth, Zenon
  <2>3. Prints(S, <<Filling(s, width)>>, Filling(s, width))
    BY <1>20, PrintsOne
  <2>4. Prints(S, (<< <<Blanks(2)>> >> \o Label(o)) \o <<Filling(s, width)>>, g)
    BY <2>2, <2>3, <1>22, PrintsBoth, Zenon
  <2>5. /\ Prints(S, When(o.required, Text("required", 0)), u)
        /\ Prints(S, When(o.default, Text("default", 0)), v)
    BY <1>1, <1>17, PrintsWider, Zenon DEF S
  <2>6. Prints(S, << <<LineBreak>> >>, <<LineBreak>>)
    <3>1. "newline" \in SectionRoles /\ 0 \in Nat
      BY DEF SectionRoles, EndRoles
    <3>2. LineBreak \in S
      BY <3>1, TextOf DEF LineBreak, S
    <3>3. <<LineBreak>> \in Seq(S)
      BY <3>2
    <3> QED
      BY <3>3, PrintsOne
  <2> QED
    BY <2>4, <2>5, <2>6, <1>2, PrintsBoth, Zenon DEF OptionLine, Filling
<1>24. ((g \o u) \o v) \o <<LineBreak>> = g \o z
  <2>1. u \in Seq(S) /\ v \in Seq(S)
    BY <1>17, <1>19
  <2>2. <<LineBreak>> \in Seq(S)
    <3>1. "newline" \in SectionRoles /\ 0 \in Nat
      BY DEF SectionRoles, EndRoles
    <3>2. LineBreak \in S
      BY <3>1, TextOf DEF LineBreak, S
    <3> QED
      BY <3>2
  <2>3. Split(((g \o u) \o v) \o <<LineBreak>>, g, (u \o v) \o <<LineBreak>>)
    BY <2>1, <2>2, <1>22, Reassociated, Zenon
  <2> QED
    BY <2>3, <1>17, Zenon DEF Split
<1>25. Prints(S, OptionLine(o, width), (a \o Filling(s, width)) \o z)
  BY <1>22, <1>23, <1>24, Zenon
<1> QED
  BY <1>21, <1>25, Zenon DEF LinesOf, S

SixTexts(b, n, x, h, l) == (<<b, n>> \o <<x, b, h>>) \o <<l>> = <<b, n, x, b, h, l>>

LEMMA TextsBehind ==
  ASSUME NEW S, NEW b \in S, NEW n \in S, NEW x \in S, NEW h \in S, NEW l \in S
  PROVE  SixTexts(b, n, x, h, l)
<1>1. PICK u : u = <<b, n>> /\ u \in Seq(S) /\ Len(u) = 2 /\ u[1] = b /\ u[2] = n
  <2>1. <<b, n>> \in Seq(S) /\ Len(<<b, n>>) = 2 /\ <<b, n>>[1] = b /\ <<b, n>>[2] = n
    OBVIOUS
  <2> QED
    BY <2>1
<1>2. PICK v : /\ v = <<x, b, h>> /\ v \in Seq(S) /\ Len(v) = 3
               /\ v[1] = x /\ v[2] = b /\ v[3] = h
  <2>1. /\ <<x, b, h>> \in Seq(S) /\ Len(<<x, b, h>>) = 3
        /\ <<x, b, h>>[1] = x /\ <<x, b, h>>[2] = b /\ <<x, b, h>>[3] = h
    OBVIOUS
  <2> QED
    BY <2>1
<1>3. PICK w : w = <<l>> /\ w \in Seq(S) /\ Len(w) = 1 /\ w[1] = l
  BY OneElement
<1>4. PICK y : y = u \o v /\ y \in Seq(S) /\ Behind(y, u, v)
  BY <1>1, <1>2, Concatenated, Zenon
<1>5. PICK z : z = y \o w /\ z \in Seq(S) /\ Behind(z, y, w)
  BY <1>3, <1>4, Concatenated, Zenon
<1>6. /\ Len(y) = 5 /\ y[1] = b /\ y[2] = n
      /\ y[2 + 1] = x /\ y[2 + 2] = b /\ y[2 + 3] = h
  BY <1>1, <1>2, <1>4 DEF Behind
<1>7. Len(z) = 6 /\ z[5 + 1] = l /\ \A k \in 1 .. 5 : z[k] = y[k]
  BY <1>3, <1>5, <1>6 DEF Behind
<1>8. z[1] = b /\ z[2] = n /\ z[3] = x /\ z[4] = b /\ z[5] = h /\ z[6] = l
  BY <1>6, <1>7
<1>9. PICK t : /\ t = <<b, n, x, b, h, l>> /\ t \in Seq(S) /\ Len(t) = 6
               /\ t[1] = b /\ t[2] = n /\ t[3] = x /\ t[4] = b /\ t[5] = h /\ t[6] = l
  <2> DEFINE T == <<b, n, x, b, h, l>>
  <2>1. /\ T \in Seq(S) /\ Len(T) = 6
        /\ T[1] = b /\ T[2] = n /\ T[3] = x /\ T[4] = b /\ T[5] = h /\ T[6] = l
    OBVIOUS
  <2> HIDE DEF T
  <2>2. \E t : /\ t = T /\ t \in Seq(S) /\ Len(t) = 6
               /\ t[1] = b /\ t[2] = n /\ t[3] = x /\ t[4] = b /\ t[5] = h /\ t[6] = l
    BY <2>1
  <2> QED
    BY <2>2, Zenon DEF T
<1>10. \A k \in 1 .. 6 : k = 1 \/ k = 2 \/ k = 3 \/ k = 4 \/ k = 5 \/ k = 6
  OBVIOUS
<1>11. \A k \in 1 .. 6 : z[k] = t[k]
  BY <1>8, <1>9, <1>10, Zenon
<1>12. z = t
  <2>1. Len(z) = Len(t) /\ \A k \in 1 .. Len(z) : z[k] = t[k]
    BY <1>7, <1>9, <1>11
  <2> QED
    BY <2>1, <1>5, <1>9, SeqEqual, Zenon
<1> QED
  BY <1>1, <1>2, <1>3, <1>4, <1>5, <1>9, <1>12, Zenon DEF SixTexts

LEMMA NameLineIs ==
  ASSUME NEW role \in SectionRoles, role \notin {"blanks", "newline", "help"},
         NEW size \in Nat, NEW width \in Nat, NEW f, NEW w, f[1] = size, w[1] = width
  PROVE  LinesOf(TextsOf(SectionRoles), NameLine(Text(role, size), width), 1, f, w)
<1> DEFINE S == TextsOf(SectionRoles)
<1>1. PICK n \in S : n = Text(role, size) /\ n.role = role /\ n.size = size
  <2>1. Text(role, size) \in S
    BY TextOf
  <2> QED
    BY <2>1 DEF Text
<1>2. PICK b \in S : b = Blanks(2) /\ b.role = "blanks" /\ b.size = 2
  <2>1. "blanks" \in SectionRoles /\ 2 \in Nat
    BY DEF SectionRoles
  <2>2. Blanks(2) \in S
    BY <2>1, TextOf DEF Blanks
  <2> QED
    BY <2>2 DEF Blanks, Text
<1>3. PICK l \in S : l = LineBreak /\ l.role = "newline" /\ l.size = 0
  <2>1. "newline" \in SectionRoles /\ 0 \in Nat
    BY DEF SectionRoles, EndRoles
  <2>2. LineBreak \in S
    BY <2>1, TextOf DEF LineBreak
  <2> QED
    BY <2>2 DEF LineBreak, Text
<1>4. PICK x, h : x = Blanks(FillUp(size, width)) /\ h = Text("help", 0)
  OBVIOUS
<1>5. Filling(size, width) = <<x, b, h>> /\ Filling(size, width) \in Seq(S)
  BY <1>2, <1>4, FillingTyped DEF Filling
<1>6. x \in S /\ h \in S
  <2>1. "blanks" \in SectionRoles /\ "help" \in SectionRoles /\ 0 \in Nat
    BY DEF SectionRoles
  <2>2. FillUp(size, width) \in Nat
    BY FillUpNatural
  <2> QED
    BY <2>1, <2>2, <1>4, TextOf DEF Blanks
<1> HIDE DEF S
<1>7. PICK a \in Seq(S) : a = <<b, n>> /\ Len(a) = 2 /\ a[1] = b /\ a[2] = n
  <2>1. <<b, n>> \in Seq(S) /\ Len(<<b, n>>) = 2 /\ <<b, n>>[1] = b /\ <<b, n>>[2] = n
    BY <1>1, <1>2
  <2> QED
    BY <2>1
<1>8. PICK z \in Seq(S) : z = <<l>> /\ Len(z) = 1 /\ z[1] = l
  BY <1>3, OneElement, Zenon
<1>9. \A k \in 1 .. 2 : k = 1 \/ k = 2
  OBVIOUS
<1>10. PICK c : Runs(a, c, 0) /\ c[2 + 1] = 2 + size
  <2>1. \A k \in 1 .. 2 : a[k].size \in Nat
    BY <1>1, <1>2, <1>7, <1>9
  <2>2. PICK c : Runs(a, c, 0)
    BY <2>1, <1>7, RunsExist
  <2>3. c[1] = 0 /\ \A k \in 1 .. 2 : c[k + 1] = IF a[k].role = "newline" THEN 0
                                                 ELSE c[k] + a[k].size
    BY <2>2, <1>7, Zenon DEF Runs
  <2>4. 1 \in 1 .. 2 /\ 2 \in 1 .. 2 /\ 1 + 1 = 2
    OBVIOUS
  <2>5. a[1].role # "newline" /\ a[2].role # "newline"
    BY <1>1, <1>2, <1>7
  <2>6. c[2] = 0 + 2 /\ c[2 + 1] = c[2] + size
    BY <2>3, <2>4, <2>5, <1>1, <1>2, <1>7
  <2> QED
    BY <2>2, <2>6
<1>11. PICK d, p : Lines(S, (a \o Filling(size, width)) \o z, 1, f, w, d, p)
  <2>1. \A k \in 1 .. Len(a) : a[k].role # "help"
    BY <1>1, <1>2, <1>7, <1>9
  <2>2. \A k \in 1 .. Len(z) : z[k].role # "help" /\ z[k].size \in Nat
    BY <1>3, <1>8
  <2>3. /\ Len(z) # 0 /\ z[Len(z)].role = "newline" /\ Len(a) # 0 /\ c[Len(a) + 1] = 2 + size
        /\ a[Len(a)].role \notin {"blanks", "newline"}
    BY <1>1, <1>3, <1>7, <1>8, <1>10
  <2> QED
    BY <2>1, <2>2, <2>3, <1>5, <1>10, LineWithHelp, Zenon
<1>12. (a \o Filling(size, width)) \o z = <<b, n, x, b, h, l>>
  <2>1. SixTexts(b, n, x, h, l)
    BY <1>1, <1>2, <1>3, <1>6, TextsBehind, Zenon
  <2> QED
    BY <2>1, <1>5, <1>7, <1>8, Zenon DEF SixTexts
<1>13. Prints(S, << <<b, n, x, b, h, l>> >>, <<b, n, x, b, h, l>>)
  <2>1. <<b, n, x, b, h, l>> \in Seq(S)
    BY <1>6
  <2> QED
    BY <2>1, PrintsOne, Zenon
<1>14. NameLine(Text(role, size), width) = << <<b, n, x, b, h, l>> >>
  BY <1>1, <1>2, <1>3, <1>4, Zenon DEF NameLine
<1> QED
  BY <1>11, <1>12, <1>13, <1>14, Zenon DEF LinesOf, S

LEMMA LinesOfBoth ==
  ASSUME NEW S, NEW x, NEW n, NEW f, NEW w, LinesOf(S, x, n, f, w),
         NEW y, NEW m, NEW g, NEW v, LinesOf(S, y, m, g, v),
         NEW h, NEW u, Together(n, f, w, m, g, v, h, u)
  PROVE  LinesOf(S, x \o y, n + m, h, u)
<1>1. PICK a, c, p : Prints(S, x, a) /\ Lines(S, a, n, f, w, c, p)
  BY Zenon DEF LinesOf
<1>2. PICK b, d, q : Prints(S, y, b) /\ Lines(S, b, m, g, v, d, q)
  BY Zenon DEF LinesOf
<1>3. Prints(S, x \o y, a \o b)
  BY <1>1, <1>2, PrintsBoth, Zenon
<1>4. PICK e, r : Lines(S, a \o b, n + m, h, u, e, r) /\ PlacesMeet(n, m, Len(a), p, q, r)
  BY <1>1, <1>2, LinesMeet, Zenon
<1> QED
  BY <1>3, <1>4, Zenon DEF LinesOf

Always(x) == [i \in 1 .. 1 |-> x]

\* Lines, and one more line for each of n parts.
LEMMA LinesOfMany ==
  ASSUME NEW S, NEW start, NEW f, NEW w, LinesOf(S, start, 0, f, w), NEW n \in Nat, NEW Q,
         Q = [k \in 1 .. n |-> Q[k]],
         \A k \in 1 .. n : LinesOf(S, Q[k], 1, Always(f[k]), Always(w[k]))
  PROVE  LinesOf(S, start \o TextSeq!FlattenSeq(Q), n, f, w)
<1>1. \A k \in 1 .. n : Q[k] \in Seq(Seq(S))
  BY DEF LinesOf, Prints
<1>2. Q \in Seq(Seq(Seq(S))) /\ Len(Q) = n
  BY <1>1
<1>3. PICK J : Joins(Seq(S), n, Q, J) /\ Prints(Seq(S), Q, J[n])
  BY <1>2, CallsJoin
<1>4. TextSeq!FlattenSeq(Q) = J[n]
  BY <1>3, Zenon DEF Prints
<1>5. start \in Seq(Seq(S))
  BY DEF LinesOf, Prints
<1> DEFINE T == {k \in 0 .. n : ~LinesOf(S, start \o J[k], k, f, w)}
<1>6. SUFFICES T = {}
  BY <1>4, <1>6
<1>7. SUFFICES ASSUME T # {}
               PROVE  FALSE
  OBVIOUS
<1>8. T \in SUBSET Nat
  OBVIOUS
<1>9. PICK k \in T : \A y \in T : k <= y
  <2> HIDE DEF T
  <2> QED
    BY <1>7, <1>8, LeastNatural
<1>10. k \in 0 .. n /\ ~LinesOf(S, start \o J[k], k, f, w)
  BY <1>9
<1>11. CASE k = 0
  <2>1. J[0] = << >>
    BY <1>3 DEF Joins
  <2>2. start \o << >> = start
    BY <1>5, ConcatEmptySeq
  <2> QED
    BY <2>1, <2>2, <1>10, <1>11
<1>12. CASE k # 0
  <2>1. PICK l \in 0 .. n : k = l + 1 /\ l < k /\ k \in 1 .. n /\ k - 1 = l
    <3>1. k - 1 \in 0 .. n /\ k = (k - 1) + 1 /\ k - 1 < k /\ k \in 1 .. n
      BY <1>10, <1>12
    <3> QED
      BY <3>1
  <2>2. LinesOf(S, start \o J[l], l, f, w)
    BY <1>9, <2>1
  <2>3. J[k] = J[l] \o Q[k] /\ J[l] \in Seq(Seq(S)) /\ Q[k] \in Seq(Seq(S))
    BY <2>1, <1>1, <1>3 DEF Joins
  <2>4. LinesOf(S, (start \o J[l]) \o Q[k], l + 1, f, w)
    <3>1. PICK g, v, y : g = Always(f[k]) /\ v = Always(w[k]) /\ y = Q[k]
      OBVIOUS
    <3>2. LinesOf(S, y, 1, g, v)
      BY <3>1, <2>1
    <3>3. \A i \in 1 .. 1 : f[l + i] = g[i] /\ w[l + i] = v[i]
      BY <3>1, <2>1 DEF Always
    <3>4. \A i \in 1 .. l : f[i] = f[i] /\ w[i] = w[i]
      OBVIOUS
    <3>5. Together(l, f, w, 1, g, v, f, w)
      BY <3>3, <3>4, Zenon DEF Together
    <3> QED
      BY <3>1, <3>2, <3>5, <2>2, LinesOfBoth, Zenon
  <2>5. (start \o J[l]) \o Q[k] = start \o J[k]
    <3>1. Associate(start, J[l], Q[k])
      BY <2>3, <1>5, Associates, Zenon
    <3>2. (start \o J[l]) \o Q[k] = start \o (J[l] \o Q[k])
      BY <3>1, Zenon DEF Associate
    <3> QED
      BY <3>2, <2>3, Zenon
  <2> QED
    BY <2>1, <2>4, <2>5, <1>10, Zenon
<1> QED
  BY <1>11, <1>12
----------------------------------------------------------------------------
(* CliHelp: the help.                                                       *)

APositional(p) == p.size \in Nat /\ p.size # 0 /\ p.required \in BOOLEAN

\* What lor_cli_fprint_help is called with.
AParser(g, n, m) ==
    /\ n \in Nat /\ m \in Nat
    /\ Len(g.options) = n /\ DOMAIN g.options = 1 .. n
    /\ \A k \in 1 .. n : AnOption(g.options[k])
    /\ Len(g.positionals) = m /\ DOMAIN g.positionals = 1 .. m
    /\ \A k \in 1 .. m : APositional(g.positionals[k])
    /\ g.positionals = << >> <=> m = 0

UsageCalls(g) == TextSeq!FlattenSeq([k \in DOMAIN g.positionals |-> Usage(g.positionals[k])])
BeforeOptions(g) ==
    << <<Text("usage", 0)>>, <<Text("[options]", 0)>> >> \o UsageCalls(g) \o << <<LineBreak>> >>
    \o When(g.description, Text("description", 0))

LEMMA TwoTexts ==
  ASSUME NEW S, NEW a \in S, NEW b \in S
  PROVE  \E t \in Seq(S) : t = <<a, b>> /\ Len(t) = 2 /\ t[1] = a /\ t[2] = b
<1>1. <<a, b>> \in Seq(S) /\ Len(<<a, b>>) = 2 /\ <<a, b>>[1] = a /\ <<a, b>>[2] = b
  OBVIOUS
<1> WITNESS <<a, b>> \in Seq(S)
<1> QED
  BY <1>1

\* Parts of calls, one behind the other, are calls.
LEMMA PartsAreCalls ==
  ASSUME NEW S, NEW n \in Nat, NEW Q, Q = [k \in 1 .. n |-> Q[k]],
         \A k \in 1 .. n : Q[k] \in Seq(S)
  PROVE  TextSeq!FlattenSeq(Q) \in Seq(S)
<1>1. Q \in Seq(Seq(S))
  OBVIOUS
<1>2. PICK J : Prints(S, Q, J[Len(Q)])
  BY <1>1, CallsJoin
<1> QED
  BY <1>2, Zenon DEF Prints

LEMMA UsageCallsTyped ==
  ASSUME NEW g, NEW n, NEW m, AParser(g, n, m)
  PROVE  UsageCalls(g) \in Seq(Seq(TextsOf(UsageRoles)))
<1> DEFINE S == TextsOf(UsageRoles)
           Q == [k \in DOMAIN g.positionals |-> Usage(g.positionals[k])]
<1>1. ASSUME NEW k \in 1 .. m
      PROVE  Usage(g.positionals[k]) \in Seq(Seq(S))
  <2>1. PICK size \in Nat : size = g.positionals[k].size
    BY DEF AParser, APositional
  <2>2. Text("[name...]", size) \in S /\ Text("<name>", size) \in S /\ Text("[name]", size) \in S
    <3>1. {"[name...]", "<name>", "[name]"} \subseteq UsageRoles
      BY DEF UsageRoles
    <3> QED
      BY <3>1, TextOf
  <2>3. PICK u \in S : Usage(g.positionals[k]) = << <<u>> >>
    BY <2>1, <2>2, Zenon DEF Usage
  <2>4. <<u>> \in Seq(S)
    BY <2>3
  <2>5. << <<u>> >> \in Seq(Seq(S))
    BY <2>4, OneElement
  <2> QED
    BY <2>3, <2>5
<1>2. DOMAIN g.positionals = 1 .. m /\ m \in Nat
  BY DEF AParser
<1> HIDE DEF S
<1>3. Q = [k \in 1 .. m |-> Q[k]] /\ \A k \in 1 .. m : Q[k] \in Seq(Seq(S))
  BY <1>1, <1>2
<1> HIDE DEF Q
<1>4. TextSeq!FlattenSeq(Q) \in Seq(Seq(S))
  BY <1>2, <1>3, PartsAreCalls, Zenon
<1> QED
  BY <1>4, Zenon DEF S, Q, UsageCalls

LEMMA BeforeOptionsTyped ==
  ASSUME NEW g, NEW n, NEW m, AParser(g, n, m)
  PROVE  BeforeOptions(g) \in Seq(Seq(TextsOf(UsageRoles)))
<1> DEFINE S == TextsOf(UsageRoles)
<1>1. /\ Text("usage", 0) \in S /\ Text("[options]", 0) \in S /\ LineBreak \in S
      /\ Text("description", 0) \in S
  <2>1. {"usage", "[options]", "description", "newline"} \subseteq UsageRoles /\ 0 \in Nat
    BY DEF UsageRoles
  <2> QED
    BY <2>1, TextOf DEF LineBreak
<1>2. UsageCalls(g) \in Seq(Seq(S))
  BY UsageCallsTyped
<1> HIDE DEF S
<1>3. <<Text("usage", 0)>> \in Seq(S) /\ <<Text("[options]", 0)>> \in Seq(S)
      /\ <<LineBreak>> \in Seq(S)
  BY <1>1, OneElement
<1>4. << <<Text("usage", 0)>>, <<Text("[options]", 0)>> >> \in Seq(Seq(S))
  BY <1>3, TwoTexts
<1>5. << <<LineBreak>> >> \in Seq(Seq(S))
  BY <1>3, OneElement
<1>6. When(g.description, Text("description", 0)) \in Seq(Seq(S))
  BY <1>1, PrintsWhen, Zenon DEF Prints
<1>7. ASSUME NEW a \in Seq(Seq(S)), NEW b \in Seq(Seq(S))
      PROVE  a \o b \in Seq(Seq(S))
  BY ConcatProperties
<1> QED
  BY <1>2, <1>4, <1>5, <1>6, <1>7, Zenon DEF BeforeOptions, S

\* Calls that print no help, and then the title of a section and a newline.
LEMMA TitleEnds ==
  ASSUME NEW roles, "help" \notin roles, NEW puts \in Seq(Seq(TextsOf(roles))),
         NEW title \in TextsOf(roles), LineBreak \in TextsOf(roles), NEW f, NEW w
  PROVE  LinesOf(TextsOf(roles), puts \o << <<title, LineBreak>> >>, 0, f, w)
<1> DEFINE S == TextsOf(roles)
<1>1. PICK J : Prints(S, puts, J[Len(puts)])
  BY CallsJoin
<1>2. PICK a \in Seq(S) : Prints(S, puts, a)
  BY <1>1 DEF Prints
<1>3. title \in S /\ LineBreak \in S
  OBVIOUS
<1> HIDE DEF S
<1>4. PICK b \in Seq(S) : /\ b = <<title, LineBreak>> /\ Len(b) = 2 /\ b[1] = title
                          /\ b[2] = LineBreak
  <2>1. PICK line \in S : line = LineBreak
    BY <1>3
  <2>2. PICK b \in Seq(S) : b = <<title, line>> /\ Len(b) = 2 /\ b[1] = title /\ b[2] = line
    BY <1>3, TwoTexts
  <2> QED
    BY <2>1, <2>2, Zenon
<1>5. Prints(S, << <<title, LineBreak>> >>, b)
  BY <1>4, PrintsOne, Zenon
<1>6. PICK z \in Seq(S) : z = a \o b /\ Behind(z, a, b)
  BY Concatenated, Zenon
<1>7. Prints(S, puts \o << <<title, LineBreak>> >>, z)
  BY <1>2, <1>5, <1>6, PrintsBoth, Zenon
<1>8. Len(z) # 0 /\ z[Len(z)].role = "newline"
  <2>1. Len(a) \in Nat /\ Len(z) = Len(a) + 2 /\ 2 \in 1 .. 2
    BY <1>4, <1>6 DEF Behind
  <2>2. z[Len(a) + 2] = b[2]
    BY <1>4, <1>6, <2>1 DEF Behind
  <2> QED
    BY <2>1, <2>2, <1>4 DEF LineBreak, Text
<1>9. \A k \in 1 .. Len(z) : z[k].role # "help" /\ z[k].size \in Nat
  <2> TAKE k \in 1 .. Len(z)
  <2>1. z[k] \in S
    OBVIOUS
  <2> QED
    BY <2>1 DEF S, TextsOf
<1>10. PICK e, p : Lines(S, z, 0, f, w, e, p)
  BY <1>8, <1>9, LinesWithout, Zenon
<1> QED
  BY <1>7, <1>10, Zenon DEF LinesOf, S

LEMMA LinesOfWider ==
  ASSUME NEW S, NEW W, S \subseteq W, NEW puts, NEW n, NEW f, NEW w, LinesOf(S, puts, n, f, w)
  PROVE  LinesOf(W, puts, n, f, w)
<1>1. PICK t, c, p : Prints(S, puts, t) /\ Lines(S, t, n, f, w, c, p)
  BY Zenon DEF LinesOf
<1>2. Prints(W, puts, t)
  BY <1>1, PrintsWider, Zenon
<1>3. Lines(W, t, n, f, w, c, p)
  BY <1>1, LinesWider, Zenon
<1> QED
  BY <1>2, <1>3, Zenon DEF LinesOf
----------------------------------------------------------------------------
(* CliHelp: the widest.                                                     *)

\* The greatest of the first n numbers of f, and 0.
IsWidest(w, n, f) ==
    /\ w \in Nat /\ \A i \in 1 .. n : f[i] <= w
    /\ w = 0 \/ \E i \in 1 .. n : f[i] = w

LEMMA WidestExists ==
  ASSUME NEW n \in Nat, NEW f, \A i \in 1 .. n : f[i] \in Nat
  PROVE  \E w : IsWidest(w, n, f)
<1> DEFINE T == {k \in 0 .. n : ~ \E w : IsWidest(w, k, f)}
<1>1. SUFFICES T = {}
  BY <1>1
<1>2. SUFFICES ASSUME T # {}
               PROVE  FALSE
  OBVIOUS
<1>3. T \in SUBSET Nat
  OBVIOUS
<1>4. PICK k \in T : \A y \in T : k <= y
  <2> HIDE DEF T
  <2> QED
    BY <1>2, <1>3, LeastNatural
<1>5. k \in 0 .. n /\ ~ \E w : IsWidest(w, k, f)
  BY <1>4
<1>6. CASE k = 0
  <2>1. IsWidest(0, 0, f)
    BY DEF IsWidest
  <2> QED
    BY <1>5, <1>6, <2>1
<1>7. CASE k # 0
  <2>1. PICK l \in 0 .. n : k = l + 1 /\ l < k /\ k \in 1 .. n
    <3>1. k - 1 \in 0 .. n /\ k = (k - 1) + 1 /\ k - 1 < k /\ k \in 1 .. n
      BY <1>5, <1>7
    <3> QED
      BY <3>1
  <2>2. PICK w : IsWidest(w, l, f)
    BY <1>4, <2>1
  <2>3. w \in Nat /\ f[k] \in Nat
    BY <2>1, <2>2 DEF IsWidest
  <2>4. \A i \in 1 .. k : i = k \/ i \in 1 .. l
    BY <2>1
  <2>5. 1 .. l \subseteq 1 .. k /\ k \in 1 .. k
    BY <2>1
  <2>6. \A i \in 1 .. l : f[i] <= w /\ f[i] \in Nat
    BY <2>1, <2>2 DEF IsWidest
  <2>7. CASE f[k] <= w
    <3>1. \A i \in 1 .. k : f[i] <= w
      BY <2>4, <2>6, <2>7
    <3>2. IsWidest(w, k, f)
      BY <2>2, <2>5, <3>1 DEF IsWidest
    <3> QED
      BY <1>5, <3>2
  <2>8. CASE ~(f[k] <= w)
    <3>1. \A i \in 1 .. k : f[i] <= f[k]
      BY <2>3, <2>4, <2>6, <2>8
    <3>2. IsWidest(f[k], k, f)
      BY <2>3, <2>5, <3>1 DEF IsWidest
    <3> QED
      BY <1>5, <3>2
  <2> QED
    BY <2>7, <2>8
<1> QED
  BY <1>6, <1>7

LEMMA WidestIs ==
  ASSUME NEW T \in SUBSET Nat, NEW w \in Nat, w = 0 \/ w \in T, \A y \in T : y <= w
  PROVE  Widest(T) = w
<1> DEFINE U == T \cup {0}
<1>1. w \in U /\ U \in SUBSET Nat /\ \A y \in U : w >= y
  OBVIOUS
<1> HIDE DEF U
<1>2. SizeSet!Max(U) \in U /\ \A y \in U : SizeSet!Max(U) >= y
  BY <1>1, Zenon DEF SizeSet!Max
<1>3. SizeSet!Max(U) = w
  <2>1. PICK z \in U : z = SizeSet!Max(U) /\ \A y \in U : z >= y
    BY <1>2
  <2>2. z \in Nat /\ z >= w /\ w >= z
    BY <2>1, <1>1
  <2> QED
    BY <2>1, <2>2
<1> QED
  BY <1>3 DEF Widest, U

\* The sizes of the labels before the helps of the options and of -h, and of the arguments.
OptionSizes(g, n) ==
    [i \in 1 .. n + 1 |-> IF i <= n THEN LabelSize(g.options[i]) ELSE HelpSize]
ArgumentSizes(g, m) == [i \in 1 .. m |-> g.positionals[i].size]

LEMMA OptionSizesTyped ==
  ASSUME NEW g, NEW n, NEW m, AParser(g, n, m)
  PROVE  /\ n + 1 \in Nat /\ \A i \in 1 .. n + 1 : OptionSizes(g, n)[i] \in Nat
         /\ \A i \in 1 .. n : OptionSizes(g, n)[i] = LabelSize(g.options[i])
         /\ OptionSizes(g, n)[n + 1] = HelpSize
<1>1. n \in Nat /\ \A i \in 1 .. n : AnOption(g.options[i])
  BY DEF AParser
<1>2. \A i \in 1 .. n : LabelSize(g.options[i]) \in Nat
  BY <1>1, LabelIs
<1>3. HelpSize \in Nat
  BY HelpAssumption
<1>4. n + 1 \in 1 .. n + 1 /\ ~(n + 1 <= n) /\ \A i \in 1 .. n : i \in 1 .. n + 1 /\ i <= n
  BY <1>1
<1>5. \A i \in 1 .. n + 1 : i \in 1 .. n \/ i = n + 1
  BY <1>1
<1>6. \A i \in 1 .. n : OptionSizes(g, n)[i] = LabelSize(g.options[i])
  BY <1>4 DEF OptionSizes
<1>7. OptionSizes(g, n)[n + 1] = HelpSize
  BY <1>4 DEF OptionSizes
<1> QED
  BY <1>1, <1>2, <1>3, <1>5, <1>6, <1>7

LEMMA OptionWidthIs ==
  ASSUME NEW g, NEW n, NEW m, AParser(g, n, m)
  PROVE  /\ OptionWidth(g.options) \in Nat
         /\ \E w : IsWidest(w, n + 1, OptionSizes(g, n)) /\ OptionWidth(g.options) = Capped(w, Cap)
<1> DEFINE f == OptionSizes(g, n)
           T == {LabelSize(g.options[k]) : k \in DOMAIN g.options} \cup {HelpSize}
<1>1. PICK w : IsWidest(w, n + 1, f)
  BY OptionSizesTyped, WidestExists
<1>2. n \in Nat /\ DOMAIN g.options = 1 .. n
  BY DEF AParser
<1>3. /\ \A i \in 1 .. n + 1 : f[i] \in Nat
      /\ \A i \in 1 .. n : f[i] = LabelSize(g.options[i])
      /\ f[n + 1] = HelpSize
  BY OptionSizesTyped
<1> HIDE DEF f
<1>4. \A i \in 1 .. n : i \in 1 .. n + 1
  BY <1>2
<1>5. n + 1 \in 1 .. n + 1 /\ \A i \in 1 .. n + 1 : i \in 1 .. n \/ i = n + 1
  BY <1>2
<1>6. \A i \in 1 .. n + 1 : f[i] \in T
  BY <1>2, <1>3, <1>5
<1>7. \A y \in T : \E i \in 1 .. n + 1 : y = f[i]
  BY <1>2, <1>3, <1>4, <1>5
<1> HIDE DEF T
<1>8. T \in SUBSET Nat /\ w \in Nat /\ (w = 0 \/ w \in T) /\ \A y \in T : y <= w
  BY <1>1, <1>3, <1>6, <1>7 DEF IsWidest
<1>9. Widest(T) = w
  BY <1>8, WidestIs
<1>10. OptionWidth(g.options) = Capped(w, Cap)
  BY <1>9, Zenon DEF OptionWidth, T
<1>11. Capped(w, Cap) \in Nat
  BY <1>8, HelpAssumption DEF Capped
<1> QED
  BY <1>1, <1>10, <1>11, Zenon DEF f

LEMMA PositionalWidthIs ==
  ASSUME NEW g, NEW n, NEW m, AParser(g, n, m)
  PROVE  /\ PositionalWidth(g.positionals) \in Nat
         /\ \E w : /\ IsWidest(w, m, ArgumentSizes(g, m))
                   /\ PositionalWidth(g.positionals) = Capped(w, Cap)
<1> DEFINE f == ArgumentSizes(g, m)
           T == {g.positionals[k].size : k \in DOMAIN g.positionals}
<1>1. m \in Nat /\ DOMAIN g.positionals = 1 .. m
  BY DEF AParser
<1>2. \A i \in 1 .. m : f[i] = g.positionals[i].size /\ f[i] \in Nat
  BY DEF AParser, APositional, ArgumentSizes
<1> HIDE DEF f
<1>3. PICK w : IsWidest(w, m, f)
  BY <1>1, <1>2, WidestExists
<1>4. T \in SUBSET Nat /\ w \in Nat /\ (w = 0 \/ w \in T) /\ \A y \in T : y <= w
  BY <1>1, <1>2, <1>3 DEF IsWidest
<1> HIDE DEF T
<1>5. Widest(T) = w
  BY <1>4, WidestIs
<1>6. PositionalWidth(g.positionals) = Capped(w, Cap)
  BY <1>5, Zenon DEF PositionalWidth, T
<1>7. Capped(w, Cap) \in Nat
  BY <1>4, HelpAssumption DEF Capped
<1> QED
  BY <1>3, <1>6, <1>7, Zenon DEF f
----------------------------------------------------------------------------
(* CliHelp: the sections of the help.                                       *)

Wide(n, width) == [i \in 1 .. n |-> width]

OptionLines(g) ==
    TextSeq!FlattenSeq([k \in DOMAIN g.options |->
                           OptionLine(g.options[k], OptionWidth(g.options))])
ArgumentLines(g) ==
    TextSeq!FlattenSeq([k \in DOMAIN g.positionals |->
                           NameLine(Text("name", g.positionals[k].size),
                                    PositionalWidth(g.positionals))])
OptionSection(g) ==
    BeforeOptions(g) \o << <<Text("Options:", 0), LineBreak>> >> \o OptionLines(g)
    \o NameLine(Text("-h, --help", HelpSize), OptionWidth(g.options))

LEMMA OptionSectionIs ==
  ASSUME NEW g, NEW n, NEW m, AParser(g, n, m)
  PROVE  LinesOf(TextsOf(SectionRoles), OptionSection(g), n + 1, OptionSizes(g, n),
                 Wide(n + 1, OptionWidth(g.options)))
<1> DEFINE S == TextsOf(SectionRoles)
           Q == [k \in DOMAIN g.options |-> OptionLine(g.options[k], OptionWidth(g.options))]
           Start == BeforeOptions(g) \o << <<Text("Options:", 0), LineBreak>> >>
<1>1. PICK f, w, width : /\ f = OptionSizes(g, n) /\ w = Wide(n + 1, OptionWidth(g.options))
                         /\ width = OptionWidth(g.options)
  OBVIOUS
<1>2. width \in Nat
  BY <1>1, OptionWidthIs, Zenon
<1>3. n \in Nat /\ DOMAIN g.options = 1 .. n /\ \A k \in 1 .. n : AnOption(g.options[k])
  BY DEF AParser
<1>4. LinesOf(S, Start, 0, f, w)
  <2>1. /\ "help" \notin UsageRoles /\ UsageRoles \subseteq SectionRoles
        /\ {"Options:", "newline"} \subseteq UsageRoles /\ 0 \in Nat
    BY DEF UsageRoles, SectionRoles
  <2>2. Text("Options:", 0) \in TextsOf(UsageRoles) /\ LineBreak \in TextsOf(UsageRoles)
    BY <2>1, TextOf DEF LineBreak
  <2>3. BeforeOptions(g) \in Seq(Seq(TextsOf(UsageRoles)))
    BY BeforeOptionsTyped
  <2>4. LinesOf(TextsOf(UsageRoles), Start, 0, f, w)
    BY <2>1, <2>2, <2>3, TitleEnds, Zenon
  <2>5. TextsOf(UsageRoles) \subseteq S
    BY <2>1 DEF TextsOf
  <2> HIDE DEF S, Start
  <2> QED
    BY <2>4, <2>5, LinesOfWider, Zenon
<1>5. /\ \A k \in 1 .. n : f[k] = LabelSize(g.options[k]) /\ w[k] = width
      /\ f[n + 1] = HelpSize /\ w[n + 1] = width
  <2>1. n + 1 \in 1 .. n + 1 /\ \A k \in 1 .. n : k \in 1 .. n + 1
    BY <1>3
  <2>2. \A k \in 1 .. n + 1 : w[k] = width
    BY <1>1 DEF Wide
  <2> QED
    BY <2>1, <2>2, <1>1, OptionSizesTyped
<1>6. \A k \in 1 .. n : LinesOf(S, Q[k], 1, Always(f[k]), Always(w[k]))
  <2> TAKE k \in 1 .. n
  <2>1. Q[k] = OptionLine(g.options[k], width) /\ AnOption(g.options[k])
    BY <1>1, <1>3
  <2>2. Always(f[k])[1] = LabelSize(g.options[k]) /\ Always(w[k])[1] = width
    BY <1>5 DEF Always
  <2> HIDE DEF Q, S
  <2>3. LinesOf(S, OptionLine(g.options[k], width), 1, Always(f[k]), Always(w[k]))
    BY <2>1, <2>2, <1>2, OptionLineIs, Zenon DEF S
  <2> QED
    BY <2>1, <2>3
<1>7. Q = [k \in 1 .. n |-> Q[k]]
  BY <1>3
<1> HIDE DEF Q, S, Start
<1>8. LinesOf(S, Start \o TextSeq!FlattenSeq(Q), n, f, w)
  BY <1>3, <1>4, <1>6, <1>7, LinesOfMany, Zenon
<1>9. LinesOf(S, NameLine(Text("-h, --help", HelpSize), width), 1, Always(HelpSize),
              Always(width))
  <2>1. "-h, --help" \in SectionRoles /\ "-h, --help" \notin {"blanks", "newline", "help"}
    BY Zenon DEF SectionRoles
  <2>2. HelpSize \in Nat
    BY HelpAssumption
  <2>3. Always(HelpSize)[1] = HelpSize /\ Always(width)[1] = width
    BY DEF Always
  <2> QED
    BY <2>1, <2>2, <2>3, <1>2, NameLineIs, Zenon DEF S
<1>10. Together(n, f, w, 1, Always(HelpSize), Always(width), f, w)
  <2>1. \A i \in 1 .. 1 : i = 1
    OBVIOUS
  <2>2. \A i \in 1 .. 1 : f[n + i] = Always(HelpSize)[i] /\ w[n + i] = Always(width)[i]
    BY <2>1, <1>5 DEF Always
  <2> QED
    BY <2>2, Zenon DEF Together
<1>11. LinesOf(S, (Start \o TextSeq!FlattenSeq(Q))
                  \o NameLine(Text("-h, --help", HelpSize), width), n + 1, f, w)
  BY <1>8, <1>9, <1>10, LinesOfBoth, Zenon
<1> QED
  BY <1>1, <1>11, Zenon DEF OptionSection, OptionLines, S, Q, Start

LEMMA NoLines ==
  ASSUME NEW S, NEW f, NEW w
  PROVE  LinesOf(S, << >>, 0, f, w)
<1>1. Prints(S, << >>, << >>)
  BY PrintsNothing
<1>2. PICK t \in Seq(S) : t = << >> /\ Len(t) = 0
  <2>1. << >> \in Seq(S) /\ Len(<< >>) = 0
    OBVIOUS
  <2> QED
    BY <2>1
<1>3. PICK c : Runs(t, c, 0)
  <2>1. \A k \in 1 .. 0 : t[k].size \in Nat
    OBVIOUS
  <2> QED
    BY <2>1, <1>2, RunsExist
<1>4. c[Len(t) + 1] = 0
  BY <1>2, <1>3 DEF Runs
<1>5. PICK p : p = [i \in 1 .. 0 |-> i]
  OBVIOUS
<1>6. p \in [1 .. 0 -> 1 .. Len(t)]
  BY <1>5
<1>7. Lines(S, t, 0, f, w, c, p)
  BY <1>2, <1>3, <1>4, <1>6 DEF Lines
<1> QED
  BY <1>1, <1>2, <1>7, Zenon DEF LinesOf

LEMMA ArgumentLinesAre ==
  ASSUME NEW g, NEW n, NEW m, AParser(g, n, m)
  PROVE  LinesOf(TextsOf(SectionRoles), ArgumentLines(g), m, ArgumentSizes(g, m),
                 Wide(m, PositionalWidth(g.positionals)))
<1> DEFINE S == TextsOf(SectionRoles)
           Q == [k \in DOMAIN g.positionals |->
                    NameLine(Text("name", g.positionals[k].size),
                             PositionalWidth(g.positionals))]
<1>1. PICK f, w, width : /\ f = ArgumentSizes(g, m)
                         /\ w = Wide(m, PositionalWidth(g.positionals))
                         /\ width = PositionalWidth(g.positionals)
  OBVIOUS
<1>2. width \in Nat
  BY <1>1, PositionalWidthIs, Zenon
<1>3. /\ m \in Nat /\ DOMAIN g.positionals = 1 .. m
      /\ \A k \in 1 .. m : g.positionals[k].size \in Nat
  BY DEF AParser, APositional
<1>4. \A k \in 1 .. m : f[k] = g.positionals[k].size /\ w[k] = width
  BY <1>1 DEF ArgumentSizes, Wide
<1>5. \A k \in 1 .. m : LinesOf(S, Q[k], 1, Always(f[k]), Always(w[k]))
  <2> TAKE k \in 1 .. m
  <2>1. Q[k] = NameLine(Text("name", g.positionals[k].size), width)
    BY <1>1, <1>3
  <2>2. Always(f[k])[1] = g.positionals[k].size /\ Always(w[k])[1] = width
    BY <1>4 DEF Always
  <2>3. "name" \in SectionRoles /\ "name" \notin {"blanks", "newline", "help"}
    BY DEF SectionRoles
  <2> HIDE DEF Q, S
  <2>4. LinesOf(S, NameLine(Text("name", g.positionals[k].size), width), 1,
                Always(f[k]), Always(w[k]))
    BY <2>2, <2>3, <1>2, <1>3, NameLineIs, Zenon DEF S
  <2> QED
    BY <2>1, <2>4
<1>6. Q = [k \in 1 .. m |-> Q[k]]
  BY <1>3
<1> HIDE DEF Q, S
<1>7. LinesOf(S, << >>, 0, f, w)
  BY NoLines
<1>8. LinesOf(S, << >> \o TextSeq!FlattenSeq(Q), m, f, w)
  BY <1>3, <1>5, <1>6, <1>7, LinesOfMany, Zenon
<1>9. \A k \in 1 .. m : Q[k] \in Seq(Seq(S))
  BY <1>5 DEF LinesOf, Prints
<1>10. TextSeq!FlattenSeq(Q) \in Seq(Seq(S))
  BY <1>3, <1>6, <1>9, PartsAreCalls, Zenon
<1>11. << >> \o TextSeq!FlattenSeq(Q) = TextSeq!FlattenSeq(Q)
  BY <1>10, ConcatEmptySeq
<1> QED
  BY <1>1, <1>8, <1>11, Zenon DEF ArgumentLines, S, Q
Title == "Arguments:"
AllTexts == TextsOf(SectionRoles \cup {Title})

\* The text t has lines with helps: n of options and of -h, then the title of the arguments
\* if there are any, and m of arguments.
HelpText(t, n, m, f, w, g, v, h, u, c, p) ==
    /\ Together(n, f, w, m, g, v, h, u) /\ Lines(AllTexts, t, n + m, h, u, c, p)
    /\ \A i \in 1 .. n + m : (\E k \in 1 .. p[i] : t[k].role = Title) <=> i > n

LEMMA TogetherExists ==
  ASSUME NEW n \in Nat, NEW m \in Nat, NEW f, NEW w, NEW g, NEW v
  PROVE  \E h, u : Together(n, f, w, m, g, v, h, u)
<1>1. PICK h, u : /\ h = [i \in 1 .. n + m |-> IF i <= n THEN f[i] ELSE g[i - n]]
                  /\ u = [i \in 1 .. n + m |-> IF i <= n THEN w[i] ELSE v[i - n]]
  OBVIOUS
<1>2. \A i \in 1 .. n : i \in 1 .. n + m /\ i <= n
  OBVIOUS
<1>3. \A i \in 1 .. m : n + i \in 1 .. n + m /\ ~(n + i <= n) /\ (n + i) - n = i
  OBVIOUS
<1>4. \A i \in 1 .. n : h[i] = f[i] /\ u[i] = w[i]
  BY <1>1, <1>2
<1>5. \A i \in 1 .. m : h[n + i] = g[i] /\ u[n + i] = v[i]
  BY <1>1, <1>3
<1>6. Together(n, f, w, m, g, v, h, u)
  BY <1>4, <1>5 DEF Together
<1> QED
  BY <1>6

\* Without arguments the help is the section of the options.
LEMMA NoArguments ==
  ASSUME NEW n \in Nat, NEW f, NEW w, NEW g, NEW v, NEW t, NEW c, NEW p,
         Lines(TextsOf(SectionRoles), t, n, f, w, c, p)
  PROVE  HelpText(t, n, 0, f, w, g, v, f, w, c, p)
<1>1. TextsOf(SectionRoles) \subseteq AllTexts
  BY DEF TextsOf, AllTexts
<1>2. Lines(AllTexts, t, n, f, w, c, p)
  BY <1>1, LinesWider, Zenon
<1>3. n + 0 = n /\ \A i \in 1 .. n + 0 : ~(i > n)
  OBVIOUS
<1>4. Together(n, f, w, 0, g, v, f, w)
  <2>1. \A i \in 1 .. 0 : FALSE
    OBVIOUS
  <2> QED
    BY <2>1, Zenon DEF Together
<1>5. ASSUME NEW i \in 1 .. n, NEW k \in 1 .. p[i]
      PROVE  t[k].role # Title
  <2>1. t \in Seq(TextsOf(SectionRoles)) /\ p[i] \in 1 .. Len(t)
    BY DEF Lines
  <2>2. t[k] \in TextsOf(SectionRoles)
    BY <2>1
  <2>3. Title \notin SectionRoles
    BY DEF Title, SectionRoles, LabelRoles, EndRoles, UsageRoles
  <2> QED
    BY <2>2, <2>3 DEF TextsOf
<1> QED
  BY <1>2, <1>3, <1>4, <1>5 DEF HelpText

\* With arguments their title and their lines follow.
LEMMA SomeArguments ==
  ASSUME NEW n, NEW f, NEW w, NEW a, NEW c, NEW p,
         Lines(TextsOf(SectionRoles), a, n, f, w, c, p),
         NEW m, NEW g, NEW v, NEW b, NEW d, NEW q,
         Lines(TextsOf(SectionRoles), b, m, g, v, d, q),
         NEW z, z = <<Text(Title, 0), LineBreak>>
  PROVE  /\ z \in Seq(AllTexts)
         /\ \E h, u, e, r : HelpText(a \o (z \o b), n, m, f, w, g, v, h, u, e, r)
<1>1. TextsOf(SectionRoles) \subseteq AllTexts
  BY DEF TextsOf, AllTexts
<1>2. Lines(AllTexts, a, n, f, w, c, p) /\ Lines(AllTexts, b, m, g, v, d, q)
  BY <1>1, LinesWider, Zenon
<1>3. Text(Title, 0) \in AllTexts /\ LineBreak \in AllTexts
  <2>1. "newline" \in SectionRoles /\ 0 \in Nat
    BY DEF SectionRoles, EndRoles
  <2> QED
    BY <2>1, TextOf DEF LineBreak, AllTexts
<1>4. z \in Seq(AllTexts) /\ Len(z) = 2 /\ z[1] = Text(Title, 0) /\ z[2] = LineBreak
  <2>1. PICK x \in AllTexts, y \in AllTexts : x = Text(Title, 0) /\ y = LineBreak
    BY <1>3
  <2>2. PICK t \in Seq(AllTexts) : t = <<x, y>> /\ Len(t) = 2 /\ t[1] = x /\ t[2] = y
    BY TwoTexts
  <2> QED
    BY <2>1, <2>2, Zenon
<1>5. z[1].role = Title /\ z[2].role = "newline" /\ z[1].size = 0 /\ z[2].size = 0
  BY <1>4 DEF Text, LineBreak
<1>6. \A k \in 1 .. 2 : k = 1 \/ k = 2
  OBVIOUS
<1>7. PICK x, o : Lines(AllTexts, z, 0, g, v, x, o)
  <2>1. Len(z) # 0 /\ z[Len(z)].role = "newline"
    BY <1>4, <1>5
  <2>2. Title # "help" /\ "newline" # "help" /\ 0 \in Nat
    BY DEF Title
  <2>3. \A k \in 1 .. Len(z) : z[k].role # "help" /\ z[k].size \in Nat
    BY <2>2, <1>4, <1>5, <1>6
  <2> QED
    BY <2>1, <2>3, <1>4, LinesWithout, Zenon
<1>8. n \in Nat /\ m \in Nat /\ 0 + m = m
  BY DEF Lines
<1>9. Together(0, g, v, m, g, v, g, v)
  BY <1>8 DEF Together
<1>10. PICK y, s : Lines(AllTexts, z \o b, 0 + m, g, v, y, s) /\ PlacesMeet(0, m, Len(z), o, q, s)
  BY <1>2, <1>7, <1>9, LinesMeet, Zenon
<1>11. PICK h, u : Together(n, f, w, m, g, v, h, u)
  BY <1>8, TogetherExists, Zenon
<1>12. Lines(AllTexts, z \o b, m, g, v, y, s)
  BY <1>8, <1>10, Zenon
<1>13. PICK e, r : /\ Lines(AllTexts, a \o (z \o b), n + m, h, u, e, r)
                   /\ PlacesMeet(n, m, Len(a), p, s, r)
  BY <1>2, <1>11, <1>12, LinesMeet, Zenon
<1>14. PICK y1 : y1 = z \o b /\ y1 \in Seq(AllTexts) /\ Behind(y1, z, b)
  <2>1. b \in Seq(AllTexts)
    BY <1>2, Zenon DEF Lines
  <2> QED
    BY <2>1, <1>4, Concatenated, Zenon
<1>15. PICK t : t = a \o y1 /\ t \in Seq(AllTexts) /\ Behind(t, a, y1)
  <2>1. a \in Seq(AllTexts)
    BY <1>2, Zenon DEF Lines
  <2> QED
    BY <2>1, <1>14, Concatenated, Zenon
<1>16. PICK la \in Nat : la = Len(a)
  BY DEF Lines
<1>17. \A k \in 1 .. la : t[k].role # Title
  <2> TAKE k \in 1 .. la
  <2>1. a[k] \in TextsOf(SectionRoles)
    BY <1>16 DEF Lines
  <2>2. Title \notin SectionRoles
    BY DEF Title, SectionRoles, LabelRoles, EndRoles, UsageRoles
  <2>3. t[k] = a[k]
    BY <1>15, <1>16 DEF Behind
  <2> QED
    BY <2>1, <2>2, <2>3 DEF TextsOf
<1>18. t[la + 1].role = Title
  <2>1. Len(b) \in Nat
    BY DEF Lines
  <2>2. 1 \in 1 .. Len(y1) /\ y1[1] = z[1]
    BY <2>1, <1>4, <1>14 DEF Behind
  <2>3. t[la + 1] = y1[1]
    BY <2>2, <1>15, <1>16 DEF Behind
  <2> QED
    BY <2>2, <2>3, <1>5
<1>19. \A i \in 1 .. n : r[i] \in 1 .. la
  BY <1>13, <1>16 DEF PlacesMeet, Lines
<1>20. \A i \in 1 .. m : r[n + i] = la + s[i] /\ s[i] \in Nat /\ s[i] > 0
  <2>1. \A i \in 1 .. m : r[n + i] = la + s[i]
    BY <1>13, <1>16 DEF PlacesMeet
  <2>2. PICK l \in Nat : l = Len(y1)
    BY <1>14
  <2>3. \A i \in 1 .. m : s[i] \in 1 .. l
    <3>1. Lines(AllTexts, y1, m, g, v, y, s)
      BY <1>12, <1>14, Zenon
    <3>2. s \in [1 .. m -> 1 .. Len(y1)]
      BY <3>1, Zenon DEF Lines
    <3> QED
      BY <3>2, <2>2
  <2> QED
    BY <2>1, <2>3
<1>21. ASSUME NEW i \in 1 .. n + m
       PROVE  (\E k \in 1 .. r[i] : t[k].role = Title) <=> i > n
  <2>1. CASE i <= n
    <3>1. i \in 1 .. n /\ ~(i > n)
      BY <2>1, <1>8
    <3>2. 1 .. r[i] \subseteq 1 .. la
      BY <3>1, <1>19
    <3> QED
      BY <3>1, <3>2, <1>17
  <2>2. CASE i > n
    <3>1. PICK j \in 1 .. m : i = n + j
      <4>1. i - n \in 1 .. m /\ i = n + (i - n)
        BY <2>2, <1>8
      <4> QED
        BY <4>1
    <3>2. la + 1 \in 1 .. r[i]
      BY <3>1, <1>20
    <3> QED
      BY <3>2, <2>2, <1>18
  <2> QED
    BY <2>1, <2>2, <1>8
<1>22. HelpText(t, n, m, f, w, g, v, h, u, e, r)
  BY <1>11, <1>13, <1>14, <1>15, <1>21, Zenon DEF HelpText
<1> QED
  BY <1>4, <1>14, <1>15, <1>22, Zenon

LEMMA HelpIs ==
  ASSUME NEW g, NEW n, NEW m, AParser(g, n, m)
  PROVE  \E t, h, u, c, p :
            /\ Prints(AllTexts, HelpCalls(g), t)
            /\ HelpText(t, n + 1, m, OptionSizes(g, n), Wide(n + 1, OptionWidth(g.options)),
                        ArgumentSizes(g, m), Wide(m, PositionalWidth(g.positionals)),
                        h, u, c, p)
<1> DEFINE S == TextsOf(SectionRoles)
<1>1. PICK f, w, x, v : /\ f = OptionSizes(g, n) /\ w = Wide(n + 1, OptionWidth(g.options))
                        /\ x = ArgumentSizes(g, m)
                        /\ v = Wide(m, PositionalWidth(g.positionals))
  OBVIOUS
<1>2. PICK a, c, p : Prints(S, OptionSection(g), a) /\ Lines(S, a, n + 1, f, w, c, p)
  BY <1>1, OptionSectionIs, Zenon DEF LinesOf
<1>3. PICK b, d, q : Prints(S, ArgumentLines(g), b) /\ Lines(S, b, m, x, v, d, q)
  BY <1>1, ArgumentLinesAre, Zenon DEF LinesOf
<1>4. S \subseteq AllTexts
  BY DEF TextsOf, AllTexts
<1> HIDE DEF S
<1>5. Prints(AllTexts, OptionSection(g), a) /\ Prints(AllTexts, ArgumentLines(g), b)
  BY <1>2, <1>3, <1>4, PrintsWider, Zenon
<1>6. n + 1 \in Nat /\ m \in Nat /\ (g.positionals = << >> <=> m = 0)
  BY DEF AParser
<1>7. HelpCalls(g) = OptionSection(g) \o (IF g.positionals = << >> THEN << >>
                                          ELSE << <<Text(Title, 0), LineBreak>> >>
                                               \o ArgumentLines(g))
  BY Zenon DEF HelpCalls, OptionSection, OptionLines, ArgumentLines, BeforeOptions,
               UsageCalls, Title
<1>8. CASE m = 0
  <2>1. HelpCalls(g) = OptionSection(g) \o << >>
    BY <1>6, <1>7, <1>8, Zenon
  <2>2. OptionSection(g) \o << >> = OptionSection(g)
    <3>1. OptionSection(g) \in Seq(Seq(AllTexts))
      BY <1>5 DEF Prints
    <3> QED
      BY <3>1, ConcatEmptySeq
  <2>3. HelpText(a, n + 1, 0, f, w, x, v, f, w, c, p)
    BY <1>2, <1>6, NoArguments, Zenon DEF S
  <2> QED
    BY <2>1, <2>2, <2>3, <1>1, <1>5, <1>8, Zenon
<1>9. CASE m # 0
  <2>1. HelpCalls(g) = OptionSection(g) \o (<< <<Text(Title, 0), LineBreak>> >>
                                            \o ArgumentLines(g))
    BY <1>6, <1>7, <1>9, Zenon
  <2>2. PICK z : z = <<Text(Title, 0), LineBreak>>
    OBVIOUS
  <2>3. /\ z \in Seq(AllTexts)
        /\ \E h, u, e, r : HelpText(a \o (z \o b), n + 1, m, f, w, x, v, h, u, e, r)
    BY <2>2, <1>2, <1>3, SomeArguments, Zenon DEF S
  <2>4. PICK h, u, e, r : HelpText(a \o (z \o b), n + 1, m, f, w, x, v, h, u, e, r)
    BY <2>3, Zenon
  <2>5. Prints(AllTexts, <<z>>, z)
    BY <2>3, PrintsOne, Zenon
  <2>6. Prints(AllTexts, <<z>> \o ArgumentLines(g), z \o b)
    BY <2>5, <1>5, PrintsBoth, Zenon
  <2>7. Prints(AllTexts, HelpCalls(g), a \o (z \o b))
    BY <2>1, <2>2, <2>6, <1>5, PrintsBoth, Zenon
  <2> QED
    BY <2>4, <2>7, <1>1, Zenon
<1> QED
  BY <1>8, <1>9
----------------------------------------------------------------------------
(* CliHelp: the columns of what was printed.                                *)

ColumnsOf(c, l) == \A k \in 1 .. l : Columns[k] = c[k]

LEMMA ColumnsAre ==
  ASSUME NEW l \in Nat, NEW S, printed \in Seq(S), Len(printed) = l, NEW c, Runs(printed, c, 0)
  PROVE  ColumnsOf(c, l)
<1> DEFINE G(f) == f = [n \in DOMAIN printed |->
                          IF n = 1 THEN 0
                          ELSE IF printed[n - 1].role = "newline" THEN 0
                          ELSE f[n - 1] + printed[n - 1].size]
<1>1. Columns = (CHOOSE f : G(f))
  BY Zenon DEF Columns
<1>2. DOMAIN printed = 1 .. l
  OBVIOUS
<1>3. c[1] = 0 /\ \A k \in 1 .. l : c[k + 1] = IF printed[k].role = "newline" THEN 0
                                              ELSE c[k] + printed[k].size
  BY DEF Runs
<1>4. PICK g : g = [k \in 1 .. l |-> c[k]]
  OBVIOUS
<1>5. ASSUME NEW k \in 1 .. l
      PROVE  g[k] = IF k = 1 THEN 0
                    ELSE IF printed[k - 1].role = "newline" THEN 0
                    ELSE g[k - 1] + printed[k - 1].size
  <2>1. CASE k = 1
    BY <2>1, <1>3, <1>4
  <2>2. CASE k # 1
    <3>1. PICK j \in 1 .. l : j = k - 1 /\ k = j + 1
      <4>1. k - 1 \in 1 .. l /\ k = (k - 1) + 1
        BY <2>2
      <4> QED
        BY <4>1
    <3>2. g[k] = c[j + 1] /\ g[j] = c[j]
      BY <3>1, <1>4
    <3>3. c[j + 1] = IF printed[j].role = "newline" THEN 0 ELSE c[j] + printed[j].size
      BY <1>3
    <3> QED
      BY <3>1, <3>2, <3>3, <2>2
  <2> QED
    BY <2>1, <2>2
<1>6. G(g)
  BY <1>2, <1>4, <1>5
<1>7. PICK f : f = Columns /\ G(f)
  <2> HIDE DEF G
  <2> QED
    BY <1>1, <1>6, Zenon
<1>8. \A k \in 1 .. l : f[k] = IF k = 1 THEN 0
                               ELSE IF printed[k - 1].role = "newline" THEN 0
                               ELSE f[k - 1] + printed[k - 1].size
  BY <1>2, <1>7
<1> DEFINE T == {k \in 1 .. l : f[k] # c[k]}
<1> HIDE DEF G
<1>9. SUFFICES T = {}
  BY <1>7, <1>9 DEF ColumnsOf
<1>10. SUFFICES ASSUME T # {}
                PROVE  FALSE
  OBVIOUS
<1>11. T \in SUBSET Nat
  OBVIOUS
<1>12. PICK k \in T : \A y \in T : k <= y
  <2> HIDE DEF T
  <2> QED
    BY <1>10, <1>11, LeastNatural
<1>13. CASE k = 1
  BY <1>12, <1>13, <1>3, <1>8
<1>14. CASE k # 1
  <2>1. PICK j \in 1 .. l : j = k - 1 /\ k = j + 1 /\ j < k
    <3>1. k - 1 \in 1 .. l /\ k = (k - 1) + 1 /\ k - 1 < k
      BY <1>12, <1>14
    <3> QED
      BY <3>1
  <2>2. f[j] = c[j]
    BY <2>1, <1>12
  <2>3. f[k] = IF printed[j].role = "newline" THEN 0 ELSE f[j] + printed[j].size
    BY <2>1, <1>8, <1>12, <1>14
  <2>4. c[k] = IF printed[j].role = "newline" THEN 0 ELSE c[j] + printed[j].size
    BY <2>1, <1>3
  <2> QED
    BY <2>2, <2>3, <2>4, <1>12
<1> QED
  BY <1>13, <1>14

LEMMA LabelEndIs ==
  ASSUME NEW l \in Nat, NEW S, printed \in Seq(S), Len(printed) = l, NEW c,
         ColumnsOf(c, l), NEW k \in 1 .. l, NEW s, NEW w,
         HelpAt(printed, c, k, s, w)
  PROVE  LabelEnd(k) = 2 + s
<1>1. /\ 3 < k /\ printed[k - 1].role = "blanks" /\ printed[k - 2].role = "blanks"
      /\ printed[k - 3].role \notin {"blanks", "newline"}
      /\ c[k - 3] + printed[k - 3].size = 2 + s
  BY DEF HelpAt
<1> DEFINE T == {j \in 1 .. k - 1 : printed[j].role # "blanks"}
<1>2. PICK m \in 1 .. l : m = k - 3 /\ m \in 1 .. k - 1
  <2>1. k - 3 \in 1 .. l /\ k - 3 \in 1 .. k - 1
    BY <1>1
  <2> QED
    BY <2>1
<1>3. m \in T
  BY <1>1, <1>2
<1>4. \A j \in T : j <= m /\ j \in Nat
  <2> TAKE j \in T
  <2>1. j = k - 1 \/ j = k - 2 \/ j <= k - 3
    OBVIOUS
  <2>2. j # k - 1 /\ j # k - 2
    BY <1>1
  <2> QED
    BY <2>1, <2>2, <1>2
<1> HIDE DEF T
<1>5. SizeSet!Max(T) = m
  <2>1. \A y \in T : m >= y
    BY <1>2, <1>4
  <2>2. SizeSet!Max(T) \in T /\ \A y \in T : SizeSet!Max(T) >= y
    BY <2>1, <1>3, Zenon DEF SizeSet!Max
  <2>3. PICK z \in T : z = SizeSet!Max(T) /\ \A y \in T : z >= y
    BY <2>2
  <2>4. z \in Nat /\ z >= m /\ z <= m
    BY <2>3, <1>3, <1>4
  <2> QED
    BY <2>3, <2>4, <1>2
<1>6. LabelEnd(k) = IF printed[m].role = "newline" THEN 0 ELSE Columns[m] + printed[m].size
  BY <1>5, Zenon DEF LabelEnd, T
<1>7. Columns[m] = c[m]
  BY DEF ColumnsOf
<1> QED
  BY <1>1, <1>2, <1>6, <1>7

\* The first n places of q; n sizes of labels and the width that goes with them.
PlacesOf(helps, n, q) == helps = {q[i] : i \in 1 .. n}
Sized(n, f, m) == IsWidest(m, n, f) /\ \A i \in 1 .. n : f[i] \in Nat
Straight(n, f, m, q) ==
    \A i \in 1 .. n : /\ LabelEnd(q[i]) = 2 + f[i]
                      /\ Columns[q[i]] = 2 + f[i] + FillUp(f[i], Capped(m, Cap)) + 2

LEMMA HelpsAligned ==
  ASSUME NEW n \in Nat, NEW f, NEW m, Sized(n, f, m),
         NEW q, NEW helps, PlacesOf(helps, n, q), Straight(n, f, m, q)
  PROVE  Aligned(helps)
<1>1. /\ IsWidest(m, n, f) /\ helps = {q[i] : i \in 1 .. n}
      /\ \A i \in 1 .. n : f[i] \in Nat
      /\ \A i \in 1 .. n : /\ LabelEnd(q[i]) = 2 + f[i]
                            /\ Columns[q[i]] = 2 + f[i] + FillUp(f[i], Capped(m, Cap)) + 2
  BY Zenon DEF Sized, PlacesOf, Straight
<1> USE <1>1
<1>2. CASE n = 0
  <2>1. helps = {}
    BY <1>2
  <2> QED
    BY <2>1, Zenon DEF Aligned
<1>3. CASE n # 0
  <2>1. m \in Nat /\ Cap \in Nat
    BY HelpAssumption DEF IsWidest
  <2> DEFINE T == {LabelEnd(x) : x \in helps}
  <2>2. T = {2 + f[i] : i \in 1 .. n}
    OBVIOUS
  <2> HIDE DEF T
  <2>3. T \in SUBSET Nat /\ \A y \in T : y <= 2 + m
    BY <2>1, <2>2 DEF IsWidest
  <2>4. 2 + m \in T
    <3>1. PICK i \in 1 .. n : f[i] = m
      <4>1. 1 \in 1 .. n
        BY <1>3
      <4>2. CASE m = 0
        <5>1. f[1] <= 0 /\ f[1] \in Nat
          BY <4>1, <4>2 DEF IsWidest
        <5>2. f[1] = m
          BY <5>1, <4>2
        <5> QED
          BY <4>1, <5>2
      <4>3. CASE m # 0
        BY <4>3 DEF IsWidest
      <4> QED
        BY <4>2, <4>3
    <3> QED
      BY <3>1, <2>2
  <2>5. Widest(T) = 2 + m
    <3>1. PICK w \in Nat : w = 2 + m
      BY <2>1
    <3> QED
      BY <3>1, <2>3, <2>4, WidestIs
  <2>6. PICK w \in Nat : w = Capped(m, Cap)
    BY <2>1 DEF Capped
  <2>7. Capped(Widest(T), 2 + Cap) = 2 + w
    BY <2>1, <2>5, <2>6 DEF Capped
  <2>8. \A i \in 1 .. n : Columns[q[i]] = 2 + (IF LabelEnd(q[i]) > 2 + w THEN LabelEnd(q[i])
                                              ELSE 2 + w)
    BY <2>6 DEF FillUp
  <2>9. \A x \in helps : Columns[x] = 2 + (IF LabelEnd(x) > 2 + w THEN LabelEnd(x) ELSE 2 + w)
    BY <2>8
  <2> QED
    BY <2>7, <2>9, Zenon DEF Aligned, T
<1> QED
  BY <1>2, <1>3

LEMMA HelpsCounted ==
  ASSUME NEW n \in Nat, NEW q, \A i, j \in 1 .. n : q[i] = q[j] => i = j,
         NEW helps, PlacesOf(helps, n, q)
  PROVE  Cardinality(helps) = n
<1>1. PICK b : b = [i \in 1 .. n |-> q[i]]
  OBVIOUS
<1>2. b \in Bijection(1 .. n, helps)
  <2>1. b \in [1 .. n -> helps] /\ \A i, j \in 1 .. n : b[i] = b[j] => i = j
    BY <1>1 DEF PlacesOf
  <2>2. \A x \in helps : \E i \in 1 .. n : b[i] = x
    BY <1>1 DEF PlacesOf
  <2>3. b \in Injection(1 .. n, helps)
    BY <2>1, Zenon DEF Injection, IsInjective
  <2>4. b \in Surjection(1 .. n, helps)
    BY <2>1, <2>2, Zenon DEF Surjection
  <2> QED
    BY <2>3, <2>4 DEF Bijection
<1>3. ExistsBijection(1 .. n, helps)
  BY <1>2, Zenon DEF ExistsBijection
<1>4. IsFiniteSet(1 .. n) /\ Cardinality(1 .. n) = n
  BY FS_Interval
<1> QED
  BY <1>3, <1>4, FS_Bijection
LEMMA HelpColumns ==
  ASSUME NEW n \in Nat, NEW m \in Nat, NEW f, NEW w, NEW g, NEW v, NEW h, NEW u, NEW c, NEW p,
         HelpText(printed, n, m, f, w, g, v, h, u, c, p),
         NEW x, Sized(n, f, x), w = Wide(n, Capped(x, Cap)),
         NEW y, Sized(m, g, y), v = Wide(m, Capped(y, Cap))
  PROVE  /\ Cardinality(OptionHelps) = n /\ Cardinality(ArgumentHelps) = m
         /\ Aligned(OptionHelps) /\ Aligned(ArgumentHelps)
<1>1. PICK l \in Nat : Len(printed) = l /\ printed \in Seq(AllTexts) /\ DOMAIN printed = 1 .. l
  BY DEF HelpText, Lines
<1>2. /\ Together(n, f, w, m, g, v, h, u) /\ Lines(AllTexts, printed, n + m, h, u, c, p)
      /\ \A i \in 1 .. n + m : (\E k \in 1 .. p[i] : printed[k].role = Title) <=> i > n
  BY DEF HelpText
<1>3. /\ p \in [1 .. n + m -> 1 .. l]
      /\ \A i, j \in 1 .. n + m : p[i] = p[j] => i = j
      /\ \A k \in 1 .. l : printed[k].role = "help" <=> \E i \in 1 .. n + m : p[i] = k
      /\ \A i \in 1 .. n + m : HelpAt(printed, c, p[i], h[i], u[i])
      /\ Runs(printed, c, 0)
  BY <1>1, <1>2, Zenon DEF Lines
<1>4. ColumnsOf(c, l)
  BY <1>1, <1>3, ColumnsAre, Zenon
<1>5. ASSUME NEW i \in 1 .. n + m
      PROVE  /\ LabelEnd(p[i]) = 2 + h[i]
             /\ Columns[p[i]] = 2 + h[i] + FillUp(h[i], u[i]) + 2
  <2>1. p[i] \in 1 .. l /\ HelpAt(printed, c, p[i], h[i], u[i])
    BY <1>3
  <2>2. LabelEnd(p[i]) = 2 + h[i]
    BY <2>1, <1>1, <1>4, LabelEndIs, Zenon
  <2>3. c[p[i]] = 2 + h[i] + FillUp(h[i], u[i]) + 2
    BY <2>1 DEF HelpAt
  <2> QED
    BY <2>1, <2>2, <2>3, <1>4 DEF ColumnsOf
<1>6. \A i \in 1 .. n : i \in 1 .. n + m /\ ~(i > n)
  OBVIOUS
<1>7. \A i \in 1 .. m : n + i \in 1 .. n + m /\ n + i > n
  OBVIOUS
<1>8. \A i \in 1 .. n + m : i \in 1 .. n \/ \E j \in 1 .. m : i = n + j
  <2> TAKE i \in 1 .. n + m
  <2>1. i \in 1 .. n \/ (i - n \in 1 .. m /\ i = n + (i - n))
    OBVIOUS
  <2> QED
    BY <2>1
<1>9. PICK q : q = [i \in 1 .. m |-> p[n + i]]
  OBVIOUS
<1>10. PlacesOf(ArgumentHelps, m, q)
  <2>1. ASSUME NEW k \in ArgumentHelps
        PROVE  \E i \in 1 .. m : k = q[i]
    <3>1. k \in 1 .. l /\ printed[k].role = "help" /\ \E j \in 1 .. k : printed[j].role = Title
      BY <1>1 DEF ArgumentHelps, HelpPlaces, Title
    <3>2. PICK i \in 1 .. n + m : p[i] = k
      BY <3>1, <1>3
    <3>3. i > n
      BY <3>1, <3>2, <1>2
    <3>4. PICK j \in 1 .. m : i = n + j
      BY <3>3, <1>6, <1>8
    <3> QED
      BY <3>2, <3>4, <1>9
  <2>2. ASSUME NEW i \in 1 .. m
        PROVE  q[i] \in ArgumentHelps
    <3>1. PICK j \in 1 .. n + m : j = n + i /\ j > n
      BY <1>7
    <3>2. p[j] \in 1 .. l /\ printed[p[j]].role = "help"
      BY <1>3
    <3>3. \E k \in 1 .. p[j] : printed[k].role = Title
      BY <3>1, <1>2
    <3>4. p[j] \in ArgumentHelps
      BY <3>2, <3>3, <1>1 DEF ArgumentHelps, HelpPlaces, Title
    <3> QED
      BY <3>1, <3>4, <1>9
  <2> QED
    BY <2>1, <2>2 DEF PlacesOf
<1>11. PlacesOf(OptionHelps, n, p)
  <2>1. ASSUME NEW k \in OptionHelps
        PROVE  \E i \in 1 .. n : k = p[i]
    <3>1. /\ k \in 1 .. l /\ printed[k].role = "help"
          /\ ~ \E j \in 1 .. k : printed[j].role = Title
      BY <1>1 DEF OptionHelps, ArgumentHelps, HelpPlaces, Title
    <3>2. PICK i \in 1 .. n + m : p[i] = k
      BY <3>1, <1>3
    <3>3. ~(i > n)
      BY <3>1, <3>2, <1>2
    <3>4. i \in 1 .. n
      BY <3>3, <1>7, <1>8
    <3> QED
      BY <3>2, <3>4
  <2>2. ASSUME NEW i \in 1 .. n
        PROVE  p[i] \in OptionHelps
    <3>1. i \in 1 .. n + m /\ ~(i > n)
      BY <1>6
    <3>2. p[i] \in 1 .. l /\ printed[p[i]].role = "help"
      BY <3>1, <1>3
    <3>3. ~ \E k \in 1 .. p[i] : printed[k].role = Title
      BY <3>1, <1>2
    <3> QED
      BY <3>2, <3>3, <1>1 DEF OptionHelps, ArgumentHelps, HelpPlaces, Title
  <2> QED
    BY <2>1, <2>2 DEF PlacesOf
<1>12. /\ \A i \in 1 .. n : h[i] = f[i] /\ u[i] = w[i]
       /\ \A i \in 1 .. m : h[n + i] = g[i] /\ u[n + i] = v[i]
  BY <1>2 DEF Together
<1>13. Cardinality(OptionHelps) = n
  <2>1. \A i, j \in 1 .. n : p[i] = p[j] => i = j
    BY <1>3, <1>6
  <2> QED
    BY <2>1, <1>11, HelpsCounted, Zenon
<1>14. Cardinality(ArgumentHelps) = m
  <2>1. ASSUME NEW i \in 1 .. m, NEW j \in 1 .. m, q[i] = q[j]
        PROVE  i = j
    <3>1. p[n + i] = p[n + j]
      BY <2>1, <1>9
    <3>2. n + i = n + j
      BY <3>1, <1>3, <1>7
    <3> QED
      BY <3>2
  <2> QED
    BY <2>1, <1>10, HelpsCounted, Zenon
<1>15. Aligned(OptionHelps)
  <2>1. \A i \in 1 .. n : w[i] = Capped(x, Cap)
    BY DEF Wide
  <2>2. Straight(n, f, x, p)
    BY <2>1, <1>5, <1>6, <1>12 DEF Straight
  <2> QED
    BY <2>2, <1>11, HelpsAligned, Zenon
<1>16. Aligned(ArgumentHelps)
  <2>1. \A i \in 1 .. m : v[i] = Capped(y, Cap)
    BY DEF Wide
  <2>2. \A i \in 1 .. m : /\ LabelEnd(p[n + i]) = 2 + g[i]
                          /\ Columns[p[n + i]] = 2 + g[i] + FillUp(g[i], Capped(y, Cap)) + 2
    BY <2>1, <1>5, <1>7, <1>12
  <2>3. Straight(m, g, y, q)
    BY <2>2, <1>9 DEF Straight
  <2> QED
    BY <2>3, <1>10, HelpsAligned, Zenon
<1> QED
  BY <1>13, <1>14, <1>15, <1>16

\* A help that is complete is exact.
LEMMA CompleteHelp ==
  ASSUME NEW g, NEW n, NEW m, AParser(g, n, m), printed = TextSeq!FlattenSeq(HelpCalls(g))
  PROVE  /\ Cardinality(OptionHelps) = n + 1 /\ Cardinality(ArgumentHelps) = m
         /\ Aligned(OptionHelps) /\ Aligned(ArgumentHelps)
<1>1. PICK f, w, x, v : /\ f = OptionSizes(g, n) /\ w = Wide(n + 1, OptionWidth(g.options))
                        /\ x = ArgumentSizes(g, m)
                        /\ v = Wide(m, PositionalWidth(g.positionals))
  OBVIOUS
<1>2. PICK t, h, u, c, p : /\ Prints(AllTexts, HelpCalls(g), t)
                           /\ HelpText(t, n + 1, m, f, w, x, v, h, u, c, p)
  BY <1>1, HelpIs, Zenon
<1>3. HelpText(printed, n + 1, m, f, w, x, v, h, u, c, p)
  BY <1>2, Zenon DEF Prints
<1>4. PICK y : IsWidest(y, n + 1, f) /\ OptionWidth(g.options) = Capped(y, Cap)
  BY <1>1, OptionWidthIs, Zenon
<1>5. PICK z : IsWidest(z, m, x) /\ PositionalWidth(g.positionals) = Capped(z, Cap)
  BY <1>1, PositionalWidthIs, Zenon
<1>6. PICK l \in Nat : l = n + 1 /\ Sized(l, f, y)
  BY <1>1, <1>4, OptionSizesTyped DEF Sized
<1>7. m \in Nat /\ Sized(m, x, z)
  BY <1>1, <1>5 DEF AParser, APositional, ArgumentSizes, Sized
<1>8. HelpText(printed, l, m, f, w, x, v, h, u, c, p) /\ w = Wide(l, Capped(y, Cap))
  BY <1>1, <1>3, <1>4, <1>6, Zenon
<1>9. v = Wide(m, Capped(z, Cap))
  BY <1>1, <1>5, Zenon
<1> QED
  BY <1>6, <1>7, <1>8, <1>9, HelpColumns, Zenon
----------------------------------------------------------------------------
(* CliHelp: the line for an error.                                          *)

LEMMA RegisteredTyped ==
  /\ \A o \in Options : AnOption(o)
  /\ \A p \in Positionals : APositional(p)
BY HelpAssumption DEF AnOption, APositional

\* What an error is about has a text.
LEMMA ResultsNameTheirCause ==
  ASSUME NEW r \in ParseResults
  PROVE  /\ r.code \in {"UNKNOWN_OPTION", "MISSING_VALUE", "UNEXPECTED_VALUE"} => r.token = 2
         /\ r.code \in {"DUPLICATE_OPTION", "MISSING_REQUIRED_OPTION"} =>
               r.name \in Nat /\ (r.name # 0 \/ r.short)
         /\ r.code = "MISSING_POSITIONAL" => r.name \in Nat /\ r.name # 0
         /\ r.code = "INVALID_VALUE" => r.name \in Nat
         /\ r.code = "UNEXPECTED_POSITIONAL" => r.token \in {0, 1}
<1>1. CASE r.code \in {"UNKNOWN_OPTION", "MISSING_VALUE", "UNEXPECTED_VALUE"}
  <2>1. \/ r = Result("UNKNOWN_OPTION", 2, 0, FALSE)
        \/ \E code \in {"DUPLICATE_OPTION", "UNEXPECTED_VALUE", "MISSING_VALUE"}, o \in Options :
              r = OptionResult(code, 2, o)
    BY <1>1 DEF ParseResults, Result, OptionResult
  <2> QED
    BY <1>1, <2>1 DEF Result, OptionResult
<1>2. CASE r.code \in {"DUPLICATE_OPTION", "MISSING_REQUIRED_OPTION"}
  <2>1. PICK o \in Options : r.name = o.long /\ r.short = o.short
    BY <1>2 DEF ParseResults, Result, OptionResult
  <2> QED
    BY <1>2, <2>1, RegisteredTyped DEF AnOption
<1>3. CASE r.code = "MISSING_POSITIONAL"
  <2>1. PICK p \in Positionals : r.name = p.size
    BY <1>3 DEF ParseResults, Result, OptionResult
  <2> QED
    BY <1>3, <2>1, RegisteredTyped DEF APositional
<1>4. CASE r.code = "INVALID_VALUE"
  <2>1. \/ \E o \in Options : r.name = o.long
        \/ \E p \in Positionals : r.name = p.size
    BY <1>4 DEF ParseResults, Result, OptionResult
  <2> QED
    BY <1>4, <2>1, RegisteredTyped DEF AnOption, APositional
<1>5. CASE r.code = "UNEXPECTED_POSITIONAL"
  <2>1. \E size \in {0, 1} : r = Result("UNEXPECTED_POSITIONAL", size, 0, FALSE)
    BY <1>5 DEF ParseResults, Result, OptionResult
  <2> QED
    BY <1>5, <2>1 DEF Result
<1> QED
  BY <1>1, <1>2, <1>3, <1>4, <1>5

\* Three calls print their texts one behind the other.
LEMMA PrintsThree ==
  ASSUME NEW S, NEW u \in Seq(S), NEW v \in Seq(S), NEW w \in Seq(S)
  PROVE  Prints(S, <<u, v, w>>, (u \o v) \o w)
<1>1. PICK q \in Seq(Seq(S)) : /\ q = <<u, v, w>> /\ Len(q) = 3
                               /\ q[1] = u /\ q[2] = v /\ q[3] = w
  <2> DEFINE Q == <<u, v, w>>
  <2>1. PICK W : W = Seq(S)
    OBVIOUS
  <2>2. u \in W /\ v \in W /\ w \in W
    BY <2>1
  <2>3. Q \in Seq(W) /\ Len(Q) = 3 /\ Q[1] = u /\ Q[2] = v /\ Q[3] = w
    BY <2>2
  <2> HIDE DEF Q
  <2>4. \E q \in Seq(W) : q = Q /\ Len(q) = 3 /\ q[1] = u /\ q[2] = v /\ q[3] = w
    BY <2>3
  <2> QED
    BY <2>1, <2>4, Zenon DEF Q
<1>2. PICK J : Joins(S, 3, q, J) /\ Prints(S, q, J[3])
  BY <1>1, CallsJoin
<1>3. /\ 1 \in 1 .. 3 /\ 2 \in 1 .. 3 /\ 3 \in 1 .. 3
      /\ 1 - 1 = 0 /\ 2 - 1 = 1 /\ 3 - 1 = 2
  OBVIOUS
<1>4. /\ J[0] = << >> /\ J[1] = J[1 - 1] \o q[1] /\ J[2] = J[2 - 1] \o q[2]
      /\ J[3] = J[3 - 1] \o q[3]
  BY <1>2, <1>3, Zenon DEF Joins
<1>5. << >> \o u = u
  BY ConcatEmptySeq
<1>6. J[3] = (u \o v) \o w
  BY <1>1, <1>3, <1>4, <1>5, Zenon
<1> QED
  BY <1>1, <1>2, <1>6, Zenon

\* The text x is there.
Shows(t, x) == \E n \in DOMAIN t : t[n] = x

LEMMA ShowsBehind ==
  ASSUME NEW S, NEW a \in Seq(S), NEW b \in Seq(S), NEW x, Shows(a, x) \/ Shows(b, x)
  PROVE  Shows(a \o b, x)
<1>1. PICK t : t = a \o b /\ t \in Seq(S) /\ Behind(t, a, b)
  BY Concatenated, Zenon
<1>2. PICK la \in Nat, lb \in Nat : la = Len(a) /\ lb = Len(b)
  OBVIOUS
<1>3. Len(t) = la + lb
  BY <1>1, <1>2 DEF Behind
<1>4. CASE Shows(a, x)
  <2>1. PICK n \in 1 .. la : a[n] = x
    BY <1>2, <1>4 DEF Shows
  <2>2. n \in 1 .. la + lb /\ t[n] = x
    BY <2>1, <1>1, <1>2 DEF Behind
  <2>3. n \in DOMAIN t
    BY <2>2, <1>1, <1>3
  <2> QED
    BY <2>2, <2>3, <1>1 DEF Shows
<1>5. CASE Shows(b, x)
  <2>1. PICK n \in 1 .. lb : b[n] = x
    BY <1>2, <1>5 DEF Shows
  <2>2. la + n \in 1 .. la + lb /\ t[la + n] = x
    BY <2>1, <1>1, <1>2 DEF Behind
  <2>3. la + n \in DOMAIN t
    BY <2>2, <1>1, <1>3
  <2> QED
    BY <2>2, <2>3, <1>1 DEF Shows
<1> QED
  BY <1>4, <1>5

LEMMA OneShows ==
  ASSUME NEW S, NEW x \in S
  PROVE  <<x>> \in Seq(S) /\ Shows(<<x>>, x)
<1>1. PICK q \in Seq(S) : q = <<x>> /\ Len(q) = 1 /\ q[1] = x
  BY OneElement
<1>2. 1 \in DOMAIN q
  BY <1>1
<1> QED
  BY <1>1, <1>2, Zenon DEF Shows

\* The two forms of an error line that has a text x of its cause.
LEMMA ThreeCallsShow ==
  ASSUME NEW S, NEW a \in S, NEW b \in S, NEW x \in S, NEW l \in S
  PROVE  \E t : /\ Prints(S, << <<a>> >> \o << <<b>>, <<x>>, <<l>> >>, t)
                /\ Shows(t, x)
<1>1. PICK y, u, v, w : /\ y = <<a>> /\ u = <<b>> /\ v = <<x>> /\ w = <<l>>
                        /\ y \in Seq(S) /\ u \in Seq(S) /\ v \in Seq(S) /\ w \in Seq(S)
                        /\ Shows(v, x)
  BY OneShows
<1>2. PICK z \in Seq(S) : z = u \o v /\ Shows(z, x)
  <2>1. u \o v \in Seq(S)
    BY <1>1, ConcatProperties
  <2> QED
    BY <2>1, <1>1, ShowsBehind, Zenon
<1>3. PICK q \in Seq(S) : q = z \o w /\ Shows(q, x)
  <2>1. z \o w \in Seq(S)
    BY <1>1, ConcatProperties
  <2> QED
    BY <2>1, <1>1, <1>2, ShowsBehind, Zenon
<1>4. Shows(y \o q, x)
  BY <1>1, <1>3, ShowsBehind, Zenon
<1>5. Prints(S, <<y>>, y)
  BY <1>1, PrintsOne, Zenon
<1>6. Prints(S, <<u, v, w>>, q)
  BY <1>1, <1>2, <1>3, PrintsThree, Zenon
<1>7. Prints(S, <<y>> \o <<u, v, w>>, y \o q)
  BY <1>5, <1>6, PrintsBoth, Zenon
<1> QED
  BY <1>1, <1>4, <1>7, Zenon

LEMMA OneCallShows ==
  ASSUME NEW S, NEW a \in S, NEW b \in S, NEW x \in S, NEW l \in S
  PROVE  \E t : /\ Prints(S, << <<a>> >> \o << <<b, x, l>> >>, t)
                /\ Shows(t, x)
<1>1. PICK y : y = <<a>> /\ y \in Seq(S)
  BY OneShows
<1>2. PICK q \in Seq(S) : q = <<b, x, l>> /\ Shows(q, x)
  <2> DEFINE Q == <<b, x, l>>
  <2>1. Q \in Seq(S) /\ 2 \in DOMAIN Q /\ Q[2] = x
    OBVIOUS
  <2> HIDE DEF Q
  <2>2. Shows(Q, x)
    BY <2>1 DEF Shows
  <2> QED
    BY <2>1, <2>2, Zenon DEF Q
<1>3. Shows(y \o q, x)
  BY <1>1, <1>2, ShowsBehind, Zenon
<1>4. Prints(S, <<y>>, y) /\ Prints(S, <<q>>, q)
  BY <1>1, PrintsOne, Zenon
<1>5. Prints(S, <<y>> \o <<q>>, y \o q)
  BY <1>4, PrintsBoth, Zenon
<1> QED
  BY <1>1, <1>2, <1>3, <1>5, Zenon

LEMMA FiveCallsShow ==
  ASSUME NEW S, NEW a \in S, NEW b \in S, NEW y \in S, NEW c \in S, NEW x \in S, NEW l \in S
  PROVE  \E t : /\ Prints(S, << <<a>> >> \o ((<< <<b>>, <<y>>, <<c>> >> \o << <<x>> >>)
                                             \o << <<l>> >>), t)
                /\ Shows(t, x)
<1>1. PICK f, u, v, w, z, e : /\ f = <<a>> /\ u = <<b>> /\ v = <<y>> /\ w = <<c>>
                              /\ z = <<x>> /\ e = <<l>>
                              /\ f \in Seq(S) /\ u \in Seq(S) /\ v \in Seq(S)
                              /\ w \in Seq(S) /\ z \in Seq(S) /\ e \in Seq(S)
                              /\ Shows(z, x)
  BY OneShows
<1>2. PICK g \in Seq(S) : g = (u \o v) \o w
  BY <1>1, ConcatProperties
<1>3. PICK h \in Seq(S) : h = g \o z /\ Shows(h, x)
  <2>1. g \o z \in Seq(S)
    BY <1>1, ConcatProperties
  <2> QED
    BY <2>1, <1>1, ShowsBehind, Zenon
<1>4. PICK k \in Seq(S) : k = h \o e /\ Shows(k, x)
  <2>1. h \o e \in Seq(S)
    BY <1>1, ConcatProperties
  <2> QED
    BY <2>1, <1>1, <1>3, ShowsBehind, Zenon
<1>5. Shows(f \o k, x)
  BY <1>1, <1>4, ShowsBehind, Zenon
<1>6. Prints(S, <<f>>, f) /\ Prints(S, <<z>>, z) /\ Prints(S, <<e>>, e)
  BY <1>1, PrintsOne, Zenon
<1>7. Prints(S, <<u, v, w>>, g)
  BY <1>1, <1>2, PrintsThree, Zenon
<1>8. Prints(S, <<u, v, w>> \o <<z>>, h)
  BY <1>3, <1>6, <1>7, PrintsBoth, Zenon
<1>9. Prints(S, (<<u, v, w>> \o <<z>>) \o <<e>>, k)
  BY <1>4, <1>6, <1>8, PrintsBoth, Zenon
<1>10. Prints(S, <<f>> \o ((<<u, v, w>> \o <<z>>) \o <<e>>), f \o k)
  BY <1>6, <1>9, PrintsBoth, Zenon
<1> QED
  BY <1>1, <1>5, <1>10, Zenon

\* The codes whose lines can tell the cause, and the results with such a line.
CauseCodes == {"UNKNOWN_OPTION", "MISSING_VALUE", "UNEXPECTED_VALUE", "UNEXPECTED_POSITIONAL",
               "INVALID_VALUE", "DUPLICATE_OPTION", "MISSING_REQUIRED_OPTION",
               "MISSING_POSITIONAL"}
HasCause(r) == r \in ParseResults /\ r.code \in CauseCodes /\ TellsCause(r)

\* A text for the cause of an error.
ACause(r, x) == x.role \in CauseRoles(r) /\ x.size > 0

\* The forms of a line that has the text x of its cause.
ThreeCalls(r, x) ==
    << <<Text("error: ", 7)>> >> \o << <<Text(r.code, 0)>>, <<x>>, <<LineBreak>> >>
OneCall(r, x) ==
    << <<Text("error: ", 7)>> >> \o << <<Text(r.code, 0), x, LineBreak>> >>
FiveCalls(r, x) ==
    << <<Text("error: ", 7)>> >>
    \o ((<< <<Text(r.code, 0)>>, <<Text("token", r.token)>>, <<Text("'", 1)>> >> \o << <<x>> >>)
        \o << <<LineBreak>> >>)

LEMMA TokensTell ==
  ASSUME NEW r, HasCause(r),
         r.code \in {"UNKNOWN_OPTION", "MISSING_VALUE", "UNEXPECTED_VALUE",
                     "UNEXPECTED_POSITIONAL"}
  PROVE  \E x : ACause(r, x) /\ ErrorCalls(r) = ThreeCalls(r, x)
<1>1. PICK x : x = Text("token", r.token)
  OBVIOUS
<1>2. r.token \in {1, 2}
  <2>1. CASE r.code = "UNEXPECTED_POSITIONAL"
    BY <2>1, ResultsNameTheirCause DEF HasCause, TellsCause
  <2>2. CASE r.code # "UNEXPECTED_POSITIONAL"
    BY <2>2, ResultsNameTheirCause DEF HasCause
  <2> QED
    BY <2>1, <2>2
<1>3. "token" \in CauseRoles(r)
  BY DEF CauseRoles
<1>4. ACause(r, x)
  BY <1>1, <1>2, <1>3 DEF ACause, Text
<1>5. ErrorCalls(r) = ThreeCalls(r, x)
  BY <1>1 DEF ErrorCalls, ResultToken, ThreeCalls
<1> QED
  BY <1>4, <1>5

LEMMA OptionsTell ==
  ASSUME NEW r, HasCause(r), r.code \in {"DUPLICATE_OPTION", "MISSING_REQUIRED_OPTION"}
  PROVE  \E x : ACause(r, x) /\ ErrorCalls(r) = ThreeCalls(r, x)
<1>1. r.name \in Nat /\ (r.name # 0 \/ r.short)
  BY ResultsNameTheirCause DEF HasCause
<1>2. "--name" \in CauseRoles(r) /\ "-c" \in CauseRoles(r)
  BY DEF CauseRoles
<1>3. PICK x : ACause(r, x) /\ OptionName(r) = <<x>>
  <2>1. CASE r.name # 0
    <3>1. OptionName(r) = <<Text("--name", 2 + r.name)>>
      BY <2>1 DEF OptionName
    <3>2. ACause(r, Text("--name", 2 + r.name))
      BY <1>1, <1>2 DEF ACause, Text
    <3> QED
      BY <3>1, <3>2
  <2>2. CASE r.name = 0
    <3>1. OptionName(r) = <<Text("-c", 2)>>
      BY <1>1, <2>2 DEF OptionName
    <3>2. ACause(r, Text("-c", 2))
      BY <1>2 DEF ACause, Text
    <3> QED
      BY <3>1, <3>2
  <2> QED
    BY <2>1, <2>2
<1>4. ErrorCalls(r) = << <<Text("error: ", 7)>> >>
                      \o << <<Text(r.code, 0)>>, OptionName(r), <<LineBreak>> >>
  BY DEF ErrorCalls
<1> QED
  BY <1>3, <1>4, Zenon DEF ThreeCalls

LEMMA PositionalsTell ==
  ASSUME NEW r, HasCause(r), r.code = "MISSING_POSITIONAL"
  PROVE  \E x : ACause(r, x) /\ ErrorCalls(r) = OneCall(r, x)
<1>1. PICK x : x = Text("name", r.name)
  OBVIOUS
<1>2. "name" \in CauseRoles(r)
  BY DEF CauseRoles
<1>3. ACause(r, x)
  BY <1>1, <1>2, ResultsNameTheirCause DEF HasCause, ACause, Text
<1>4. ErrorCalls(r) = OneCall(r, x)
  BY <1>1 DEF ErrorCalls, OneCall
<1> QED
  BY <1>3, <1>4

LEMMA ValuesTell ==
  ASSUME NEW r, HasCause(r), r.code = "INVALID_VALUE"
  PROVE  \E x : ACause(r, x) /\ ErrorCalls(r) = FiveCalls(r, x)
<1>1. PICK x : x = Text("name", r.name)
  OBVIOUS
<1>2. r.name \in Nat /\ r.name # 0
  BY ResultsNameTheirCause DEF HasCause, TellsCause
<1>3. "name" \in CauseRoles(r)
  BY DEF CauseRoles
<1>4. ACause(r, x)
  BY <1>1, <1>2, <1>3 DEF ACause, Text
<1>5. When(r.name # 0, Text("name", r.name)) = << <<x>> >>
  BY <1>1, <1>2 DEF When
<1>6. ErrorCalls(r) =
        << <<Text("error: ", 7)>> >>
        \o ((<< <<Text(r.code, 0)>>, ResultToken(r), <<Text("'", 1)>> >>
             \o When(r.name # 0, Text("name", r.name))) \o << <<LineBreak>> >>)
  BY DEF ErrorCalls
<1>7. ErrorCalls(r) = FiveCalls(r, x)
  BY <1>5, <1>6, Zenon DEF FiveCalls, ResultToken
<1> QED
  BY <1>4, <1>7

LEMMA CauseIs ==
  ASSUME NEW r, HasCause(r)
  PROVE  \E x : /\ ACause(r, x)
                /\ \/ ErrorCalls(r) = ThreeCalls(r, x)
                   \/ ErrorCalls(r) = OneCall(r, x)
                   \/ ErrorCalls(r) = FiveCalls(r, x)
<1>1. r.code \in CauseCodes
  BY DEF HasCause
<1> QED
  BY <1>1, TokensTell, OptionsTell, PositionalsTell, ValuesTell DEF CauseCodes

LEMMA FormsShow ==
  ASSUME NEW r, NEW x
  PROVE  /\ \E S, t : Prints(S, ThreeCalls(r, x), t) /\ Shows(t, x)
         /\ \E S, t : Prints(S, OneCall(r, x), t) /\ Shows(t, x)
         /\ \E S, t : Prints(S, FiveCalls(r, x), t) /\ Shows(t, x)
<1>1. PICK S, a, b, y, c, l :
         /\ a = Text("error: ", 7) /\ b = Text(r.code, 0) /\ y = Text("token", r.token)
         /\ c = Text("'", 1) /\ l = LineBreak
         /\ a \in S /\ b \in S /\ y \in S /\ c \in S /\ x \in S /\ l \in S
  <2>1. PICK a, b, y, c, l :
           /\ a = Text("error: ", 7) /\ b = Text(r.code, 0) /\ y = Text("token", r.token)
           /\ c = Text("'", 1) /\ l = LineBreak
    OBVIOUS
  <2>2. PICK S : a \in S /\ b \in S /\ y \in S /\ c \in S /\ x \in S /\ l \in S
    <3> DEFINE T == {a, b, y, c, x, l}
    <3>1. a \in T /\ b \in T /\ y \in T /\ c \in T /\ x \in T /\ l \in T
      OBVIOUS
    <3> QED
      BY <3>1, Zenon
  <2> QED
    BY <2>1, <2>2, Zenon
<1>2. \E t : Prints(S, << <<a>> >> \o << <<b>>, <<x>>, <<l>> >>, t) /\ Shows(t, x)
  BY <1>1, ThreeCallsShow
<1>3. \E t : Prints(S, << <<a>> >> \o << <<b, x, l>> >>, t) /\ Shows(t, x)
  BY <1>1, OneCallShows
<1>4. \E t : /\ Prints(S, << <<a>> >> \o ((<< <<b>>, <<y>>, <<c>> >> \o << <<x>> >>)
                                          \o << <<l>> >>), t)
             /\ Shows(t, x)
  BY <1>1, FiveCallsShow
<1> QED
  BY <1>1, <1>2, <1>3, <1>4, Zenon DEF ThreeCalls, OneCall, FiveCalls

LEMMA ErrorShowsCause ==
  ASSUME NEW r, HasCause(r)
  PROVE  \E S, t, x : Prints(S, ErrorCalls(r), t) /\ Shows(t, x) /\ ACause(r, x)
<1>1. PICK x : /\ ACause(r, x)
               /\ \/ ErrorCalls(r) = ThreeCalls(r, x)
                  \/ ErrorCalls(r) = OneCall(r, x)
                  \/ ErrorCalls(r) = FiveCalls(r, x)
  BY CauseIs
<1>2. CASE ErrorCalls(r) = ThreeCalls(r, x)
  <2>1. PICK S, t : Prints(S, ThreeCalls(r, x), t) /\ Shows(t, x)
    BY FormsShow, Zenon
  <2> QED
    BY <2>1, <1>1, <1>2, Zenon
<1>3. CASE ErrorCalls(r) = OneCall(r, x)
  <2>1. PICK S, t : Prints(S, OneCall(r, x), t) /\ Shows(t, x)
    BY FormsShow, Zenon
  <2> QED
    BY <2>1, <1>1, <1>3, Zenon
<1>4. CASE ErrorCalls(r) = FiveCalls(r, x)
  <2>1. PICK S, t : Prints(S, FiveCalls(r, x), t) /\ Shows(t, x)
    BY FormsShow, Zenon
  <2> QED
    BY <2>1, <1>1, <1>4, Zenon
<1> QED
  BY <1>1, <1>2, <1>3, <1>4

----------------------------------------------------------------------------
(* CliHelp: the calls.                                                      *)

\* What a call that has returned 1 has written.
HelpInv ==
    \/ call = "none" /\ returned = 0
    \/ /\ call = "help" /\ \E n, m : AParser(given, n, m)
       /\ returned = 1 => printed = TextSeq!FlattenSeq(HelpCalls(given))
    \/ /\ call = "error" /\ given \in ParseResults
       /\ returned = 1 => given.code \notin {"OK", "HELP_REQUESTED"}
       /\ returned = 1 /\ HasCause(given) =>
             printed = TextSeq!FlattenSeq(ErrorCalls(given))

LEMMA AllCallsSucceed ==
  ASSUME NEW S, NEW puts \in Seq(S), Calls(puts), returned' = 1
  PROVE  printed' = TextSeq!FlattenSeq(puts)
<1>1. PICK n \in 0 .. Len(puts) : /\ printed' = TextSeq!FlattenSeq(SubSeq(puts, 1, n))
                                   /\ returned' = IF n = Len(puts) THEN 1 ELSE 0
  BY DEF Calls
<1>2. n = Len(puts)
  BY <1>1
<1>3. SubSeq(puts, 1, n) = puts
  BY <1>2
<1> QED
  BY <1>1, <1>3, Zenon

LEMMA GivenTyped ==
  ASSUME NEW options \in UNION {[1 .. n -> Options] : n \in 0 .. MaxLines},
         NEW positionals \in Orders, NEW described, NEW g,
         g = [options |-> options, positionals |-> positionals, description |-> described]
  PROVE  \E n, m : AParser(g, n, m)
<1>1. MaxLines \in Nat
  BY HelpAssumption
<1>2. PICK n \in 0 .. MaxLines : options \in [1 .. n -> Options]
  OBVIOUS
<1>3. PICK m \in 0 .. MaxLines : positionals \in [1 .. m -> Positionals]
  BY DEF Orders
<1>4. n \in Nat /\ m \in Nat
  BY <1>1, <1>2, <1>3
<1>5. options \in Seq(Options) /\ Len(options) = n /\ DOMAIN options = 1 .. n
  BY <1>2, <1>4
<1>6. positionals \in Seq(Positionals) /\ Len(positionals) = m /\ DOMAIN positionals = 1 .. m
  BY <1>3, <1>4
<1>7. positionals = << >> <=> m = 0
  BY <1>6, EmptySeq
<1>8. /\ \A k \in 1 .. n : AnOption(options[k])
      /\ \A k \in 1 .. m : APositional(positionals[k])
  BY <1>2, <1>3, RegisteredTyped
<1>9. g.options = options /\ g.positionals = positionals
  OBVIOUS
<1>10. AParser(g, n, m)
  BY <1>4, <1>5, <1>6, <1>7, <1>8, <1>9 DEF AParser
<1> QED
  BY <1>10

LEMMA HelpPrints ==
  ASSUME FprintHelp
  PROVE  HelpInv'
<1>1. PICK options \in UNION {[1 .. n -> Options] : n \in 0 .. MaxLines},
           positionals \in Orders, described \in BOOLEAN :
         given' = [options |-> options, positionals |-> positionals, description |-> described]
  BY DEF FprintHelp
<1>2. PICK n, m : AParser(given', n, m)
  BY <1>1, GivenTyped
<1>3. HelpCalls(given') \in Seq(Seq(AllTexts))
  BY <1>2, HelpIs, Zenon DEF Prints
<1>4. Calls(HelpCalls(given')) /\ call' = "help"
  BY DEF FprintHelp
<1>5. returned' = 1 => printed' = TextSeq!FlattenSeq(HelpCalls(given'))
  BY <1>3, <1>4, AllCallsSucceed, Zenon
<1> QED
  BY <1>2, <1>4, <1>5, Zenon DEF HelpInv

LEMMA ErrorPrints ==
  ASSUME FprintError
  PROVE  HelpInv'
<1>1. PICK r \in ParseResults :
         /\ given' = r
         /\ IF r.code \in {"OK", "HELP_REQUESTED"} THEN printed' = << >> /\ returned' = 0
            ELSE Calls(ErrorCalls(r))
  BY DEF FprintError
<1>2. call' = "error"
  BY DEF FprintError
<1>3. returned' = 1 => r.code \notin {"OK", "HELP_REQUESTED"}
  BY <1>1
<1>4. ASSUME returned' = 1, HasCause(r)
      PROVE  printed' = TextSeq!FlattenSeq(ErrorCalls(r))
  <2>1. PICK S, t, x : Prints(S, ErrorCalls(r), t) /\ Shows(t, x) /\ ACause(r, x)
    BY <1>4, ErrorShowsCause, Zenon
  <2>2. ErrorCalls(r) \in Seq(Seq(S))
    BY <2>1, Zenon DEF Prints
  <2> QED
    BY <2>2, <1>1, <1>3, <1>4, AllCallsSucceed, Zenon
<1>5. HasCause(given)' => HasCause(r)
  BY <1>1 DEF HasCause, TellsCause
<1> QED
  BY <1>1, <1>2, <1>3, <1>4, <1>5, Zenon DEF HelpInv

LEMMA HelpIsInductive == HelpSpec => []HelpInv
<1>1. HelpInit => HelpInv
  BY DEF HelpInit, HelpInv
<1>2. HelpInv /\ [HelpNext]_helpVars => HelpInv'
  <2> SUFFICES ASSUME HelpInv, [HelpNext]_helpVars
               PROVE  HelpInv'
    OBVIOUS
  <2>1. CASE FprintHelp
    BY <2>1, HelpPrints
  <2>2. CASE FprintError
    BY <2>2, ErrorPrints
  <2>3. CASE UNCHANGED helpVars
    BY <2>3, Zenon DEF HelpInv, helpVars
  <2> QED
    BY <2>1, <2>2, <2>3 DEF HelpNext
<1> QED
  BY <1>1, <1>2, PTL DEF HelpSpec

LEMMA CodesOfResults ==
  ASSUME NEW r \in ParseResults, r.code \notin {"OK", "HELP_REQUESTED"}, TellsCause(r)
  PROVE  r.code \in CauseCodes
<1>1. r.code \in {"OK", "INVALID_STATE", "HELP_REQUESTED", "OUT_OF_MEMORY"} \cup CauseCodes
  BY DEF ParseResults, Result, OptionResult, CauseCodes
<1> QED
  BY <1>1 DEF TellsCause

LEMMA HelpInvExact ==
  ASSUME HelpInv
  PROVE  HelpExact
<1> SUFFICES ASSUME returned = 1
             PROVE  HelpExact
  BY DEF HelpExact
<1>1. CASE call = "help"
  <2>1. PICK n, m : AParser(given, n, m)
    BY <1>1 DEF HelpInv
  <2>2. printed = TextSeq!FlattenSeq(HelpCalls(given))
    BY <1>1 DEF HelpInv
  <2>3. Len(given.options) = n /\ Len(given.positionals) = m
    BY <2>1 DEF AParser
  <2>4. /\ Cardinality(OptionHelps) = n + 1 /\ Cardinality(ArgumentHelps) = m
        /\ Aligned(OptionHelps) /\ Aligned(ArgumentHelps)
    BY <2>1, <2>2, CompleteHelp, Zenon
  <2> QED
    BY <2>3, <2>4, <1>1, Zenon DEF HelpExact
<1>2. CASE call # "help"
  <2>1. given \in ParseResults
    BY <1>2 DEF HelpInv
  <2>2. ASSUME HasCause(given)
        PROVE  \E n \in DOMAIN printed :
                   printed[n].role \in CauseRoles(given) /\ printed[n].size > 0
    <3>1. PICK S, t, x : Prints(S, ErrorCalls(given), t) /\ Shows(t, x) /\ ACause(given, x)
      BY <2>2, ErrorShowsCause, Zenon
    <3>2. printed = TextSeq!FlattenSeq(ErrorCalls(given))
      BY <1>2, <2>2 DEF HelpInv
    <3>3. printed = t
      BY <3>1, <3>2, Zenon DEF Prints
    <3> QED
      BY <3>1, <3>3, Zenon DEF Shows, ACause
  <2>3. given.code \notin {"OK", "HELP_REQUESTED"}
    BY <1>2 DEF HelpInv
  <2>4. TellsCause(given) => HasCause(given)
    BY <2>1, <2>3, CodesOfResults, Zenon DEF HasCause
  <2> QED
    BY <2>2, <2>4, <1>2, Zenon DEF HelpExact
<1> QED
  BY <1>1, <1>2

\* A help that lor_cli_fprint_help reports as written has a line for every option, for -h and
\* for every positional, and the helps of each section begin in one column, two blanks behind
\* the widest label that is not too wide. A line that lor_cli_fprint_error reports as written,
\* for an error of TellsCause, shows the option or the argument it is about; an out of memory,
\* an invalid state, an invalid value of an option with only a short name and an empty
\* unexpected positional are not such errors. It holds for any registered options and
\* positionals, lengths of names and widest column.
THEOREM HelpIsExact == HelpSpec => []HelpExact
<1>1. HelpInv => HelpExact
  BY HelpInvExact
<1> QED
  BY <1>1, HelpIsInductive, PTL
=============================================================================

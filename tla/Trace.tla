------------------------------- MODULE Trace -------------------------------
(***************************************************************************)
(* The tracer of src/trace.c: recorders (LorTraceThread), each owned by    *)
(* one operating-system thread, put begin, end, instant and counter        *)
(* records into a private buffer of Capacity bytes and write it to the one *)
(* output file under a spinlock.  A recorder never blocks on another one   *)
(* outside that lock, so one call is one action, except that finishing a   *)
(* recorder takes the lock twice and other recorders run in between.  Any  *)
(* write to the file may fail.                                             *)
(*                                                                         *)
(* Bytes are counted, not stored: a record takes Header bytes and those of *)
(* its name.  A record carries the number of the zone it begins or ends, a *)
(* number the program does not have: an end in the file only closes the    *)
(* innermost zone a viewer sees open.                                      *)
(***************************************************************************)
EXTENDS Integers, Sequences, FiniteSets

CONSTANTS
    Recorders,   \* LorTraceThread objects
    BufferMode,  \* config.buffer_mode: "flush" or "drop"
    Capacity,    \* config.buffer_size
    Header,      \* sizeof(LorTraceRecordHeader)
    NameSizes,   \* lengths of event names
    MaxCalls,    \* bound: events one recorder is asked to record
    MaxIds       \* bound: recorders initialized in one trace

ASSUME TraceAssumption ==
    /\ IsFiniteSet(Recorders)
    /\ BufferMode \in {"flush", "drop"}
    /\ Capacity \in Nat
    /\ Header \in Nat \ {0}
    /\ NameSizes \subseteq Nat
    /\ MaxCalls \in Nat /\ MaxIds \in Nat

VARIABLES
    phase,       \* trace->impl: not opened yet, open, or finished
    failed,      \* LorTraceImpl.failed
    active,      \* LorTraceImpl.active_threads
    nextId,      \* LorTraceImpl.next_thread_id
    output,      \* the file: the records of each thread id, in file order
    finished,    \* what lor_trace_finish returned last
    state,       \* where each recorder is in its life
    id,          \* LorTraceThreadImpl.thread_id
    buffer,      \* the records in LorTraceThreadImpl.buffer
    used, depth, suppressed, reserved, recorded, dropped,
    result,      \* what lor_trace_thread_finish returned last
    zones,       \* history: the zones the caller has open, outermost first
    calls,       \* history: events the caller asked this recorder to record
    kept         \* history: events recorded under each thread id

traceVars == <<phase, failed, active, nextId, output, finished>>
counters == <<depth, suppressed, reserved>>
bufferVars == <<buffer, used, recorded, kept, output, failed>>
vars == <<phase, failed, active, nextId, output, finished, state, id, buffer, used,
          depth, suppressed, reserved, recorded, dropped, result, zones, calls, kept>>

Ids == 1 .. MaxIds
\* "closing" and "leaving": inside lor_trace_thread_finish, while it closes
\* zones, and between its two critical sections.
States == {"unused", "live", "closing", "leaving"}
Kinds == {"begin", "end", "instant"}
Records == [kind : Kinds, zone : Nat]
Zones == [zone : Nat, kept : BOOLEAN]

EndSize == Header
----------------------------------------------------------------------------
(* Folds over records.                                                      *)

\* What one more record does to the zones a viewer sees open: a begin opens one,
\* an end closes the innermost one, whatever zone it was meant for.  The zone -1
\* marks an end that closes the wrong zone or none.
Seen(open, r) ==
    CASE r.kind = "begin" -> Append(open, r.zone)
      [] r.kind = "end" ->
           IF open # << >> /\ open[Len(open)] = r.zone
           THEN SubSeq(open, 1, Len(open) - 1)
           ELSE Append(open, -1)
      [] OTHER -> open

\* The zones a viewer has open after the records of one thread.
OpenAfter(records) ==
    LET View[n \in 0 .. Len(records)] ==
          IF n = 0 THEN << >> ELSE Seen(View[n - 1], records[n])
    IN View[Len(records)]

----------------------------------------------------------------------------
(* The process trace.                                                       *)

Init ==
    /\ phase = "none" /\ failed = FALSE /\ active = 0 /\ nextId = 1
    /\ output = [i \in Ids |-> << >>]
    /\ finished = "none"
    /\ state = [r \in Recorders |-> "unused"]
    /\ id = [r \in Recorders |-> 0]
    /\ buffer = [r \in Recorders |-> << >>]
    /\ used = [r \in Recorders |-> 0]
    /\ depth = [r \in Recorders |-> 0]
    /\ suppressed = [r \in Recorders |-> 0]
    /\ reserved = [r \in Recorders |-> 0]
    /\ recorded = [r \in Recorders |-> 0]
    /\ dropped = [r \in Recorders |-> 0]
    /\ result = [r \in Recorders |-> "none"]
    /\ zones = [r \in Recorders |-> << >>]
    /\ calls = [r \in Recorders |-> 0]
    /\ kept = [i \in Ids |-> 0]

recorderVars == <<state, id, buffer, used, depth, suppressed, reserved, recorded,
                  dropped, result, zones, calls, kept>>

\* lor_trace_init_file; a failure leaves the trace unopened.
InitFile ==
    /\ phase = "none"
    /\ phase' = "open"
    /\ UNCHANGED <<failed, active, nextId, output, finished, recorderVars>>

\* lor_trace_finish refuses while recorders are attached; otherwise it writes
\* the end of the array and closes the file, which may fail.
FinishRefused ==
    /\ phase = "open"
    /\ active # 0
    /\ finished' = "INVALID_ARGUMENT"
    /\ UNCHANGED <<phase, failed, active, nextId, output, recorderVars>>

\* Mutant: an earlier failure is not reported.
FinishIgnoresFailed ==
    /\ phase = "open"
    /\ active = 0
    /\ phase' = "done"
    /\ finished' \in {"OK", "SYSTEM_ERROR"}
    /\ UNCHANGED <<failed, active, nextId, output, recorderVars>>

Finish ==
    /\ phase = "open"
    /\ active = 0
    /\ phase' = "done"
    /\ finished' \in IF failed THEN {"SYSTEM_ERROR"} ELSE {"OK", "SYSTEM_ERROR"}
    /\ UNCHANGED <<failed, active, nextId, output, recorderVars>>

----------------------------------------------------------------------------
(* Attaching a recorder: lor_trace_thread_init.                             *)

\* impl->thread_id = trace_impl->next_thread_id++.
TakesId == nextId' = nextId + 1

ThreadInit(r) ==
    /\ phase = "open" /\ ~failed
    /\ state[r] = "unused"
    /\ nextId \in Ids
    /\ state' = [state EXCEPT ![r] = "live"]
    /\ id' = [id EXCEPT ![r] = nextId]
    /\ TakesId
    /\ active' = active + 1
    /\ buffer' = [buffer EXCEPT ![r] = << >>]
    /\ used' = [used EXCEPT ![r] = 0]
    /\ depth' = [depth EXCEPT ![r] = 0]
    /\ suppressed' = [suppressed EXCEPT ![r] = 0]
    /\ reserved' = [reserved EXCEPT ![r] = 0]
    /\ recorded' = [recorded EXCEPT ![r] = 0]
    /\ dropped' = [dropped EXCEPT ![r] = 0]
    /\ result' = [result EXCEPT ![r] = "none"]
    /\ zones' = [zones EXCEPT ![r] = << >>]
    /\ calls' = [calls EXCEPT ![r] = 0]
    /\ UNCHANGED <<phase, failed, output, finished, kept>>

\* Writing the thread name fails: the id is spent, nothing is attached.
ThreadInitFails(r) ==
    /\ phase = "open" /\ ~failed
    /\ state[r] = "unused"
    /\ nextId \in Ids
    /\ TakesId
    /\ failed' = TRUE
    /\ UNCHANGED <<phase, active, output, finished, recorderVars>>

----------------------------------------------------------------------------
(* Writing the buffer: lor_trace__thread_flush_internal.                    *)

\* It succeeds, and the buffer is empty; an empty buffer is not looked at.
FlushedOutput(r) == [output EXCEPT ![id[r]] = @ \o buffer[r]]

\* Mutant: the flush does not look at failed and writes the buffer again.
CanFlushAgain(r) == TRUE

CanFlush(r) == buffer[r] = << >> \/ ~failed

\* A write fails, if none has failed before: some of the records are in the
\* file, at most the given number, and the buffer keeps all of them.
FlushFails(r, written) ==
    /\ buffer[r] # << >>
    /\ IF failed
       THEN UNCHANGED output
       ELSE \E n \in 0 .. written :
               output' = [output EXCEPT ![id[r]] = @ \o SubSeq(buffer[r], 1, n)]
    /\ failed' = TRUE
    /\ UNCHANGED <<buffer, used>>

----------------------------------------------------------------------------
(* Recording: lor_trace__append with room for ends records held back.       *)

\* Mutant: the room of the ends already promised is not held back.
FitsAlone(size, ends, taken) == size <= Capacity - taken

\* lor_trace__space_available.
Fits(size, ends, taken) == size + ends * Header <= Capacity - taken

\* The record is in the buffer, after a flush if that was needed and is
\* allowed.
Appended(r, record, size, ends) ==
    /\ \/ /\ Fits(size, ends, used[r])
          /\ buffer' = [buffer EXCEPT ![r] = Append(@, record)]
          /\ used' = [used EXCEPT ![r] = @ + size]
          /\ UNCHANGED output
       \/ /\ ~Fits(size, ends, used[r])
          /\ BufferMode = "flush" /\ CanFlush(r) /\ Fits(size, ends, 0)
          /\ output' = FlushedOutput(r)
          /\ buffer' = [buffer EXCEPT ![r] = <<record>>]
          /\ used' = [used EXCEPT ![r] = size]
    /\ recorded' = [recorded EXCEPT ![r] = @ + 1]
    /\ kept' = [kept EXCEPT ![id[r]] = @ + 1]
    /\ UNCHANGED failed

\* The record is not in the buffer: no flush is allowed, it failed, or the
\* record does not even fit an empty buffer.
NotAppended(r, size, ends) ==
    /\ ~Fits(size, ends, used[r])
    /\ \/ BufferMode = "drop" /\ UNCHANGED <<buffer, used, output, failed>>
       \/ BufferMode = "flush" /\ FlushFails(r, Len(buffer[r]) - 1)
       \/ /\ BufferMode = "flush" /\ CanFlush(r) /\ ~Fits(size, ends, 0)
          /\ output' = FlushedOutput(r)
          /\ buffer' = [buffer EXCEPT ![r] = << >>]
          /\ used' = [used EXCEPT ![r] = 0]
          /\ UNCHANGED failed
    /\ UNCHANGED <<recorded, kept>>

\* Mutant: the event is not counted.
DroppedSilently(r) == UNCHANGED dropped

Dropped(r) == dropped' = [dropped EXCEPT ![r] = @ + 1]

\* A recorder is asked to record one more event.
Called(r) ==
    /\ state[r] = "live"
    /\ calls[r] < MaxCalls
    /\ calls' = [calls EXCEPT ![r] = @ + 1]
    /\ UNCHANGED <<phase, active, nextId, finished, state, id, result>>

\* lor_trace__append, and whether it returned 1.
TryAppend(r, record, size, ends, ok) ==
    IF ok THEN Appended(r, record, size, ends) ELSE NotAppended(r, size, ends)

----------------------------------------------------------------------------
(* lor_trace_begin and lor_trace__begin_value.                              *)

\* The zone the caller opens, and whether its begin is recorded.
Opened(r, isKept) ==
    /\ depth' = [depth EXCEPT ![r] = @ + 1]
    /\ zones' = [zones EXCEPT ![r] = Append(@, [zone |-> calls[r] + 1, kept |-> isKept])]

\* Mutant: a zone inside a dropped one is not counted as suppressed.
BeginSuppressedFlat(r) ==
    /\ Called(r)
    /\ suppressed[r] # 0
    /\ Dropped(r)
    /\ Opened(r, FALSE)
    /\ UNCHANGED <<suppressed, reserved, bufferVars>>

\* Inside a zone whose begin was dropped.
BeginSuppressed(r) ==
    /\ Called(r)
    /\ suppressed[r] # 0
    /\ suppressed' = [suppressed EXCEPT ![r] = @ + 1]
    /\ Dropped(r)
    /\ Opened(r, FALSE)
    /\ UNCHANGED <<reserved, bufferVars>>

BeginRecorded(r, size) ==
    /\ Called(r)
    /\ suppressed[r] = 0
    /\ Appended(r, [kind |-> "begin", zone |-> calls[r] + 1], size, reserved[r] + 1)
    /\ reserved' = [reserved EXCEPT ![r] = @ + 1]
    /\ Opened(r, TRUE)
    /\ UNCHANGED <<suppressed, dropped>>

BeginDropped(r, size) ==
    /\ Called(r)
    /\ suppressed[r] = 0
    /\ NotAppended(r, size, reserved[r] + 1)
    /\ suppressed' = [suppressed EXCEPT ![r] = 1]
    /\ Dropped(r)
    /\ Opened(r, FALSE)
    /\ UNCHANGED reserved

----------------------------------------------------------------------------
(* lor_trace_end and lor_trace__end_impl.                                   *)

\* The end of the innermost open zone.
EndRecord(r) == [kind |-> "end", zone |-> zones[r][Len(zones[r])].zone]

Closed(r) ==
    /\ depth' = [depth EXCEPT ![r] = @ - 1]
    /\ zones' = [zones EXCEPT ![r] = SubSeq(@, 1, Len(@) - 1)]

\* No zone is open.
EndUnmatched(r) ==
    /\ Called(r)
    /\ depth[r] = 0
    /\ Dropped(r)
    /\ UNCHANGED <<counters, zones, bufferVars>>

EndSuppressed(r) ==
    /\ Called(r)
    /\ depth[r] # 0 /\ suppressed[r] # 0
    /\ suppressed' = [suppressed EXCEPT ![r] = @ - 1]
    /\ Dropped(r)
    /\ Closed(r)
    /\ UNCHANGED <<reserved, bufferVars>>

\* The end of a recorded zone.  The code provides for an append that fails.
EndReserved(r) ==
    /\ Called(r)
    /\ depth[r] # 0 /\ suppressed[r] = 0
    /\ \E ok \in BOOLEAN :
          /\ IF reserved[r] = 0
             THEN ~ok /\ UNCHANGED bufferVars
             ELSE TryAppend(r, EndRecord(r), EndSize, reserved[r] - 1, ok)
          /\ IF ok THEN UNCHANGED dropped ELSE Dropped(r)
    /\ reserved' = [reserved EXCEPT ![r] = IF @ = 0 THEN 0 ELSE @ - 1]
    /\ Closed(r)
    /\ UNCHANGED suppressed

----------------------------------------------------------------------------
(* lor_trace_instant and lor_trace_counter.                                 *)

EventSuppressed(r) ==
    /\ Called(r)
    /\ suppressed[r] # 0
    /\ Dropped(r)
    /\ UNCHANGED <<counters, zones, bufferVars>>

EventRecorded(r, size) ==
    /\ Called(r)
    /\ suppressed[r] = 0
    /\ Appended(r, [kind |-> "instant", zone |-> 0], size, reserved[r])
    /\ UNCHANGED <<counters, dropped, zones>>

EventDropped(r, size) ==
    /\ Called(r)
    /\ suppressed[r] = 0
    /\ NotAppended(r, size, reserved[r])
    /\ Dropped(r)
    /\ UNCHANGED <<counters, zones>>

----------------------------------------------------------------------------
(* lor_trace_thread_flush: the buffer, then the C stream, whose flush may   *)
(* fail after every record was written.                                     *)

StreamFlush(r, ok) ==
    IF ok
    THEN /\ ~failed
         /\ output' = FlushedOutput(r)
         /\ buffer' = [buffer EXCEPT ![r] = << >>]
         /\ used' = [used EXCEPT ![r] = 0]
         /\ UNCHANGED failed
    ELSE \/ FlushFails(r, Len(buffer[r]))
         \/ /\ buffer[r] = << >>
            /\ failed' = TRUE
            /\ UNCHANGED <<buffer, used, output>>

ThreadFlush(r) ==
    /\ state[r] = "live"
    /\ \E ok \in BOOLEAN : StreamFlush(r, ok)
    /\ UNCHANGED <<phase, active, nextId, finished, state, id, counters, recorded,
                   dropped, result, zones, calls, kept>>

----------------------------------------------------------------------------
(* lor_trace_thread_finish.                                                 *)

\* Zones whose begin was dropped are forgotten.
FinishStart(r) ==
    /\ state[r] = "live"
    /\ state' = [state EXCEPT ![r] = "closing"]
    /\ result' = [result EXCEPT ![r] = IF depth[r] = 0 THEN "OK" ELSE "INVALID_ARGUMENT"]
    /\ depth' = [depth EXCEPT ![r] = @ - suppressed[r]]
    /\ suppressed' = [suppressed EXCEPT ![r] = 0]
    /\ zones' = [zones EXCEPT ![r] = SubSeq(@, 1, Len(@) - suppressed[r])]
    /\ UNCHANGED <<phase, active, nextId, finished, id, reserved, bufferVars, dropped,
                   calls>>

\* The others are ended, innermost first.
FinishZone(r) ==
    /\ state[r] = "closing"
    /\ reserved[r] # 0
    /\ \E ok \in BOOLEAN :
          /\ TryAppend(r, EndRecord(r), EndSize, reserved[r] - 1, ok)
          /\ IF ok THEN UNCHANGED dropped ELSE Dropped(r)
    /\ reserved' = [reserved EXCEPT ![r] = @ - 1]
    /\ depth' = [depth EXCEPT ![r] = IF @ = 0 THEN 0 ELSE @ - 1]
    /\ zones' = [zones EXCEPT ![r] = SubSeq(@, 1, Len(@) - 1)]
    /\ UNCHANGED <<phase, active, nextId, finished, state, id, suppressed, result, calls>>

FinishFlush(r) ==
    /\ state[r] = "closing"
    /\ reserved[r] = 0
    /\ state' = [state EXCEPT ![r] = "leaving"]
    /\ depth' = [depth EXCEPT ![r] = 0]
    /\ \E ok \in BOOLEAN :
          /\ StreamFlush(r, ok)
          /\ result' = IF ok THEN result ELSE [result EXCEPT ![r] = "SYSTEM_ERROR"]
    /\ UNCHANGED <<phase, active, nextId, finished, id, suppressed, reserved, recorded,
                   dropped, zones, calls, kept>>

\* The recorder is no longer counted, and its buffer is freed.
FinishLeave(r) ==
    /\ state[r] = "leaving"
    /\ state' = [state EXCEPT ![r] = "unused"]
    /\ active' = IF active = 0 THEN 0 ELSE active - 1
    /\ buffer' = [buffer EXCEPT ![r] = << >>]
    /\ used' = [used EXCEPT ![r] = 0]
    /\ UNCHANGED <<phase, failed, nextId, output, finished, id, counters, recorded,
                   dropped, result, zones, calls, kept>>

----------------------------------------------------------------------------
Record(r) ==
    \/ BeginSuppressed(r) \/ EndUnmatched(r) \/ EndSuppressed(r) \/ EndReserved(r)
    \/ EventSuppressed(r)
    \/ \E n \in NameSizes :
          \/ BeginRecorded(r, Header + n) \/ BeginDropped(r, Header + n)
          \/ EventRecorded(r, Header + n) \/ EventDropped(r, Header + n)

Next ==
    \/ InitFile \/ FinishRefused \/ Finish
    \/ \E r \in Recorders :
          \/ ThreadInit(r) \/ ThreadInitFails(r)
          \/ Record(r) \/ ThreadFlush(r)
          \/ FinishStart(r) \/ FinishZone(r) \/ FinishFlush(r) \/ FinishLeave(r)

Spec == Init /\ [][Next]_vars
----------------------------------------------------------------------------
(* Properties.                                                              *)

\* Every variable has its type.
TypeOK ==
    /\ phase \in {"none", "open", "done"}
    /\ failed \in BOOLEAN
    /\ active \in Nat /\ nextId \in 1 .. MaxIds + 1
    /\ output \in [Ids -> Seq(Records)]
    /\ finished \in {"none", "OK", "INVALID_ARGUMENT", "SYSTEM_ERROR"}
    /\ state \in [Recorders -> States]
    /\ id \in [Recorders -> 0 .. MaxIds]
    /\ \A r \in Recorders : state[r] # "unused" => id[r] \in 1 .. nextId - 1
    /\ buffer \in [Recorders -> Seq(Records)]
    /\ used \in [Recorders -> Nat] /\ depth \in [Recorders -> Nat]
    /\ suppressed \in [Recorders -> Nat] /\ reserved \in [Recorders -> Nat]
    /\ recorded \in [Recorders -> Nat] /\ dropped \in [Recorders -> Nat]
    /\ result \in [Recorders -> {"none", "OK", "INVALID_ARGUMENT", "SYSTEM_ERROR"}]
    /\ zones \in [Recorders -> Seq(Zones)]
    /\ calls \in [Recorders -> 0 .. MaxCalls]
    /\ kept \in [Ids -> Nat]

\* The room for the ends of all recorded open zones is never given away, and
\* the open zones are the recorded ones followed by the suppressed ones: there
\* is no recorded zone inside a dropped one (begin_value and end_impl).
Attached(r) == state[r] \in {"live", "closing"}
Reservation ==
    \A r \in Recorders : Attached(r) =>
        /\ used[r] + reserved[r] * Header <= Capacity
        /\ depth[r] = reserved[r] + suppressed[r]
        /\ Len(zones[r]) = depth[r]
        /\ \A i \in 1 .. Len(zones[r]) : zones[r][i].kept <=> i <= reserved[r]

\* The end of a zone whose begin was recorded is recorded too, and without
\* writing to the file, however full the buffer is and whatever has failed.
EndNeverLost ==
    [][\A r \in Recorders :
          (Attached(r) /\ Len(zones'[r]) = Len(zones[r]) - 1 /\ zones[r][Len(zones[r])].kept)
          => recorded'[r] = recorded[r] + 1 /\ UNCHANGED <<output, failed>>]_vars

\* What a viewer reads: no end in the file closes a zone it does not belong to, even if
\* writes fail. As long as none has failed, the records of a thread written so far
\* and those still in its buffer leave open exactly the recorded zones that are
\* open in the program, and those of a recorder that has finished leave none open.
KeptZones(r) == [i \in 1 .. reserved[r] |-> zones[r][i].zone]
NoWrongEnd ==
    \A i \in Ids : \A n \in 1 .. Len(OpenAfter(output[i])) : OpenAfter(output[i])[n] # -1
Nested ==
    /\ NoWrongEnd
    /\ ~failed =>
        /\ \A r \in Recorders : Attached(r) =>
              OpenAfter(output[id[r]] \o buffer[r]) = KeptZones(r)
        /\ \A i \in 1 .. nextId - 1 :
              (\A r \in Recorders : id[r] = i => ~Attached(r)) => OpenAfter(output[i]) = << >>

\* The statistics: each event asked for is recorded or dropped, and the
\* recorded ones are in the file or in the buffer until a write fails.
Accounted ==
    \A r \in Recorders : state[r] = "live" =>
        /\ recorded[r] + dropped[r] = calls[r]
        /\ ~failed => Len(output[id[r]]) + Len(buffer[r]) = recorded[r]

\* If lor_trace_finish returns OK the file holds every recorded event of every
\* thread, and every zone in it is closed.
FinishComplete ==
    finished = "OK" =>
        \A i \in Ids : Len(output[i]) = kept[i] /\ OpenAfter(output[i]) = << >>

\* No event is unaccounted for, while recorders run and when the trace is finished.
EventsAccounted == Accounted /\ FinishComplete

\* active_threads counts the recorders that still use the trace, so the trace
\* is never freed under one of them.
ActiveCounted ==
    /\ active = Cardinality({r \in Recorders : state[r] # "unused"})
    /\ phase # "open" => \A r \in Recorders : state[r] = "unused"
=============================================================================

--------------------------- MODULE ChannelProofs ---------------------------
(***************************************************************************)
(* What holds of a LorChannel for every set of threads, every capacity and *)
(* every number of sends.                                                  *)
(***************************************************************************)
EXTENDS Channel, FiniteSetTheorems, TLAPS

\* A signal only wakes threads that wait.
LEMMA SignalWakesWaiting ==
  ASSUME NEW S, NEW W \in Signal(S)
  PROVE  W \subseteq S
  BY DEF Signal

\* lor_mutex_unlock and return: the calls keep their types and only the
\* returning thread leaves its call.
LEMMA ReturnThreads ==
  ASSUME ThreadTypes, NEW t \in Threads, NEW status \in Statuses, NEW W,
         \A u \in W : u \in Threads /\ pc[u] = "asleep",
         Return(t, status, W), live' = live
  PROVE  ThreadTypes'
<1> USE DEF ThreadTypes, Return, Release, NoCall, Calls, PCs, Bytes, Values
<1>1. NoCall \in Calls
  BY ChannelAssumption DEF ChannelAssumption, Deadlines
<1>2. pc' \in [Threads -> PCs]
  OBVIOUS
<1>3. call' \in [Threads -> Calls] /\ result' \in [Threads -> Statuses]
  BY <1>1
<1>4. ASSUME NEW u \in Threads, u # t
      PROVE  /\ call'[u] = call[u]
             /\ pc'[u] = "idle" <=> pc[u] = "idle"
             /\ pc'[u] = "timedout" => pc[u] = "timedout"
  BY <1>4
<1>5. pc'[t] = "idle" /\ call'[t] = NoCall /\ NoCall.op = "none"
  OBVIOUS
<1> QED
  BY <1>2, <1>3, <1>4, <1>5

\* A thread that starts to wait stays inside its call.
LEMMA SleepThreads ==
  ASSUME ThreadTypes, NEW t \in Threads, NEW W,
         \A u \in W : u \in Threads /\ pc[u] = "asleep",
         pc[t] # "idle", Sleep(t, W), live' = live, UNCHANGED result
  PROVE  ThreadTypes'
  BY DEF ThreadTypes, Sleep, Release, PCs

\* Copying a value into a slot keeps the type of the buffer.
LEMMA BytesWritten ==
  ASSUME NEW b \in [Slots -> Bytes], NEW i, NEW v \in Values
  PROVE  [b EXCEPT ![i] = v] \in [Slots -> Bytes]
<1>1. v \in Bytes
  BY ChannelAssumption DEF ChannelAssumption, Values, Bytes
<1> QED
  BY <1>1

LEMMA InitTypes == Init => TypeOK
<1> SUFFICES ASSUME Init PROVE TypeOK
  OBVIOUS
<1> USE ChannelAssumption DEF ChannelAssumption, Init
<1>1. FieldTypes
  <2>1. buffer \in [Slots -> Bytes] /\ first \in Slots
    BY DEF Slots, StorageCount, Bytes
  <2>2. accepted \in Seq(Values) /\ received \in Seq(Bytes)
    OBVIOUS
  <2> QED
    BY <2>1, <2>2 DEF FieldTypes
<1>2. ThreadTypes
  BY DEF ThreadTypes, PCs, Calls, NoCall, Bytes, Deadlines, Statuses
<1> QED
  BY <1>1, <1>2 DEF TypeOK

LEMMA StepTypes ==
  ASSUME TypeOK, NEW t \in Threads, Step(t)
  PROVE  TypeOK'
<1> USE ChannelAssumption DEF ChannelAssumption
<1> DEFINE Sleepers == {u \in Threads : pc[u] = "asleep"}
<1>a. /\ \A W : W \in Signal(Asleep("send")) => W \subseteq Sleepers
      /\ \A W : W \in Signal(Asleep("receive")) => W \subseteq Sleepers
      /\ \A W : W \in ArrivalSignal(t) => W \subseteq Sleepers
      /\ \A W, V : W \in Signal(Asleep("send") \ V) => W \subseteq Sleepers
  BY SignalWakesWaiting DEF Asleep, ArrivalSignal
<1>b. /\ "OK" \in Statuses /\ "CLOSED" \in Statuses /\ "TIMED_OUT" \in Statuses
  BY DEF Statuses
<1>1. ThreadTypes'
  <2>1. \A W \in SUBSET Sleepers, status \in Statuses :
           Return(t, status, W) /\ live' = live => ThreadTypes'
    BY ReturnThreads DEF TypeOK
  <2>2. \A W \in SUBSET Sleepers :
           Sleep(t, W) /\ live' = live /\ pc[t] # "idle" => ThreadTypes'
    BY SleepThreads DEF TypeOK, Sleep
  <2>3. {} \in SUBSET Sleepers
    OBVIOUS
  <2>4. \A W \in SUBSET Sleepers : GiveUp(t, W) /\ live' = live => ThreadTypes'
    BY <2>1, <1>b DEF GiveUp
  <2>5. live' = live
    BY DEF Step, SendWait, SendClosed, SendBuffered, SendRendezvous, ReceiveWait,
           ReceiveClosed, ReceiveBuffered, Taken, RendezvousWait, RendezvousClosed,
           ReceiveRendezvous, TimedOut, chanVars
  <2>6. CASE SendWait(t) \/ ReceiveWait(t)
    BY <2>6, <2>2, <2>3, <2>4, <2>5 DEF SendWait, ReceiveWait, Running
  <2>7. CASE RendezvousWait(t)
    BY <2>7, <1>a, <2>2, <2>4, <2>5 DEF RendezvousWait, Running
  <2>8. CASE SendClosed(t) \/ ReceiveClosed(t) \/ TimedOut(t)
    BY <2>8, <1>b, <2>1, <2>3, <2>5 DEF SendClosed, ReceiveClosed, TimedOut
  <2>9. CASE SendBuffered(t) \/ SendRendezvous(t) \/ ReceiveBuffered(t) \/ RendezvousClosed(t)
    BY <2>9, <1>a, <1>b, <2>1, <2>5
       DEF SendBuffered, SendRendezvous, Accept, CanSend, Position, ReceiveBuffered, Taken,
           RendezvousClosed
  <2>10. CASE ReceiveRendezvous(t)
    <3>1. PICK W1 \in ArrivalSignal(t) : \E W2 \in Signal(Asleep("send") \ W1) :
             Return(t, "OK", W1 \cup W2)
      BY <2>10 DEF ReceiveRendezvous
    <3>2. PICK W2 \in Signal(Asleep("send") \ W1) : Return(t, "OK", W1 \cup W2)
      BY <3>1
    <3>3. W1 \cup W2 \in SUBSET Sleepers
      BY <1>a
    <3> QED
      BY <1>b, <2>1, <2>5, <3>2, <3>3
  <2> QED
    BY <2>6, <2>7, <2>8, <2>9, <2>10 DEF Step
<1>2. FieldTypes'
  <2> USE DEF TypeOK, FieldTypes
  <2>1. CASE SendWait(t) \/ SendClosed(t) \/ ReceiveWait(t) \/ ReceiveClosed(t)
    BY <2>1 DEF SendWait, SendClosed, ReceiveWait, ReceiveClosed, chanVars, history
  <2>2. CASE SendBuffered(t)
    <3> USE <2>2 DEF SendBuffered, Accept, CanSend, Position
    <3>1. call[t].value \in Values
      BY DEF ThreadTypes, Running
    <3>2. buffer' \in [Slots -> Bytes]
      BY <3>1, BytesWritten
    <3>3. count' \in 0 .. Capacity
      BY DEF SendBlocked
    <3> QED
      BY <3>1, <3>2, <3>3
  <2>3. CASE SendRendezvous(t)
    <3> USE <2>3 DEF SendRendezvous, Accept, CanSend, Position
    <3>1. call[t].value \in Values
      BY DEF ThreadTypes, Running
    <3>2. buffer' \in [Slots -> Bytes]
      BY <3>1, BytesWritten
    <3> QED
      BY <3>1, <3>2
  <2>4. CASE ReceiveBuffered(t)
    <3> USE <2>4 DEF ReceiveBuffered, Taken
    <3>1. first' \in Slots
      BY DEF Slots, StorageCount
    <3>2. buffer[first] \in Bytes
      OBVIOUS
    <3> QED
      BY <3>1, <3>2
  <2>5. CASE RendezvousWait(t) \/ RendezvousClosed(t)
    BY <2>5 DEF RendezvousWait, RendezvousClosed, ReceiversWithout, Arrival, history
  <2>6. CASE ReceiveRendezvous(t)
    <3> USE <2>6 DEF ReceiveRendezvous
    <3>1. received' \in Seq(Bytes)
      <4>1. buffer[0] \in Bytes
        BY DEF Slots, StorageCount
      <4> QED
        BY <4>1
    <3>2. waiting_receivers' \in Int
      BY DEF ReceiversWithout, Arrival
    <3>3. UNCHANGED <<live, buffer, count, first, closed, sends, accepted>> /\ slot_full' = FALSE
      OBVIOUS
    <3> QED
      BY ONLY <2>6, <3>1, <3>2, <3>3, TypeOK DEF TypeOK, FieldTypes, ReceiveRendezvous
  <2>7. CASE TimedOut(t)
    <3>1. /\ waiting_receivers' \in Int
          /\ Capacity > 0 => waiting_receivers' = 0
      <4>1. waiting_receivers' = waiting_receivers - 1 \/ waiting_receivers' = waiting_receivers
        BY <2>7 DEF TimedOut
      <4>2. Capacity > 0 => waiting_receivers' = waiting_receivers
        BY <2>7 DEF TimedOut
      <4> QED
        BY <4>1, <4>2
    <3>2. UNCHANGED <<live, buffer, count, first, slot_full, closed, sends, accepted, received>>
      BY <2>7 DEF TimedOut, history
    <3> QED
      BY <3>1, <3>2
  <2> QED
    BY <2>1, <2>2, <2>3, <2>4, <2>5, <2>6, <2>7 DEF Step
<1> QED
  BY <1>1, <1>2 DEF TypeOK

\* Making a call.
LEMMA BeginTypes ==
  ASSUME TypeOK, NEW t \in Threads, NEW op \in {"send", "receive"}, NEW v \in Bytes,
         op = "send" => t \in Senders /\ v \in Values,
         op = "receive" => t \in Receivers,
         Begin(t, op, v), sends' \in 0 .. MaxSends
  PROVE  TypeOK'
<1>1. PICK d \in {"infinite", "pending"} :
         call' = [call EXCEPT ![t] = [op |-> op, value |-> v, deadline |-> d]]
  BY DEF Begin
<1>2. [op |-> op, value |-> v, deadline |-> d] \in Calls
  BY DEF Calls, Deadlines
<1>3. ThreadTypes'
  BY <1>1, <1>2 DEF TypeOK, ThreadTypes, Begin, PCs, Statuses, chanVars
<1>4. FieldTypes'
  BY DEF TypeOK, FieldTypes, Begin, chanVars
<1> QED
  BY <1>3, <1>4 DEF TypeOK

\* Every variable keeps its type: the inductive step.
LEMMA NextTypes == TypeOK /\ [Next]_vars => TypeOK'
<1> SUFFICES ASSUME TypeOK, [Next]_vars PROVE TypeOK'
  OBVIOUS
<1> USE ChannelAssumption DEF ChannelAssumption, TypeOK
<1>1. CASE ChannelInit
  <2>1. FieldTypes'
    <3>1. buffer' \in [Slots -> Bytes] /\ first' \in Slots
      BY <1>1 DEF ChannelInit, Slots, StorageCount, Bytes
    <3>2. accepted' \in Seq(Values) /\ received' \in Seq(Bytes)
      BY <1>1 DEF ChannelInit
    <3> QED
      BY <1>1, <3>1, <3>2 DEF ChannelInit, FieldTypes
  <2>2. ThreadTypes'
    BY <1>1 DEF ChannelInit, ThreadTypes, threadVars
  <2> QED
    BY <2>1, <2>2
<1>2. CASE Close
  BY <1>2 DEF Close, FieldTypes, ThreadTypes, history, PCs
<1>3. CASE ChannelDeinit
  BY <1>3 DEF ChannelDeinit, FieldTypes, ThreadTypes, threadVars, history
<1>4. ASSUME NEW t \in Threads, CallSend(t) \/ CallReceive(t)
      PROVE  TypeOK'
  <2>1. CASE CallSend(t)
    BY <2>1, BeginTypes DEF CallSend, FieldTypes, Values, Bytes
  <2>2. CASE CallReceive(t)
    BY <2>2, BeginTypes DEF CallReceive, FieldTypes, Bytes
  <2> QED
    BY <1>4, <2>1, <2>2
<1>5. ASSUME NEW t \in Threads, CallRejected(t)
      PROVE  TypeOK'
  BY <1>5 DEF CallRejected, FieldTypes, ThreadTypes, Statuses, chanVars, history
<1>6. ASSUME NEW t \in Threads, Expire(t)
      PROVE  TypeOK'
  <2>1. call' \in [Threads -> Calls]
    BY <1>6 DEF Expire, ThreadTypes, Calls, Deadlines
  <2>2. call[t].op # "none"
    BY <1>6 DEF Expire, ThreadTypes, NoCall
  <2>3. /\ \A u \in Threads : u # t => call'[u] = call[u]
        /\ call'[t].op = call[t].op /\ call'[t].value = call[t].value
        /\ call'[t].deadline = "passed"
    BY <1>6 DEF Expire, ThreadTypes, Calls
  <2>4. ThreadTypes'
    BY <1>6, <2>1, <2>2, <2>3 DEF Expire, ThreadTypes, chanVars
  <2> QED
    BY <1>6, <2>4 DEF Expire, FieldTypes, chanVars, history
<1>7. ASSUME NEW t \in Threads, WaitTimesOut(t) \/ SpuriousWakeup(t)
      PROVE  TypeOK'
  BY <1>7 DEF WaitTimesOut, SpuriousWakeup, FieldTypes, ThreadTypes, PCs, chanVars, history
<1>8. CASE UNCHANGED vars
  BY <1>8 DEF vars, FieldTypes, ThreadTypes
<1> QED
  BY <1>1, <1>2, <1>3, <1>4, <1>5, <1>6, <1>7, <1>8, StepTypes DEF Next

\* Type correctness of every execution.
THEOREM ChannelTypes == Spec => []TypeOK
  BY InitTypes, NextTypes, PTL DEF Spec

----------------------------------------------------------------------------
\* Arithmetic of the ring index, for a capacity c, the index f of the oldest
\* value and k values.  The slot a send fills holds none of the k values.
LEMMA RingDistinct ==
  ASSUME NEW c \in Nat, NEW f \in 0 .. c - 1, NEW k \in 0 .. c - 1, NEW n \in 1 .. k
  PROVE  (f + n - 1) % c # (f + k) % c
  OBVIOUS

\* Dropping the oldest value renumbers the others.
LEMMA RingShift ==
  ASSUME NEW c \in Nat, NEW f \in 0 .. c - 1, NEW n \in 1 .. c - 1
  PROVE  (((f + 1) % c) + n - 1) % c = (f + (n + 1) - 1) % c
  OBVIOUS

LEMMA InitOnce == Init => ExactlyOnce
  BY ChannelAssumption DEF ChannelAssumption, Init, ExactlyOnce, Held

\* Only a send that stores and a receive that takes move a value.
LEMMA NextOnce == TypeOK /\ ExactlyOnce /\ [Next]_vars => ExactlyOnce'
<1> SUFFICES ASSUME TypeOK, ExactlyOnce, [Next]_vars PROVE ExactlyOnce'
  OBVIOUS
<1> USE ChannelAssumption DEF ChannelAssumption
<1> DEFINE ValuesStay == UNCHANGED <<buffer, count, first, slot_full, accepted, received>>
<1>1. CASE ChannelInit
  BY <1>1 DEF ChannelInit, ExactlyOnce, Held
<1>2. CASE ValuesStay
  BY <1>2 DEF ExactlyOnce, Held, HeldAt
<1>3. ASSUME NEW t \in Threads, SendBuffered(t)
      PROVE  ExactlyOnce'
  <2> DEFINE v == call[t].value
             pos == (first + count) % Capacity
  <2>1. /\ Capacity > 0 /\ count < Capacity /\ count \in Nat
        /\ v \in Values
        /\ buffer' = [buffer EXCEPT ![pos] = v]
        /\ count' = count + 1 /\ first' = first
        /\ accepted' = Append(accepted, v) /\ received' = received
    BY <1>3 DEF SendBuffered, SendBlocked, Running, Accept, CanSend, Position, TypeOK,
       FieldTypes, ThreadTypes
  <2>2. pos \in Slots
    BY <2>1 DEF TypeOK, FieldTypes, Slots, StorageCount
  <2>3. Held = count /\ Held' = count + 1
    BY <2>1 DEF Held
  <2>4. accepted \in Seq(Values) /\ received \in Seq(Bytes) /\ buffer \in [Slots -> Bytes]
    BY DEF TypeOK, FieldTypes
  <2>5. /\ Len(accepted') = Len(accepted) + 1
        /\ accepted'[Len(accepted) + 1] = v
        /\ \A i \in 1 .. Len(accepted) : accepted'[i] = accepted[i]
    BY <2>1, <2>4
  <2>6. Len(accepted) = Len(received) + count
    BY <2>3 DEF ExactlyOnce
  <2>7. ASSUME NEW n \in 1 .. count
        PROVE  HeldAt(n)' = accepted'[Len(received) + n]
    <3>1. HeldAt(n) = accepted[Len(received) + n]
      BY <2>3 DEF ExactlyOnce
    <3>2. (first + n - 1) % Capacity # pos
      <4>1. first \in 0 .. Capacity - 1 /\ count \in 0 .. Capacity - 1
        BY <2>1 DEF TypeOK, FieldTypes, Slots, StorageCount
      <4> QED
        BY <4>1, RingDistinct
    <3>3. (first + n - 1) % Capacity \in Slots
      BY <2>1 DEF TypeOK, FieldTypes, Slots, StorageCount
    <3>4. HeldAt(n)' = HeldAt(n)
      BY <2>1, <2>4, <3>2, <3>3 DEF HeldAt
    <3>5. accepted'[Len(received) + n] = accepted[Len(received) + n]
      BY <2>1, <2>4, <2>5, <2>6
    <3> QED
      BY <3>1, <3>4, <3>5
  <2>8. ASSUME NEW n, n = count + 1
        PROVE  HeldAt(n)' = accepted'[Len(received) + n]
    <3>1. first + n - 1 = first + count
      BY <2>1, <2>8 DEF TypeOK, FieldTypes, Slots
    <3>2. HeldAt(n)' = buffer'[pos]
      BY <2>1, <3>1 DEF HeldAt
    <3>3. HeldAt(n)' = v
      BY <2>1, <2>2, <2>4, <3>2
    <3>4. Len(received) + n = Len(accepted) + 1
      BY <2>1, <2>4, <2>6, <2>8
    <3> QED
      BY <2>5, <3>3, <3>4
  <2>9. \A i \in 1 .. Len(received') : received'[i] = accepted'[i]
    BY <2>1, <2>3, <2>4, <2>5, <2>6 DEF ExactlyOnce
  <2>10. ASSUME NEW n \in 1 .. count + 1
         PROVE  HeldAt(n)' = accepted'[Len(received) + n]
    <3>1. n \in 1 .. count \/ n = count + 1
      BY <2>1
    <3> QED
      BY <3>1, <2>7, <2>8
  <2>11. \A n \in 1 .. Held' : HeldAt(n)' = accepted'[Len(received') + n]
    BY <2>1, <2>3, <2>10
  <2>12. Len(accepted') = Len(received') + Held'
    BY <2>1, <2>3, <2>4, <2>5, <2>6
  <2> QED
    BY <2>9, <2>11, <2>12 DEF ExactlyOnce
<1>4. ASSUME NEW t \in Threads, SendRendezvous(t)
      PROVE  ExactlyOnce'
  <2> DEFINE v == call[t].value
  <2>1. /\ Capacity = 0 /\ ~slot_full /\ slot_full' = TRUE
        /\ v \in Values
        /\ buffer' = [buffer EXCEPT ![0] = v]
        /\ accepted' = Append(accepted, v) /\ received' = received
    BY <1>4 DEF SendRendezvous, SendBlocked, Running, Accept, CanSend, Position, TypeOK,
       FieldTypes, ThreadTypes
  <2>2. accepted \in Seq(Values) /\ received \in Seq(Bytes) /\ buffer \in [Slots -> Bytes]
    BY DEF TypeOK, FieldTypes
  <2>3. Held = 0 /\ Held' = 1 /\ Len(accepted) = Len(received)
    BY <2>1, <2>2 DEF Held, ExactlyOnce
  <2>4. /\ Len(accepted') = Len(accepted) + 1
        /\ accepted'[Len(accepted) + 1] = v
        /\ \A i \in 1 .. Len(accepted) : accepted'[i] = accepted[i]
    BY <2>1, <2>2
  <2>5. \A n : HeldAt(n)' = v
    BY <2>1, <2>2 DEF HeldAt, Slots, StorageCount
  <2> QED
    BY <2>1, <2>2, <2>3, <2>4, <2>5 DEF ExactlyOnce
<1>5. ASSUME NEW t \in Threads, ReceiveBuffered(t)
      PROVE  ExactlyOnce'
  <2>1. /\ Capacity > 0 /\ count > 0 /\ count \in Nat
        /\ received' = Append(received, buffer[first])
        /\ first' = (first + 1) % Capacity /\ count' = count - 1
        /\ buffer' = buffer /\ accepted' = accepted
    BY <1>5 DEF ReceiveBuffered, Taken, TypeOK, FieldTypes
  <2>2. accepted \in Seq(Values) /\ received \in Seq(Bytes) /\ buffer[first] \in Bytes
    BY DEF TypeOK, FieldTypes
  <2>3. Held = count /\ Held' = count - 1 /\ Len(accepted) = Len(received) + count
    BY <2>1 DEF Held, ExactlyOnce
  <2>4. buffer[first] = accepted[Len(received) + 1]
    <3>1. HeldAt(1) = accepted[Len(received) + 1]
      BY <2>1, <2>3 DEF ExactlyOnce
    <3>2. (first + 1 - 1) % Capacity = first
      <4>1. first \in 0 .. Capacity - 1 /\ Capacity \in Nat
        BY <2>1 DEF TypeOK, FieldTypes, Slots, StorageCount
      <4> QED
        BY ONLY <4>1
    <3> QED
      BY <2>1, <3>1, <3>2 DEF HeldAt
  <2>5. /\ Len(received') = Len(received) + 1
        /\ received'[Len(received) + 1] = buffer[first]
        /\ \A i \in 1 .. Len(received) : received'[i] = received[i]
    BY <2>1, <2>2
  <2>6. \A i \in 1 .. Len(received') : received'[i] = accepted'[i]
    BY <2>1, <2>2, <2>4, <2>5 DEF ExactlyOnce
  <2>7. ASSUME NEW n \in 1 .. count - 1
        PROVE  HeldAt(n)' = accepted'[Len(received') + n]
    <3>1. HeldAt(n)' = HeldAt(n + 1)
      <4>1. first \in 0 .. Capacity - 1 /\ n \in 1 .. Capacity - 1
        BY <2>1 DEF TypeOK, FieldTypes, Slots, StorageCount
      <4>2. (first' + n - 1) % Capacity = (first + (n + 1) - 1) % Capacity
        BY <2>1, <4>1, RingShift
      <4> QED
        BY <2>1, <4>2 DEF HeldAt
    <3>2. n + 1 \in 1 .. Held
      BY <2>1, <2>3
    <3>3. HeldAt(n + 1) = accepted[Len(received) + (n + 1)]
      BY <3>2 DEF ExactlyOnce
    <3> QED
      BY <2>1, <2>2, <2>5, <3>1, <3>3
  <2>8. \A n \in 1 .. Held' : HeldAt(n)' = accepted'[Len(received') + n]
    BY <2>1, <2>3, <2>7
  <2>9. Len(accepted') = Len(received') + Held'
    BY <2>1, <2>2, <2>3, <2>5
  <2> QED
    BY <2>6, <2>8, <2>9 DEF ExactlyOnce
<1>6. ASSUME NEW t \in Threads, ReceiveRendezvous(t)
      PROVE  ExactlyOnce'
  <2>1. /\ Capacity = 0 /\ slot_full /\ slot_full' = FALSE
        /\ received' = Append(received, buffer[0])
        /\ buffer' = buffer /\ accepted' = accepted
    BY <1>6 DEF ReceiveRendezvous
  <2>2. accepted \in Seq(Values) /\ received \in Seq(Bytes) /\ buffer[0] \in Bytes
    BY <2>1 DEF TypeOK, FieldTypes, Slots, StorageCount
  <2>3. Held = 1 /\ Held' = 0 /\ Len(accepted) = Len(received) + 1
    BY <2>1 DEF Held, ExactlyOnce
  <2>4. buffer[0] = accepted[Len(received) + 1]
    BY <2>1, <2>3 DEF ExactlyOnce, HeldAt
  <2>5. /\ Len(received') = Len(received) + 1
        /\ received'[Len(received) + 1] = buffer[0]
        /\ \A i \in 1 .. Len(received) : received'[i] = received[i]
    BY <2>1, <2>2
  <2>6. \A i \in 1 .. Len(received') : received'[i] = accepted'[i]
    BY <2>1, <2>2, <2>4, <2>5 DEF ExactlyOnce
  <2> QED
    BY <2>1, <2>2, <2>3, <2>5, <2>6 DEF ExactlyOnce
<1>7. ASSUME NEW t \in Threads,
             \/ SendWait(t) \/ SendClosed(t) \/ ReceiveWait(t) \/ ReceiveClosed(t)
             \/ RendezvousWait(t) \/ RendezvousClosed(t) \/ TimedOut(t)
             \/ CallSend(t) \/ CallReceive(t) \/ CallRejected(t)
             \/ Expire(t) \/ WaitTimesOut(t) \/ SpuriousWakeup(t)
      PROVE  ValuesStay
  BY <1>7 DEF SendWait, SendClosed, ReceiveWait, ReceiveClosed, RendezvousWait,
         RendezvousClosed, TimedOut, CallSend, CallReceive, Begin, CallRejected, Expire,
         WaitTimesOut, SpuriousWakeup, chanVars, history
<1>8. Close \/ ChannelDeinit \/ UNCHANGED vars => ValuesStay
  BY DEF Close, ChannelDeinit, vars, history
<1> QED
  BY <1>1, <1>2, <1>3, <1>4, <1>5, <1>6, <1>7, <1>8 DEF Next, Step

\* FIFO, exactly once, for every capacity and every number of threads.
THEOREM ChannelExactlyOnce == Spec => []ExactlyOnce
  BY InitTypes, NextTypes, InitOnce, NextOnce, PTL DEF Spec

----------------------------------------------------------------------------
\* What the queue counts as inside is what the ring or the slot holds.
LEMMA InsideIsHeld ==
  ASSUME TypeOK, ExactlyOnce
  PROVE  /\ Queue!Inside = Held
         /\ Held > 0 => HeldAt(1) = accepted[Len(received) + 1]
<1>1. Len(received) \in Nat /\ Len(accepted) \in Nat /\ Held \in Nat
  BY ChannelAssumption DEF ChannelAssumption, TypeOK, FieldTypes, Held
<1> QED
  BY <1>1 DEF ExactlyOnce, Queue!Inside

\* A successful send is a successful send of the queue.
LEMMA SendRefines ==
  ASSUME TypeOK, ExactlyOnce, NEW t \in Threads, SendBuffered(t) \/ SendRendezvous(t)
  PROVE  Queue!SendOk(t)
<1>1. /\ call[t].op = "send" /\ ~closed
      /\ accepted' = Append(accepted, call[t].value)
      /\ \E W : Return(t, "OK", W)
      /\ UNCHANGED <<received, live, closed>>
  BY DEF SendBuffered, SendRendezvous, Running, Accept, CanSend, Position
<1>2. Held < StorageCount
  BY ChannelAssumption DEF ChannelAssumption, SendBuffered, SendRendezvous, CanSend, SendBlocked,
     TypeOK, FieldTypes, Held, StorageCount
<1> QED
  BY <1>1, <1>2, InsideIsHeld DEF Queue!SendOk, Queue!Answer, Return, NoCall, Queue!NoCall

\* A successful receive is a successful receive of the queue.
LEMMA ReceiveRefines ==
  ASSUME TypeOK, ExactlyOnce, NEW t \in Threads, ReceiveBuffered(t) \/ ReceiveRendezvous(t)
  PROVE  Queue!ReceiveOk(t)
<1>1. /\ call[t].op = "receive"
      /\ \E W : Return(t, "OK", W)
      /\ UNCHANGED <<accepted, live, closed>>
  <2>1. CASE ReceiveBuffered(t)
    BY <2>1 DEF ReceiveBuffered, Taken, Running
  <2>2. CASE ReceiveRendezvous(t)
    <3>1. \E W1, W2 : Return(t, "OK", W1 \cup W2)
      BY <2>2 DEF ReceiveRendezvous
    <3> QED
      BY <2>2, <3>1 DEF ReceiveRendezvous, Running
  <2> QED
    BY <2>1, <2>2
<1>2. Held > 0 /\ received' = Append(received, HeldAt(1))
  <2>1. CASE ReceiveBuffered(t)
    <3>1. (first + 1 - 1) % Capacity = first
      <4>1. first \in 0 .. Capacity - 1 /\ Capacity \in Nat
        BY <2>1, ChannelAssumption
           DEF ChannelAssumption, ReceiveBuffered, Taken, TypeOK, FieldTypes, Slots, StorageCount
      <4> QED
        BY ONLY <4>1
    <3>2. Capacity # 0
      BY <2>1, ChannelAssumption DEF ReceiveBuffered, Taken, ChannelAssumption
    <3> QED
      BY <2>1, <3>1, <3>2 DEF ReceiveBuffered, Taken, Held, HeldAt
  <2>2. CASE ReceiveRendezvous(t)
    BY <2>2 DEF ReceiveRendezvous, Held, HeldAt
  <2> QED
    BY <2>1, <2>2
<1> QED
  BY <1>1, <1>2, InsideIsHeld DEF Queue!ReceiveOk, Queue!Answer, Return, NoCall, Queue!NoCall

LEMMA InitRefines == Init => Queue!Init
  BY DEF Init, Queue!Init, NoCall, Queue!NoCall

LEMMA NextRefines ==
  TypeOK /\ ExactlyOnce /\ [Next]_vars => [Queue!Next]_(Queue!vars)
<1> SUFFICES ASSUME TypeOK, ExactlyOnce, [Next]_vars
             PROVE  Queue!Next \/ UNCHANGED Queue!vars
  OBVIOUS
<1> USE DEF NoCall, Queue!NoCall
<1>1. CASE ChannelInit
  BY <1>1 DEF ChannelInit, threadVars, Queue!Open, Queue!Next
<1>2. CASE Close
  BY <1>2 DEF Close, history, Queue!Close, Queue!Next
<1>3. CASE ChannelDeinit
  <2>1. call = [t \in Threads |-> NoCall]
    BY <1>3 DEF ChannelDeinit, TypeOK, ThreadTypes
  <2> QED
    BY <1>3, <2>1 DEF ChannelDeinit, threadVars, history, Queue!Dispose, Queue!Next
<1>4. ASSUME NEW t \in Threads, CallSend(t) \/ CallReceive(t)
      PROVE  Queue!Next
  <2>1. CASE CallSend(t)
    <3>1. sends + 1 \in Values
      BY <2>1, ChannelAssumption DEF ChannelAssumption, CallSend, TypeOK, FieldTypes, Values
    <3>2. Queue!Invoke(t)
      BY <2>1, <3>1 DEF CallSend, Begin, chanVars, Queue!Invoke, TypeOK, ThreadTypes
    <3> QED
      BY <3>2 DEF Queue!Next
  <2>2. CASE CallReceive(t)
    <3>1. Queue!Invoke(t)
      BY <2>2 DEF CallReceive, Begin, chanVars, Queue!Invoke, TypeOK, ThreadTypes
    <3> QED
      BY <3>1 DEF Queue!Next
  <2> QED
    BY <1>4, <2>1, <2>2
<1>5. ASSUME NEW t \in Threads, CallRejected(t)
      PROVE  Queue!Next
  BY <1>5 DEF CallRejected, chanVars, history, Queue!Reject, Queue!Next
<1>6. ASSUME NEW t \in Threads, Expire(t)
      PROVE  Queue!Next
  BY <1>6 DEF Expire, chanVars, history, Queue!Expire, Queue!Next
<1>7. ASSUME NEW t \in Threads, WaitTimesOut(t) \/ SpuriousWakeup(t)
      PROVE  UNCHANGED Queue!vars
  BY <1>7 DEF WaitTimesOut, SpuriousWakeup, chanVars, history, Queue!vars
<1>8. ASSUME NEW t \in Threads, Step(t)
      PROVE  Queue!Next \/ UNCHANGED Queue!vars
  <2>1. CASE SendBuffered(t) \/ SendRendezvous(t)
    BY <2>1, SendRefines DEF Queue!Next
  <2>2. CASE ReceiveBuffered(t) \/ ReceiveRendezvous(t)
    BY <2>2, ReceiveRefines DEF Queue!Next
  <2>3. CASE SendClosed(t) \/ ReceiveClosed(t) \/ RendezvousClosed(t)
    <3>1. /\ closed
          /\ call[t].op = "send" \/ (call[t].op = "receive" /\ Queue!Inside = 0)
          /\ \E W : Return(t, "CLOSED", W)
          /\ UNCHANGED <<live, closed, accepted, received>>
      BY <2>3, InsideIsHeld DEF SendClosed, ReceiveClosed, RendezvousClosed, Running, Held,
         chanVars, history
    <3>2. Queue!AnswerClosed(t)
      BY <3>1 DEF Return, Queue!AnswerClosed, Queue!Answer
    <3> QED
      BY <3>2 DEF Queue!Next
  <2>4. ASSUME NEW W, GiveUp(t, W) \/ TimedOut(t), UNCHANGED <<live, closed, accepted, received>>
        PROVE  Queue!Next
    <3>1. call[t].deadline = "passed" /\ \E V : Return(t, "TIMED_OUT", V)
      BY <2>4 DEF GiveUp, TimedOut, TypeOK, ThreadTypes
    <3>2. Queue!AnswerTimedOut(t)
      BY <2>4, <3>1 DEF Return, Queue!AnswerTimedOut, Queue!Answer
    <3> QED
      BY <3>2 DEF Queue!Next
  <2>5. CASE SendWait(t) \/ ReceiveWait(t) \/ RendezvousWait(t)
    <3>1. /\ UNCHANGED <<live, closed, accepted, received>>
          /\ \E W : Sleep(t, W) \/ GiveUp(t, W)
      BY <2>5 DEF SendWait, ReceiveWait, RendezvousWait, chanVars, history
    <3> QED
      BY <2>4, <3>1 DEF Sleep, Queue!vars
  <2>6. CASE TimedOut(t)
    BY <2>6, <2>4 DEF TimedOut, history
  <2> QED
    BY <1>8, <2>1, <2>2, <2>3, <2>5, <2>6 DEF Step
<1>9. CASE UNCHANGED vars
  BY <1>9 DEF vars, Queue!vars
<1> QED
  BY <1>1, <1>2, <1>3, <1>4, <1>5, <1>6, <1>7, <1>8, <1>9 DEF Next

\* Every behaviour of the channel, whatever its waits and signals do, is a
\* behaviour of the queue its callers see.
THEOREM ChannelRefinesQueue == Spec => ImplementsQueue
<1>1. Init => Queue!Init
  BY InitRefines
<1>2. TypeOK /\ ExactlyOnce /\ [Next]_vars => [Queue!Next]_(Queue!vars)
  BY NextRefines
<1> QED
  BY <1>1, <1>2, ChannelTypes, ChannelExactlyOnce, PTL DEF Spec, ImplementsQueue, Queue!Spec

----------------------------------------------------------------------------
(* No wakeup is lost: one signal per value stored or taken is enough, for   *)
(* every set of threads and every capacity, although woken threads race for *)
(* the mutex with threads that never slept.                                 *)

LEMMA FiniteSleepers ==
  ASSUME NEW op
  PROVE  /\ IsFiniteSet(Asleep(op)) /\ IsFiniteSet(Awake(op))
         /\ Cardinality(Awake(op)) \in Nat
<1>1. IsFiniteSet(Threads)
  BY FS_Union, ChannelAssumption DEF ChannelAssumption, Threads
<1>2. Asleep(op) \subseteq Threads /\ Awake(op) \subseteq Threads
  BY DEF Asleep, Awake
<1> QED
  BY <1>1, <1>2, FS_Subset, FS_CardinalityType

\* What a critical section of thread t does to the wait sets: it wakes the
\* sleepers in W, and t itself is no longer awake.
LEMMA ReturnWakes ==
  ASSUME ThreadTypes, NEW t \in Threads, NEW status, NEW W, NEW op,
         pc[t] # "asleep", Return(t, status, W),
         \A u \in W : pc[u] = "asleep"
  PROVE  /\ Asleep(op)' = Asleep(op) \ W
         /\ Awake(op)' = (Awake(op) \ {t}) \cup (Asleep(op) \cap W)
  BY DEF ThreadTypes, Return, Release, Asleep, Awake, NoCall

LEMMA SleepWakes ==
  ASSUME ThreadTypes, NEW t \in Threads, NEW W, NEW op,
         pc[t] # "asleep", Sleep(t, W),
         \A u \in W : pc[u] = "asleep"
  PROVE  /\ call[t].op # op => Asleep(op)' = Asleep(op) \ W
         /\ call[t].op # op => Awake(op)' = Awake(op) \cup (Asleep(op) \cap W)
         /\ call[t].op = op => Asleep(op)' = (Asleep(op) \ W) \cup {t}
  BY DEF ThreadTypes, Sleep, Release, Asleep, Awake

\* A signal to the sleepers of op: either nobody sleeps any more, or one more
\* thread is awake.
LEMMA SignalCounts ==
  ASSUME ThreadTypes, NEW t \in Threads, NEW status, NEW op, NEW W \in Signal(Asleep(op)),
         pc[t] # "asleep", call[t].op # op, Return(t, status, W)
  PROVE  \/ Asleep(op)' = {}
         \/ Asleep(op) # {} /\ Cardinality(Awake(op)') = Cardinality(Awake(op)) + 1
<1>1. CASE Asleep(op) = {}
  BY <1>1, ReturnWakes DEF Signal
<1>2. CASE Asleep(op) # {}
  <2>1. PICK u \in Asleep(op) : W = {u}
    BY <1>2 DEF Signal
  <2>2. pc[u] = "asleep" /\ u \notin Awake(op) /\ t \notin Awake(op)
    BY <2>1 DEF Asleep, Awake
  <2>3. Awake(op)' = Awake(op) \cup {u}
    BY <2>1, <2>2, ReturnWakes
  <2> QED
    BY <1>2, <2>2, <2>3, FiniteSleepers, FS_AddElement
<1> QED
  BY <1>1, <1>2

\* The number of threads of op that are awake drops by at most one, and only
\* when the returning thread is one of them.
LEMMA ReturnCounts ==
  ASSUME ThreadTypes, NEW t \in Threads, NEW status, NEW W, NEW op,
         pc[t] # "asleep", Return(t, status, W), \A u \in W : pc[u] = "asleep"
  PROVE  /\ Asleep(op)' \subseteq Asleep(op)
         /\ Cardinality(Awake(op)') >= Cardinality(Awake(op)) - 1
         /\ call[t].op # op => Cardinality(Awake(op)') >= Cardinality(Awake(op))
<1>1. /\ Asleep(op)' \subseteq Asleep(op)
      /\ Awake(op) \ {t} \subseteq Awake(op)'
      /\ call[t].op # op => Awake(op) \subseteq Awake(op)'
  <2>1. /\ Asleep(op)' = Asleep(op) \ W
        /\ Awake(op)' = (Awake(op) \ {t}) \cup (Asleep(op) \cap W)
    BY DEF ThreadTypes, Return, Release, Asleep, Awake, NoCall
  <2>2. call[t].op # op => t \notin Awake(op)
    BY DEF Awake
  <2> QED
    BY <2>1, <2>2
<1>2. IsFiniteSet(Awake(op)') /\ Cardinality(Awake(op)') \in Nat
  <2>1. Awake(op)' \subseteq Threads
    BY DEF Awake
  <2>2. IsFiniteSet(Threads)
    BY FS_Union, ChannelAssumption DEF ChannelAssumption, Threads
  <2> QED
    BY <2>1, <2>2, FS_Subset, FS_CardinalityType
<1>3. Cardinality(Awake(op) \ {t}) >= Cardinality(Awake(op)) - 1
  <2>1. IsFiniteSet(Awake(op)) /\ Cardinality(Awake(op)) \in Nat
    BY FiniteSleepers
  <2>2. Cardinality(Awake(op) \ {t}) =
           IF t \in Awake(op) THEN Cardinality(Awake(op)) - 1 ELSE Cardinality(Awake(op))
    BY <2>1, FS_RemoveElement
  <2> QED
    BY <2>1, <2>2
<1>4. Cardinality(Awake(op) \ {t}) \in Nat
  BY FiniteSleepers, FS_RemoveElement, FS_CardinalityType, FS_Subset
<1> QED
  BY <1>1, <1>2, <1>3, <1>4, FiniteSleepers, FS_Subset

----------------------------------------------------------------------------
LEMMA InitWakened == Init => NoLostWakeup
  BY DEF Init, NoLostWakeup, ReceiversWakened, SendersWakened, ClosedWakened, Asleep

\* After close nobody sleeps: a wait only starts on an open channel.
LEMMA NextClosedWakened ==
  ASSUME TypeOK, ClosedWakened, [Next]_vars
  PROVE  ClosedWakened'
<1> USE DEF ClosedWakened
<1>1. CASE ChannelInit
  BY <1>1 DEF ChannelInit
<1>2. CASE Close
  BY <1>2 DEF Close, TypeOK, ThreadTypes
<1>3. CASE ChannelDeinit
  BY <1>3 DEF ChannelDeinit, threadVars
<1>4. ASSUME NEW t \in Threads, CallSend(t) \/ CallReceive(t)
      PROVE  ClosedWakened'
  BY <1>4 DEF CallSend, CallReceive, Begin, chanVars, TypeOK, ThreadTypes
<1>5. ASSUME NEW t \in Threads, CallRejected(t) \/ Expire(t) \/ WaitTimesOut(t) \/ SpuriousWakeup(t)
      PROVE  ClosedWakened'
  BY <1>5 DEF CallRejected, Expire, WaitTimesOut, SpuriousWakeup, chanVars, TypeOK, ThreadTypes
<1>6. ASSUME NEW t \in Threads, Step(t)
      PROVE  ClosedWakened'
  <2>1. closed' = closed
    BY <1>6 DEF Step, SendWait, SendClosed, SendBuffered, SendRendezvous, ReceiveWait,
       ReceiveClosed, ReceiveBuffered, Taken, RendezvousWait, RendezvousClosed, ReceiveRendezvous,
       TimedOut, chanVars
  <2>2. ASSUME NEW W, NEW status, Return(t, status, W)
        PROVE  \A u \in Threads : pc'[u] = "asleep" => pc[u] = "asleep"
    BY <2>2 DEF Return, Release
  <2>3. CASE SendWait(t) \/ ReceiveWait(t) \/ RendezvousWait(t)
    <3>1. ~closed
      BY <2>3 DEF SendWait, SendBlocked, ReceiveWait, RendezvousWait
    <3> QED
      BY <2>1, <3>1
  <2>4. CASE ~(SendWait(t) \/ ReceiveWait(t) \/ RendezvousWait(t))
    <3>1. \E W, status : Return(t, status, W)
      BY <1>6, <2>4 DEF Step, SendClosed, SendBuffered, SendRendezvous, Accept, CanSend,
         Position, ReceiveClosed,
         ReceiveBuffered, Taken, RendezvousClosed, ReceiveRendezvous, TimedOut
    <3> QED
      BY <2>1, <2>2, <3>1
  <2> QED
    BY <2>3, <2>4
<1>7. CASE UNCHANGED vars
  BY <1>7 DEF vars
<1> QED
  BY <1>1, <1>2, <1>3, <1>4, <1>5, <1>6, <1>7 DEF Next

\* A step outside the critical sections of the operations wakes nobody up who
\* then does not count as awake, and lets nobody fall asleep.
LEMMA OutsideWakes ==
  ASSUME TypeOK, NEW op,
         \/ ChannelInit \/ Close \/ ChannelDeinit \/ UNCHANGED vars
         \/ \E t \in Threads : \/ CallSend(t) \/ CallReceive(t) \/ CallRejected(t)
                               \/ Expire(t) \/ WaitTimesOut(t) \/ SpuriousWakeup(t)
  PROVE  /\ Asleep(op)' \subseteq Asleep(op)
         /\ Cardinality(Awake(op)') >= Cardinality(Awake(op))
         /\ Awake(op) \subseteq Awake(op)'
<1>1. Asleep(op)' \subseteq Asleep(op) /\ Awake(op) \subseteq Awake(op)'
  <2>1. CASE ChannelInit \/ Close \/ ChannelDeinit \/ UNCHANGED vars
    BY <2>1 DEF ChannelInit, Close, ChannelDeinit, vars, threadVars, Asleep, Awake, TypeOK,
       ThreadTypes
  <2>2. ASSUME NEW t \in Threads, CallSend(t) \/ CallReceive(t) \/ CallRejected(t)
        PROVE  Asleep(op)' \subseteq Asleep(op) /\ Awake(op) \subseteq Awake(op)'
    BY <2>2 DEF CallSend, CallReceive, CallRejected, Begin, Asleep, Awake, TypeOK, ThreadTypes
  <2>3. ASSUME NEW t \in Threads, Expire(t) \/ WaitTimesOut(t) \/ SpuriousWakeup(t)
        PROVE  Asleep(op)' \subseteq Asleep(op) /\ Awake(op) \subseteq Awake(op)'
    <3>1. \A u \in Threads : call'[u].op = call[u].op
      BY <2>3 DEF Expire, WaitTimesOut, SpuriousWakeup, TypeOK, ThreadTypes, Calls
    <3>2. \A u \in Threads : /\ pc'[u] = "asleep" => pc[u] = "asleep"
                             /\ pc[u] = "awake" => pc'[u] = "awake"
      BY <2>3 DEF Expire, WaitTimesOut, SpuriousWakeup, TypeOK, ThreadTypes
    <3> QED
      BY <3>1, <3>2 DEF Asleep, Awake
  <2> QED
    BY <2>1, <2>2, <2>3
<1>2. IsFiniteSet(Threads)
  BY FS_Union, ChannelAssumption DEF ChannelAssumption, Threads
<1>3. IsFiniteSet(Awake(op)')
  <2>1. Awake(op)' \subseteq Threads
    BY DEF Awake
  <2> QED
    BY <1>2, <2>1, FS_Subset
<1> QED
  BY <1>1, <1>3, FS_Subset

\* Such a step puts no value into the channel and takes none out, except that
\* lor_channel_init_raw starts with none.
LEMMA OutsideHolds ==
  ASSUME \/ Close \/ ChannelDeinit \/ UNCHANGED vars
         \/ \E t \in Threads : \/ CallSend(t) \/ CallReceive(t) \/ CallRejected(t)
                               \/ Expire(t) \/ WaitTimesOut(t) \/ SpuriousWakeup(t)
  PROVE  UNCHANGED <<Held, count, slot_full, waiting_receivers>>
  BY DEF Close, ChannelDeinit, vars, CallSend, CallReceive, CallRejected, Begin, Expire,
     WaitTimesOut, SpuriousWakeup, chanVars, Held

\* A receive on a rendezvous channel that does not wait returns and wakes only
\* senders that sleep, by its arrival or by what it took.
LEMMA RendezvousReturns ==
  ASSUME NEW t \in Threads, ReceiveRendezvous(t) \/ RendezvousClosed(t)
  PROVE  \E W : /\ Return(t, "OK", W) \/ Return(t, "CLOSED", W)
                /\ \A u \in W : pc[u] = "asleep"
<1>1. ASSUME NEW W \in ArrivalSignal(t)
      PROVE  \A u \in W : pc[u] = "asleep"
  BY SignalWakesWaiting DEF ArrivalSignal, Asleep
<1>2. CASE RendezvousClosed(t)
  BY <1>1, <1>2 DEF RendezvousClosed
<1>3. CASE ReceiveRendezvous(t)
  <2>1. PICK W1 \in ArrivalSignal(t) : \E W2 \in Signal(Asleep("send") \ W1) :
           Return(t, "OK", W1 \cup W2)
    BY <1>3 DEF ReceiveRendezvous
  <2>2. PICK W2 \in Signal(Asleep("send") \ W1) : Return(t, "OK", W1 \cup W2)
    BY <2>1
  <2>3. \A u \in W1 \cup W2 : pc[u] = "asleep"
    BY <1>1, SignalWakesWaiting DEF Asleep
  <2> QED
    BY <2>2, <2>3
<1> QED
  BY <1>2, <1>3

\* Receivers: every value that goes in signals one.
LEMMA NextReceiversWakened ==
  ASSUME TypeOK, ReceiversWakened, [Next]_vars
  PROVE  ReceiversWakened'
<1> USE DEF ReceiversWakened
<1> DEFINE op == "receive"
<1>a. /\ Cardinality(Awake(op)) \in Nat
      /\ Held \in Nat
  BY FiniteSleepers, ChannelAssumption DEF ChannelAssumption, Held, TypeOK, FieldTypes
<1>b. Cardinality(Awake(op)') \in Nat
  <2>1. IsFiniteSet(Threads) /\ Awake(op)' \subseteq Threads
    BY FS_Union, ChannelAssumption DEF ChannelAssumption, Threads, Awake
  <2> QED
    BY <2>1, FS_Subset, FS_CardinalityType
<1>1. CASE ChannelInit
  BY <1>1, ChannelAssumption, <1>b DEF ChannelInit, Held, ChannelAssumption
<1>2. CASE \/ Close \/ ChannelDeinit \/ UNCHANGED vars
           \/ \E t \in Threads : \/ CallSend(t) \/ CallReceive(t) \/ CallRejected(t)
                                 \/ Expire(t) \/ WaitTimesOut(t) \/ SpuriousWakeup(t)
  <2>1. Held' = Held
    BY <1>2, OutsideHolds
  <2>2. /\ Asleep(op)' \subseteq Asleep(op)
        /\ Cardinality(Awake(op)') >= Cardinality(Awake(op))
    BY <1>2, OutsideWakes
  <2> QED
    BY <1>a, <1>b, <2>1, <2>2
<1>3. ASSUME NEW t \in Threads, SendBuffered(t) \/ SendRendezvous(t)
      PROVE  ReceiversWakened'
  <2>1. /\ pc[t] # "asleep" /\ call[t].op # op
        /\ \E W \in Signal(Asleep(op)) : Return(t, "OK", W)
    BY <1>3 DEF SendBuffered, SendRendezvous, Accept, CanSend, Position, Running
  <2>2. Held' = Held + 1
    BY <1>3, ChannelAssumption
       DEF SendBuffered, SendRendezvous, CanSend, SendBlocked, Held, ChannelAssumption
  <2>3. \/ Asleep(op)' = {}
        \/ Asleep(op) # {} /\ Cardinality(Awake(op)') = Cardinality(Awake(op)) + 1
    BY <2>1, SignalCounts DEF TypeOK
  <2> QED
    BY <1>a, <2>2, <2>3
<1>4. ASSUME NEW t \in Threads, NEW W, NEW status, pc[t] # "asleep", Return(t, status, W),
             \A u \in W : pc[u] = "asleep",
             (Held' = Held /\ call[t].op # op) \/ Held' = Held - 1 \/ Held' = 0
      PROVE  ReceiversWakened'
  <2>1. /\ Asleep(op)' \subseteq Asleep(op)
        /\ Cardinality(Awake(op)') >= Cardinality(Awake(op)) - 1
        /\ call[t].op # op => Cardinality(Awake(op)') >= Cardinality(Awake(op))
    BY <1>4, ReturnCounts DEF TypeOK
  <2> QED
    BY <1>4, <1>a, <1>b, <2>1
<1>5. ASSUME NEW t \in Threads, ReceiveBuffered(t)
      PROVE  ReceiversWakened'
  <2>1. PICK W \in Signal(Asleep("send")) : Return(t, "OK", W)
    BY <1>5 DEF ReceiveBuffered, Taken
  <2>2. \A u \in W : pc[u] = "asleep"
    BY SignalWakesWaiting DEF Asleep
  <2>3. Held' = Held - 1 /\ pc[t] # "asleep"
    BY <1>5, ChannelAssumption DEF ReceiveBuffered, Taken, Running, Held, ChannelAssumption
  <2> QED
    BY <1>4, <2>1, <2>2, <2>3
<1>6. ASSUME NEW t \in Threads, ReceiveRendezvous(t) \/ RendezvousClosed(t)
      PROVE  ReceiversWakened'
  <2>1. PICK W : /\ Return(t, "OK", W) \/ Return(t, "CLOSED", W)
                 /\ \A u \in W : pc[u] = "asleep"
    BY <1>6, RendezvousReturns
  <2>2. Held' = 0 /\ pc[t] # "asleep"
    BY <1>6 DEF ReceiveRendezvous, RendezvousClosed, Running, Held
  <2> QED
    BY <1>4, <2>1, <2>2
<1>7. ASSUME NEW t \in Threads, ReceiveClosed(t) \/ ReceiveWait(t) \/ RendezvousWait(t)
      PROVE  ReceiversWakened'
  <2>1. Held' = 0
    BY <1>7, ChannelAssumption
       DEF ReceiveClosed, ReceiveWait, RendezvousWait, chanVars, Held, ChannelAssumption
  <2> QED
    BY <1>b, <2>1
<1>8. ASSUME NEW t \in Threads, SendClosed(t) \/ SendWait(t) \/ TimedOut(t)
      PROVE  ReceiversWakened'
  <2>1. Held' = Held
    BY <1>8 DEF SendClosed, SendWait, TimedOut, chanVars, Held
  <2>2. /\ Asleep(op)' \subseteq Asleep(op)
        /\ Awake(op)' = Awake(op)
    BY <1>8 DEF SendClosed, SendWait, TimedOut, Running, Sleep, GiveUp, Return, Release, Asleep,
       Awake, TypeOK, ThreadTypes, NoCall
  <2> QED
    BY <2>1, <2>2
<1> QED
  BY <1>1, <1>2, <1>3, <1>5, <1>6, <1>7, <1>8 DEF Next, Step

\* Senders on a buffer: every slot that becomes free signals one.
LEMMA NextSendersBuffered ==
  ASSUME TypeOK, SendersWakened, ClosedWakened, [Next]_vars, Capacity > 0
  PROVE  SendersWakened'
<1> DEFINE op == "send"
           Free == Capacity - count
<1>a. /\ Cardinality(Awake(op)) \in Nat
      /\ count \in 0 .. Capacity /\ Capacity \in Nat
  BY FiniteSleepers, ChannelAssumption DEF ChannelAssumption, TypeOK, FieldTypes
<1>b. Cardinality(Awake(op)') \in Nat
  <2>1. IsFiniteSet(Threads) /\ Awake(op)' \subseteq Threads
    BY FS_Union, ChannelAssumption DEF ChannelAssumption, Threads, Awake
  <2> QED
    BY <2>1, FS_Subset, FS_CardinalityType
<1>c. /\ Asleep(op) # {} => Cardinality(Awake(op)) >= Free
      /\ (Asleep(op)' # {} => Cardinality(Awake(op)') >= Free') => SendersWakened'
  BY <1>a DEF SendersWakened
<1> HIDE DEF Free
<1>d. count' = count => Free' = Free
  BY DEF Free
<1>1. CASE ChannelInit
  BY <1>1, <1>c DEF ChannelInit, Asleep, TypeOK, ThreadTypes, threadVars
<1>2. CASE \/ Close \/ ChannelDeinit \/ UNCHANGED vars
           \/ \E t \in Threads : \/ CallSend(t) \/ CallReceive(t) \/ CallRejected(t)
                                 \/ Expire(t) \/ WaitTimesOut(t) \/ SpuriousWakeup(t)
  <2>1. Free' = Free
    BY <1>2, <1>d, OutsideHolds
  <2>2. /\ Asleep(op)' \subseteq Asleep(op)
        /\ Cardinality(Awake(op)') >= Cardinality(Awake(op))
    BY <1>2, OutsideWakes
  <2> QED
    BY <1>a, <1>b, <1>c, <2>1, <2>2 DEF Free
<1>3. ASSUME NEW t \in Threads, ReceiveBuffered(t)
      PROVE  SendersWakened'
  <2>1. /\ pc[t] # "asleep" /\ call[t].op # op
        /\ \E W \in Signal(Asleep(op)) : Return(t, "OK", W)
    BY <1>3 DEF ReceiveBuffered, Taken, Running
  <2>2. Free' = Free + 1
    BY <1>3, <1>a DEF ReceiveBuffered, Taken, Free
  <2>3. \/ Asleep(op)' = {}
        \/ Asleep(op) # {} /\ Cardinality(Awake(op)') = Cardinality(Awake(op)) + 1
    BY <2>1, SignalCounts DEF TypeOK
  <2> QED
    BY <1>a, <1>c, <2>2, <2>3 DEF Free
<1>4. ASSUME NEW t \in Threads, SendBuffered(t)
      PROVE  SendersWakened'
  <2>1. PICK W \in Signal(Asleep("receive")) : Return(t, "OK", W)
    BY <1>4 DEF SendBuffered, Accept, CanSend, Position
  <2>2. \A u \in W : pc[u] = "asleep"
    BY SignalWakesWaiting DEF Asleep
  <2>3. Free' = Free - 1 /\ pc[t] # "asleep"
    BY <1>4, <1>a DEF SendBuffered, Running, Free
  <2>4. /\ Asleep(op)' \subseteq Asleep(op)
        /\ Cardinality(Awake(op)') >= Cardinality(Awake(op)) - 1
    BY <2>1, <2>2, <2>3, ReturnCounts DEF TypeOK
  <2> QED
    BY <1>a, <1>b, <1>c, <2>3, <2>4 DEF Free
<1>5. ASSUME NEW t \in Threads, SendWait(t)
      PROVE  SendersWakened'
  <2>1. Free' = 0
    BY <1>5, <1>a DEF SendWait, SendBlocked, chanVars, Free
  <2> QED
    BY <1>b, <1>c, <2>1
<1>6. ASSUME NEW t \in Threads, SendClosed(t)
      PROVE  SendersWakened'
  <2>1. Asleep(op)' = {}
    BY <1>6 DEF SendClosed, ClosedWakened, Return, Release, Asleep, TypeOK, ThreadTypes
  <2> QED
    BY <1>c, <2>1
<1>7. ASSUME NEW t \in Threads, ReceiveClosed(t) \/ ReceiveWait(t) \/ TimedOut(t)
      PROVE  SendersWakened'
  <2>1. Free' = Free
    BY <1>7, <1>d DEF ReceiveClosed, ReceiveWait, TimedOut, chanVars
  <2>2. /\ Asleep(op)' \subseteq Asleep(op)
        /\ Awake(op)' = Awake(op)
    BY <1>7 DEF ReceiveClosed, ReceiveWait, TimedOut, Running, Sleep, GiveUp, Return, Release,
       Asleep, Awake, TypeOK, ThreadTypes, NoCall
  <2> QED
    BY <1>c, <2>1, <2>2
<1>8. \A t \in Threads : /\ ~SendRendezvous(t) /\ ~ReceiveRendezvous(t)
                         /\ ~RendezvousWait(t) /\ ~RendezvousClosed(t)
  BY <1>a DEF SendRendezvous, ReceiveRendezvous, RendezvousWait, RendezvousClosed
<1> QED
  BY <1>1, <1>2, <1>3, <1>4, <1>5, <1>6, <1>7, <1>8 DEF Next, Step

\* Senders on a rendezvous channel: a receiver that arrives signals one, and
\* so does a receiver that empties the slot.
LEMMA NextSendersRendezvous ==
  ASSUME TypeOK, SendersWakened, ClosedWakened, [Next]_vars, Capacity = 0
  PROVE  SendersWakened'
<1> DEFINE op == "send"
           Met == waiting_receivers > 0 /\ ~slot_full
<1>a. /\ Asleep(op) # {} /\ Met => Awake(op) # {}
      /\ (Asleep(op)' # {} /\ Met' => Awake(op)' # {}) => SendersWakened'
      /\ waiting_receivers \in Int
  BY DEF SendersWakened, TypeOK, FieldTypes
<1>1. CASE ChannelInit
  BY <1>1, <1>a DEF ChannelInit
<1>2. CASE \/ Close \/ ChannelDeinit \/ UNCHANGED vars
           \/ \E t \in Threads : \/ CallSend(t) \/ CallReceive(t) \/ CallRejected(t)
                                 \/ Expire(t) \/ WaitTimesOut(t) \/ SpuriousWakeup(t)
  <2>1. Met' = Met
    BY <1>2, OutsideHolds
  <2>2. Asleep(op)' \subseteq Asleep(op) /\ Awake(op) \subseteq Awake(op)'
    BY <1>2, OutsideWakes
  <2> QED
    BY <1>a, <2>1, <2>2
<1>3. ASSUME NEW t \in Threads, SendRendezvous(t) \/ SendWait(t)
      PROVE  SendersWakened'
  <2>1. ~Met'
    BY <1>3, <1>a DEF SendRendezvous, SendWait, SendBlocked, chanVars
  <2> QED
    BY <1>a, <2>1
<1>4. ASSUME NEW t \in Threads, SendClosed(t) \/ RendezvousClosed(t)
      PROVE  SendersWakened'
  <2>1. closed /\ \E W : Return(t, "CLOSED", W)
    BY <1>4 DEF SendClosed, RendezvousClosed
  <2>2. Asleep(op)' = {}
    BY <2>1 DEF ClosedWakened, Return, Release, Asleep, TypeOK, ThreadTypes
  <2> QED
    BY <1>a, <2>2
\* A signal that leaves a sender asleep has woken another one.
<1>5. ASSUME NEW t \in Threads, NEW V, NEW W \in Signal(Asleep(op) \ V),
             Release(t, "idle", V \cup W) \/ Release(t, "asleep", V \cup W),
             \A u \in Threads \ {t} : call'[u] = call[u],
             call[t].op = "receive", call'[t].op # op, Running(t, "receive")
      PROVE  Asleep(op)' # {} => Awake(op)' # {}
  <2>1. CASE Asleep(op) \ V = {}
    BY <1>5, <2>1 DEF Release, Asleep, TypeOK, ThreadTypes
  <2>2. CASE Asleep(op) \ V # {}
    <3>1. PICK u \in Asleep(op) \ V : W = {u}
      BY <2>2 DEF Signal
    <3>2. u \in Threads /\ u # t /\ pc'[u] = "awake" /\ call'[u].op = op
      BY <1>5, <3>1 DEF Release, Asleep, TypeOK, ThreadTypes, Running
    <3> QED
      BY <3>2 DEF Awake
  <2> QED
    BY <2>1, <2>2
<1>6. ASSUME NEW t \in Threads, ReceiveRendezvous(t)
      PROVE  SendersWakened'
  <2>1. PICK V \in ArrivalSignal(t) : \E W \in Signal(Asleep(op) \ V) : Return(t, "OK", V \cup W)
    BY <1>6 DEF ReceiveRendezvous
  <2>2. PICK W \in Signal(Asleep(op) \ V) : Return(t, "OK", V \cup W)
    BY <2>1
  <2>3. /\ Release(t, "idle", V \cup W)
        /\ \A u \in Threads \ {t} : call'[u] = call[u]
        /\ call'[t].op # op /\ call[t].op = "receive" /\ Running(t, "receive")
    BY <1>6, <2>2 DEF Return, ReceiveRendezvous, Running, NoCall, TypeOK, ThreadTypes
  <2> QED
    BY <1>a, <1>5, <2>3
<1>7. ASSUME NEW t \in Threads, RendezvousWait(t)
      PROVE  SendersWakened'
  <2>1. PICK W \in ArrivalSignal(t) :
           \/ Sleep(t, W) /\ waiting_receivers' = waiting_receivers + Arrival(t)
           \/ GiveUp(t, W) /\ waiting_receivers' = ReceiversWithout(t)
    BY <1>7 DEF RendezvousWait
  <2>2. /\ Release(t, "asleep", W) \/ Release(t, "idle", W)
        /\ \A u \in Threads \ {t} : call'[u] = call[u]
        /\ call'[t].op # op /\ call[t].op = "receive" /\ Running(t, "receive")
        /\ slot_full' = slot_full
    BY <1>7, <2>1
       DEF Sleep, GiveUp, Return, RendezvousWait, Running, NoCall, TypeOK, ThreadTypes
  <2>3. CASE pc[t] = "enter"
    <3>1. W \in Signal(Asleep(op) \ {}) /\ W = {} \cup W
      BY <2>3 DEF ArrivalSignal
    <3> QED
      BY <1>a, <1>5, <2>2, <3>1
  <2>4. CASE pc[t] # "enter"
    <3>1. W = {} /\ waiting_receivers' <= waiting_receivers
      BY <1>a, <2>1, <2>4 DEF ArrivalSignal, Arrival, ReceiversWithout
    <3>2. Asleep(op)' \subseteq Asleep(op) /\ Awake(op) \subseteq Awake(op)'
      BY <2>2, <3>1 DEF Release, Asleep, Awake, TypeOK, ThreadTypes
    <3>3. waiting_receivers' \in Int
      BY <1>a, <2>1 DEF Arrival, ReceiversWithout
    <3>4. Met' => Met
      BY <1>a, <2>2, <3>1, <3>3
    <3> QED
      BY <1>a, <3>2, <3>4
  <2> QED
    BY <2>3, <2>4
<1>8. ASSUME NEW t \in Threads, TimedOut(t)
      PROVE  SendersWakened'
  <2>1. waiting_receivers' \in {waiting_receivers, waiting_receivers - 1} /\ slot_full' = slot_full
    BY <1>8 DEF TimedOut
  <2>2. Asleep(op)' \subseteq Asleep(op) /\ Awake(op) \subseteq Awake(op)'
    BY <1>8 DEF TimedOut, Return, Release, Asleep, Awake, TypeOK, ThreadTypes, NoCall
  <2>3. Met' => Met
    BY <1>a, <2>1
  <2> QED
    BY <1>a, <2>2, <2>3
<1>9. \A t \in Threads : /\ ~SendBuffered(t) /\ ~ReceiveBuffered(t)
                         /\ ~ReceiveWait(t) /\ ~ReceiveClosed(t)
  BY DEF SendBuffered, ReceiveBuffered, Taken, ReceiveWait, ReceiveClosed
<1> QED
  BY <1>1, <1>2, <1>3, <1>4, <1>6, <1>7, <1>8, <1>9 DEF Next, Step

LEMMA NextWakened == TypeOK /\ NoLostWakeup /\ [Next]_vars => NoLostWakeup'
<1>1. Capacity = 0 \/ Capacity > 0
  BY ChannelAssumption DEF ChannelAssumption
<1> QED
  BY <1>1, NextReceiversWakened, NextSendersBuffered, NextSendersRendezvous, NextClosedWakened
     DEF NoLostWakeup

\* Whenever threads sleep although the channel could serve some of them, as
\* many have been woken, for every capacity and every set of threads.
THEOREM ChannelNoLostWakeup == Spec => []NoLostWakeup
  BY InitWakened, NextWakened, ChannelTypes, PTL DEF Spec

----------------------------------------------------------------------------
(* The receivers a rendezvous channel counts are those that are inside.     *)

LEMMA FiniteReceivers == IsFiniteSet(ReceiversInside)
<1>1. IsFiniteSet(Threads)
  BY FS_Union, ChannelAssumption DEF ChannelAssumption, Threads
<1>2. ReceiversInside \subseteq Threads
  BY DEF ReceiversInside
<1> QED
  BY <1>1, <1>2, FS_Subset

\* Who returns is no longer inside, who falls asleep is, and to be woken does
\* not change that.
LEMMA ReturnLeaves ==
  ASSUME ThreadTypes, NEW t \in Threads, NEW status, NEW W, Return(t, status, W),
         \A u \in W : pc[u] = "asleep"
  PROVE  ReceiversInside' = ReceiversInside \ {t}
  BY DEF ThreadTypes, Return, Release, ReceiversInside, NoCall

LEMMA SleepEnters ==
  ASSUME ThreadTypes, NEW t \in Threads, NEW W, Sleep(t, W), call[t].op = "receive",
         \A u \in W : pc[u] = "asleep"
  PROVE  ReceiversInside' = ReceiversInside \cup {t}
  BY DEF ThreadTypes, Sleep, Release, ReceiversInside

\* Between its arrival and its return or sleep a receiver has counted itself.
LEMMA ReceiverCountsItself ==
  ASSUME TypeOK, Capacity = 0, ReceiversCounted, NEW t \in Threads, Running(t, "receive")
  PROVE  waiting_receivers + Arrival(t) = Cardinality(ReceiversInside \cup {t})
<1>1. t \in ReceiversInside <=> pc[t] # "enter"
  BY DEF Running, ReceiversInside
<1>2. Cardinality(ReceiversInside) \in Nat
  BY FiniteReceivers, FS_CardinalityType
<1>3. Cardinality(ReceiversInside \cup {t}) =
         IF t \in ReceiversInside THEN Cardinality(ReceiversInside)
         ELSE Cardinality(ReceiversInside) + 1
  BY FiniteReceivers, FS_AddElement
<1>4. waiting_receivers = Cardinality(ReceiversInside)
  BY DEF ReceiversCounted
<1> QED
  BY <1>1, <1>2, <1>3, <1>4 DEF Arrival

\* A receiver that was counted and returns is taken off the count.
LEMMA ReceiverTakenOff ==
  ASSUME NEW t
  PROVE  Cardinality(ReceiversInside \ {t}) = Cardinality(ReceiversInside \cup {t}) - 1
<1>1. IsFiniteSet(ReceiversInside \cup {t})
  BY FiniteReceivers, FS_AddElement
<1>2. (ReceiversInside \cup {t}) \ {t} = ReceiversInside \ {t}
  OBVIOUS
<1> QED
  BY <1>1, <1>2, FS_RemoveElement

LEMMA ArrivalWakes ==
  ASSUME NEW t, NEW W \in ArrivalSignal(t)
  PROVE  \A u \in W : pc[u] = "asleep"
  BY SignalWakesWaiting DEF ArrivalSignal, Asleep

\* A receive on a rendezvous channel keeps the count exact, however it goes on.
LEMMA ReceiveCounts ==
  ASSUME TypeOK, Capacity = 0, ReceiversCounted, NEW t \in Threads,
         RendezvousWait(t) \/ RendezvousClosed(t) \/ ReceiveRendezvous(t)
  PROVE  waiting_receivers' = Cardinality(ReceiversInside')
<1> USE DEF TypeOK
<1>1. /\ Running(t, "receive") /\ call[t].op = "receive"
      /\ waiting_receivers + Arrival(t) = Cardinality(ReceiversInside \cup {t})
  BY ReceiverCountsItself DEF RendezvousWait, RendezvousClosed, ReceiveRendezvous, Running
<1>2. ReceiversWithout(t) = Cardinality(ReceiversInside \ {t})
  <2>1. Cardinality(ReceiversInside \ {t}) = Cardinality(ReceiversInside \cup {t}) - 1
    BY ReceiverTakenOff
  <2>2. waiting_receivers \in Int /\ Arrival(t) \in Int
    BY DEF FieldTypes, Arrival
  <2> HIDE DEF TypeOK
  <2> QED
    BY <1>1, <2>1, <2>2 DEF ReceiversWithout
<1>3. CASE RendezvousWait(t)
  <2>1. PICK W \in ArrivalSignal(t) :
           \/ Sleep(t, W) /\ waiting_receivers' = waiting_receivers + Arrival(t)
           \/ GiveUp(t, W) /\ waiting_receivers' = ReceiversWithout(t)
    BY <1>3 DEF RendezvousWait
  <2>2. \A u \in W : pc[u] = "asleep"
    BY ArrivalWakes
  <2>3. CASE Sleep(t, W) /\ waiting_receivers' = waiting_receivers + Arrival(t)
    BY <1>1, <2>2, <2>3, SleepEnters
  <2>4. CASE GiveUp(t, W) /\ waiting_receivers' = ReceiversWithout(t)
    BY <1>2, <2>2, <2>4, ReturnLeaves DEF GiveUp
  <2> QED
    BY <2>1, <2>3, <2>4
<1>4. CASE RendezvousClosed(t) \/ ReceiveRendezvous(t)
  <2>1. PICK W : /\ Return(t, "OK", W) \/ Return(t, "CLOSED", W)
                 /\ \A u \in W : pc[u] = "asleep"
    BY <1>4, RendezvousReturns
  <2>2. ReceiversInside' = ReceiversInside \ {t}
    BY <2>1, ReturnLeaves
  <2>3. waiting_receivers' = ReceiversWithout(t)
    BY <1>4 DEF RendezvousClosed, ReceiveRendezvous
  <2> QED
    BY <1>2, <2>2, <2>3
<1> QED
  BY <1>3, <1>4

\* Nobody is inside a channel that is initialized again, and only receivers count.
LEMMA OthersCount ==
  ASSUME TypeOK, Capacity = 0, ReceiversCounted,
         \/ ChannelInit \/ Close \/ ChannelDeinit \/ UNCHANGED vars
         \/ \E t \in Threads : \/ CallSend(t) \/ CallReceive(t) \/ CallRejected(t)
                               \/ Expire(t) \/ WaitTimesOut(t) \/ SpuriousWakeup(t)
  PROVE  waiting_receivers' = Cardinality(ReceiversInside')
<1> USE DEF TypeOK, ThreadTypes, ReceiversCounted
<1>1. CASE ChannelInit
  <2>1. ReceiversInside' = {}
    BY <1>1 DEF ChannelInit, threadVars, ReceiversInside
  <2> QED
    BY <1>1, <2>1, FS_EmptySet DEF ChannelInit
<1>2. CASE Close \/ ChannelDeinit \/ UNCHANGED vars
  <2>1. waiting_receivers' = waiting_receivers /\ ReceiversInside' = ReceiversInside
    BY <1>2 DEF Close, ChannelDeinit, vars, threadVars, ReceiversInside
  <2> QED
    BY <2>1
<1>3. ASSUME NEW t \in Threads, CallSend(t) \/ CallReceive(t) \/ CallRejected(t)
      PROVE  waiting_receivers' = Cardinality(ReceiversInside')
  <2>1. waiting_receivers' = waiting_receivers /\ ReceiversInside' = ReceiversInside
    BY <1>3 DEF CallSend, CallReceive, CallRejected, Begin, chanVars, ReceiversInside
  <2> QED
    BY <2>1
<1>4. ASSUME NEW t \in Threads, Expire(t) \/ WaitTimesOut(t) \/ SpuriousWakeup(t)
      PROVE  waiting_receivers' = Cardinality(ReceiversInside')
  <2>1. \A u \in Threads : /\ call'[u].op = call[u].op
                           /\ pc'[u] = "enter" <=> pc[u] = "enter"
    BY <1>4 DEF Expire, WaitTimesOut, SpuriousWakeup, Calls
  <2>2. waiting_receivers' = waiting_receivers /\ ReceiversInside' = ReceiversInside
    BY <1>4, <2>1 DEF Expire, WaitTimesOut, SpuriousWakeup, chanVars, ReceiversInside
  <2> QED
    BY <2>2
<1> QED
  BY <1>1, <1>2, <1>3, <1>4

LEMMA NextCounted == TypeOK /\ ReceiversCounted /\ [Next]_vars => ReceiversCounted'
<1> SUFFICES ASSUME TypeOK, ReceiversCounted, [Next]_vars, Capacity = 0
             PROVE  waiting_receivers' = Cardinality(ReceiversInside')
  BY DEF ReceiversCounted
<1>1. ASSUME NEW t \in Threads, Step(t)
      PROVE  waiting_receivers' = Cardinality(ReceiversInside')
  <2>1. CASE RendezvousWait(t) \/ RendezvousClosed(t) \/ ReceiveRendezvous(t)
    BY <2>1, ReceiveCounts
  <2>2. CASE SendWait(t) \/ SendClosed(t) \/ SendBuffered(t) \/ SendRendezvous(t)
    <3>0. ASSUME NEW W \in Signal(Asleep("receive"))
          PROVE  \A u \in W : pc[u] = "asleep"
      BY SignalWakesWaiting DEF Asleep
    <3>1. waiting_receivers' = waiting_receivers /\ call[t].op = "send"
      BY <2>2 DEF SendWait, SendClosed, SendBuffered, SendRendezvous, Running, chanVars
    <3>2. \/ \E status, W : Return(t, status, W) /\ \A u \in W : pc[u] = "asleep"
          \/ Sleep(t, {})
      BY <2>2, <3>0 DEF SendWait, SendClosed, SendBuffered, SendRendezvous, Accept, GiveUp
    <3>3. CASE \E status, W : Return(t, status, W) /\ \A u \in W : pc[u] = "asleep"
      <4>1. ReceiversInside' = ReceiversInside \ {t}
        BY <3>3, ReturnLeaves DEF TypeOK
      <4> QED
        BY <3>1, <4>1 DEF ReceiversInside, ReceiversCounted
    <3>4. CASE Sleep(t, {})
      <4>1. ReceiversInside' = ReceiversInside
        BY <3>1, <3>4 DEF Sleep, Release, ReceiversInside, TypeOK, ThreadTypes
      <4> QED
        BY <3>1, <4>1 DEF ReceiversCounted
    <3> QED
      BY <3>2, <3>3, <3>4
  <2>3. CASE TimedOut(t)
    <3>1. ReceiversInside' = ReceiversInside \ {t}
      BY <2>3, ReturnLeaves DEF TimedOut, TypeOK
    <3>2. t \in ReceiversInside <=> call[t].op = "receive"
      BY <2>3 DEF TimedOut, ReceiversInside
    <3>3. Cardinality(ReceiversInside \ {t}) =
             IF t \in ReceiversInside THEN Cardinality(ReceiversInside) - 1
             ELSE Cardinality(ReceiversInside)
      BY FiniteReceivers, FS_RemoveElement
    <3> QED
      BY <2>3, <3>1, <3>2, <3>3 DEF TimedOut, ReceiversCounted
  <2>4. CASE ReceiveWait(t) \/ ReceiveClosed(t) \/ ReceiveBuffered(t)
    BY <2>4 DEF ReceiveWait, ReceiveClosed, ReceiveBuffered
  <2> QED
    BY <1>1, <2>1, <2>2, <2>3, <2>4 DEF Step
<1> QED
  BY <1>1, OthersCount DEF Next

\* waiting_receivers is exact on every rendezvous channel, whichever way receivers
\* leave and whatever the other threads do.
THEOREM ChannelReceiversCounted == Spec => []ReceiversCounted
<1>1. Init => ReceiversCounted
  <2>1. Init => ReceiversInside = {}
    BY DEF Init, ReceiversInside, NoCall
  <2> QED
    BY <2>1, FS_EmptySet DEF Init, ReceiversCounted
<1> QED
  BY <1>1, NextCounted, ChannelTypes, PTL DEF Spec
=============================================================================

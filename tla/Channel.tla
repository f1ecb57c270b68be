------------------------------ MODULE Channel ------------------------------
(***************************************************************************)
(* The LorChannel of src/concurrency.c: a fixed-capacity FIFO of copied    *)
(* values (Capacity > 0) or a rendezvous slot (Capacity = 0), protected by *)
(* one mutex and two condition variables, can_send and can_receive.        *)
(*                                                                         *)
(* Every access to the mutable state happens between lor_mutex_lock and    *)
(* the wait or unlock that follows, so one such critical section is one    *)
(* action.  The interesting interleavings are between critical sections:   *)
(* a signalled thread is no longer waiting but does not hold the mutex     *)
(* yet, another thread may get in first, a timed wait may end without a    *)
(* signal, and a wait may end for no reason.                               *)
(***************************************************************************)
EXTENDS Integers, Sequences, FiniteSets

CONSTANTS
    Senders,    \* the threads that may call lor_channel_send*
    Receivers,  \* the threads that may call lor_channel_receive*
    Capacity,   \* LorConcurrencyChannelImpl.capacity
    MaxSends    \* bound: number of send calls in one lifetime of the channel

ASSUME ChannelAssumption ==
    /\ IsFiniteSet(Senders) /\ IsFiniteSet(Receivers)
    /\ Capacity \in Nat
    /\ MaxSends \in Nat

VARIABLES
    live,               \* channel->impl # NULL
    buffer,             \* impl->buffer
    count,              \* impl->count
    first,              \* impl->first
    waiting_receivers,  \* impl->waiting_receivers
    slot_full,          \* impl->slot_full
    closed,             \* impl->closed
    pc,                 \* where each thread is with respect to the mutex
    call,               \* the operation each thread is inside of
    result,             \* the status its last operation returned
    sends,              \* history: send calls made, the next value to send
    accepted,           \* history: values of the sends that returned OK
    received            \* history: values handed out by receives

chanVars == <<live, buffer, count, first, waiting_receivers, slot_full, closed>>
threadVars == <<pc, call, result>>
history == <<sends, accepted, received>>
vars == <<live, buffer, count, first, waiting_receivers, slot_full, closed,
          pc, call, result, sends, accepted, received>>

Threads == Senders \cup Receivers

\* storage_count: a rendezvous channel owns one slot.
StorageCount == IF Capacity = 0 THEN 1 ELSE Capacity
Slots == 0 .. StorageCount - 1

\* The n-th send carries the value n; 0 stands for bytes never written.
Values == 1 .. MaxSends
Bytes == 0 .. MaxSends

\* "enter": about to lock; "asleep": in the wait set of a condition variable;
\* "awake": its wait returned LOR_STATUS_OK, about to test its loop condition
\* again; "timedout": its wait returned LOR_STATUS_TIMED_OUT, about to leave.
PCs == {"idle", "enter", "asleep", "awake", "timedout"}

\* LOR_DEADLINE_INFINITE, a deadline not reached yet, one that has passed.
Deadlines == {"infinite", "pending", "passed"}
Statuses == {"none", "OK", "CLOSED", "TIMED_OUT", "INVALID_ARGUMENT"}

NoCall == [op |-> "none", value |-> 0, deadline |-> "infinite"]
Calls == [op : {"none", "send", "receive"}, value : Bytes, deadline : Deadlines]

----------------------------------------------------------------------------
(* Wait sets and signals.                                                   *)

\* The threads waiting on can_send (op = "send") or can_receive ("receive").
Asleep(op) == {t \in Threads : pc[t] = "asleep" /\ call[t].op = op}

\* The threads whose wait on that condition has ended without a timeout.
Awake(op) == {t \in Threads : pc[t] = "awake" /\ call[t].op = op}

\* Threads a lor_cond_signal may remove from the wait set S.
Signal(S) == IF S = {} THEN {{}} ELSE {{u} : u \in S}

\* The mutex is released: thread t goes to state s, the threads of W wake.
Release(t, s, W) ==
    pc' = [u \in Threads |-> IF u = t THEN s
                             ELSE IF u \in W THEN "awake" ELSE pc[u]]

\* Thread t unlocks and returns status, having woken the threads of W.
Return(t, status, W) ==
    /\ Release(t, "idle", W)
    /\ call' = [call EXCEPT ![t] = NoCall]
    /\ result' = [result EXCEPT ![t] = status]

\* Mutant: each wait starts the timeout over again.
SleepRestartsTimeout(t, W) ==
    /\ Release(t, "asleep", W)
    /\ call' = [call EXCEPT ![t].deadline = IF @ = "passed" THEN "pending" ELSE @]
    /\ UNCHANGED result

\* Thread t starts a wait on its condition variable; the loop condition holds.
Sleep(t, W) ==
    /\ call[t].deadline # "passed"
    /\ Release(t, "asleep", W)
    /\ UNCHANGED <<call, result>>

\* lor_cond_wait_until finds the deadline in the past and does not wait.
GiveUp(t, W) ==
    /\ call[t].deadline = "passed"
    /\ Return(t, "TIMED_OUT", W)

\* Thread t holds the mutex and tests the loop condition of its operation.
Running(t, op) == pc[t] \in {"enter", "awake"} /\ call[t].op = op
----------------------------------------------------------------------------
(* Lifetime.                                                                *)

Init ==
    /\ live = FALSE
    /\ buffer = [i \in Slots |-> 0]
    /\ count = 0 /\ first = 0 /\ waiting_receivers = 0
    /\ slot_full = FALSE /\ closed = FALSE
    /\ pc = [t \in Threads |-> "idle"]
    /\ call = [t \in Threads |-> NoCall]
    /\ result = [t \in Threads |-> "none"]
    /\ sends = 0 /\ accepted = << >> /\ received = << >>

\* lor_channel_init_raw; a failed allocation leaves the channel as it was.
ChannelInit ==
    /\ ~live
    /\ live' = TRUE
    /\ buffer' = [i \in Slots |-> 0]
    /\ count' = 0 /\ first' = 0 /\ waiting_receivers' = 0
    /\ slot_full' = FALSE /\ closed' = FALSE
    /\ sends' = 0 /\ accepted' = << >> /\ received' = << >>
    /\ UNCHANGED threadVars

\* Mutant: only one of the two condition variables is broadcast.
CloseWakesReceivers ==
    /\ live
    /\ closed' = TRUE
    /\ pc' = [t \in Threads |-> IF t \in Asleep("receive") THEN "awake" ELSE pc[t]]
    /\ UNCHANGED <<live, buffer, count, first, waiting_receivers, slot_full,
                   call, result, history>>

\* lor_channel_close: every waiting thread is woken.
Close ==
    /\ live
    /\ closed' = TRUE
    /\ pc' = [t \in Threads |-> IF pc[t] = "asleep" THEN "awake" ELSE pc[t]]
    /\ UNCHANGED <<live, buffer, count, first, waiting_receivers, slot_full,
                   call, result, history>>

\* lor_channel_deinit, under its documented precondition: no operation is
\* active.  The close it performs finds nobody to wake.
ChannelDeinit ==
    /\ live
    /\ \A t \in Threads : pc[t] = "idle"
    /\ live' = FALSE
    /\ closed' = TRUE
    /\ UNCHANGED <<buffer, count, first, waiting_receivers, slot_full,
                   threadVars, history>>

----------------------------------------------------------------------------
(* The calls, up to lor_mutex_lock.                                         *)

Begin(t, op, value) ==
    /\ pc[t] = "idle"
    /\ live
    /\ \E d \in {"infinite", "pending"} :
          call' = [call EXCEPT ![t] = [op |-> op, value |-> value, deadline |-> d]]
    /\ pc' = [pc EXCEPT ![t] = "enter"]
    /\ result' = [result EXCEPT ![t] = "none"]
    /\ UNCHANGED <<chanVars, accepted, received>>

CallSend(t) ==
    /\ t \in Senders
    /\ sends < MaxSends
    /\ sends' = sends + 1
    /\ Begin(t, "send", sends + 1)

CallReceive(t) ==
    /\ t \in Receivers
    /\ Begin(t, "receive", 0)
    /\ UNCHANGED sends

\* A channel that is not initialized, or is already deinitialized.
CallRejected(t) ==
    /\ pc[t] = "idle"
    /\ ~live
    /\ result' = [result EXCEPT ![t] = "INVALID_ARGUMENT"]
    /\ UNCHANGED <<chanVars, pc, call, history>>

----------------------------------------------------------------------------
(* lor_channel_send_until_raw.                                              *)

SendBlocked ==
    /\ ~closed
    /\ \/ Capacity = 0 /\ (waiting_receivers = 0 \/ slot_full)
       \/ Capacity > 0 /\ count = Capacity

\* Mutant: the test of closed that follows the loop is missing.
CanSendClosed == ~SendBlocked

\* The loop has ended, and not because of a close.
CanSend == ~SendBlocked /\ ~closed

SendWait(t) ==
    /\ Running(t, "send")
    /\ SendBlocked
    /\ Sleep(t, {}) \/ GiveUp(t, {})
    /\ UNCHANGED <<chanVars, history>>

SendClosed(t) ==
    /\ Running(t, "send")
    /\ closed
    /\ Return(t, "CLOSED", {})
    /\ UNCHANGED <<chanVars, history>>

\* Mutants: no receiver is signalled; one is signalled only when the buffer
\* stops being empty.
AcceptSilently(t) ==
    /\ accepted' = Append(accepted, call[t].value)
    /\ Return(t, "OK", {})
AcceptSignalsFirst(t) ==
    /\ accepted' = Append(accepted, call[t].value)
    /\ \E W \in IF count = 0 THEN Signal(Asleep("receive")) ELSE {{}} : Return(t, "OK", W)

\* The value of thread t enters the channel and one receiver is signalled.
Accept(t) ==
    /\ accepted' = Append(accepted, call[t].value)
    /\ \E W \in Signal(Asleep("receive")) : Return(t, "OK", W)

\* The slot after the newest value.
Position == (first + count) % Capacity

SendBuffered(t) ==
    /\ Running(t, "send")
    /\ Capacity > 0 /\ CanSend
    /\ buffer' = [buffer EXCEPT ![Position] = call[t].value]
    /\ count' = count + 1
    /\ Accept(t)
    /\ UNCHANGED <<live, first, waiting_receivers, slot_full, closed,
                   sends, received>>

SendRendezvous(t) ==
    /\ Running(t, "send")
    /\ Capacity = 0 /\ CanSend
    /\ buffer' = [buffer EXCEPT ![0] = call[t].value]
    /\ slot_full' = TRUE
    /\ Accept(t)
    /\ UNCHANGED <<live, count, first, waiting_receivers, closed,
                   sends, received>>

----------------------------------------------------------------------------
(* lor_channel_receive_until_raw, Capacity > 0.                             *)

ReceiveWait(t) ==
    /\ Running(t, "receive")
    /\ Capacity > 0 /\ count = 0 /\ ~closed
    /\ Sleep(t, {}) \/ GiveUp(t, {})
    /\ UNCHANGED <<chanVars, history>>

\* Mutant: a closed channel is not drained.
ReceiveClosedEarly(t) ==
    /\ Running(t, "receive")
    /\ Capacity > 0 /\ closed
    /\ Return(t, "CLOSED", {})
    /\ UNCHANGED <<chanVars, history>>

ReceiveClosed(t) ==
    /\ Running(t, "receive")
    /\ Capacity > 0 /\ count = 0 /\ closed
    /\ Return(t, "CLOSED", {})
    /\ UNCHANGED <<chanVars, history>>

\* A slot has become free and one sender is signalled.
Taken(t) == \E W \in Signal(Asleep("send")) : Return(t, "OK", W)

ReceiveBuffered(t) ==
    /\ Running(t, "receive")
    /\ Capacity > 0 /\ count > 0
    /\ received' = Append(received, buffer[first])
    /\ first' = (first + 1) % Capacity
    /\ count' = count - 1
    /\ Taken(t)
    /\ UNCHANGED <<live, buffer, waiting_receivers, slot_full, closed,
                   sends, accepted>>

----------------------------------------------------------------------------
(* lor_channel_receive_until_raw, Capacity = 0.  A thread that arrives      *)
(* counts itself and signals can_send before it tests the loop condition,   *)
(* in the same critical section; a thread that wakes only tests it.         *)

Arrival(t) == IF pc[t] = "enter" THEN 1 ELSE 0

\* Mutant: a receiver that arrives signals nobody.
ArrivalSilent(t) == {{}}

\* The sets of senders woken by the signal of an arriving receiver.
ArrivalSignal(t) == IF pc[t] = "enter" THEN Signal(Asleep("send")) ELSE {{}}

\* waiting_receivers once thread t has counted itself and left again.
ReceiversWithout(t) == waiting_receivers + Arrival(t) - 1

RendezvousWait(t) ==
    /\ Running(t, "receive")
    /\ Capacity = 0 /\ ~slot_full /\ ~closed
    /\ \E W \in ArrivalSignal(t) :
          \/ /\ Sleep(t, W)
             /\ waiting_receivers' = waiting_receivers + Arrival(t)
          \/ /\ GiveUp(t, W)
             /\ waiting_receivers' = ReceiversWithout(t)
    /\ UNCHANGED <<live, buffer, count, first, slot_full, closed, history>>

RendezvousClosed(t) ==
    /\ Running(t, "receive")
    /\ Capacity = 0 /\ ~slot_full /\ closed
    /\ waiting_receivers' = ReceiversWithout(t)
    /\ \E W \in ArrivalSignal(t) : Return(t, "CLOSED", W)
    /\ UNCHANGED <<live, buffer, count, first, slot_full, closed, history>>

ReceiveRendezvous(t) ==
    /\ Running(t, "receive")
    /\ Capacity = 0 /\ slot_full
    /\ received' = Append(received, buffer[0])
    /\ slot_full' = FALSE
    /\ waiting_receivers' = ReceiversWithout(t)
    /\ \E W1 \in ArrivalSignal(t) : \E W2 \in Signal(Asleep("send") \ W1) :
          Return(t, "OK", W1 \cup W2)
    /\ UNCHANGED <<live, buffer, count, first, closed, sends, accepted>>

----------------------------------------------------------------------------
(* Time and wakeups: what the clock and the operating system may do.        *)

\* The deadline of a timed operation passes.
Expire(t) ==
    /\ call[t].deadline = "pending"
    /\ call' = [call EXCEPT ![t].deadline = "passed"]
    /\ UNCHANGED <<chanVars, pc, result, history>>

\* A timed wait ends: the thread has left the wait set, without the mutex.
WaitTimesOut(t) ==
    /\ pc[t] = "asleep"
    /\ call[t].deadline = "passed"
    /\ pc' = [pc EXCEPT ![t] = "timedout"]
    /\ UNCHANGED <<chanVars, call, result, history>>

\* A condition wait may return although nobody signalled.
SpuriousWakeup(t) ==
    /\ pc[t] = "asleep"
    /\ pc' = [pc EXCEPT ![t] = "awake"]
    /\ UNCHANGED <<chanVars, call, result, history>>

\* Mutant: a receiver that times out stays counted.
TimedOutCounted(t) ==
    /\ pc[t] = "timedout"
    /\ Return(t, "TIMED_OUT", {})
    /\ UNCHANGED <<chanVars, history>>

\* The thread gets the mutex back and returns the failure of its wait; it does
\* not look at the channel again.
TimedOut(t) ==
    /\ pc[t] = "timedout"
    /\ waiting_receivers' = IF Capacity = 0 /\ call[t].op = "receive"
                            THEN waiting_receivers - 1 ELSE waiting_receivers
    /\ Return(t, "TIMED_OUT", {})
    /\ UNCHANGED <<live, buffer, count, first, slot_full, closed, history>>

----------------------------------------------------------------------------
(* A critical section of thread t.                                          *)
Step(t) ==
    \/ SendWait(t) \/ SendClosed(t) \/ SendBuffered(t) \/ SendRendezvous(t)
    \/ ReceiveWait(t) \/ ReceiveClosed(t) \/ ReceiveBuffered(t)
    \/ RendezvousWait(t) \/ RendezvousClosed(t) \/ ReceiveRendezvous(t)
    \/ TimedOut(t)

Next ==
    \/ ChannelInit \/ Close \/ ChannelDeinit
    \/ \E t \in Threads :
          \/ CallSend(t) \/ CallReceive(t) \/ CallRejected(t)
          \/ Step(t)
          \/ Expire(t) \/ WaitTimesOut(t) \/ SpuriousWakeup(t)

Spec == Init /\ [][Next]_vars

(***************************************************************************)
(* Fairness.  A thread that wants the mutex gets it: every critical        *)
(* section is short and ends by releasing the mutex.  Time passes and a    *)
(* timed wait ends after its deadline.  Nothing says that anybody calls,   *)
(* closes, or is woken without a signal.                                   *)
(***************************************************************************)
Fairness ==
    \A t \in Threads : WF_vars(Step(t)) /\ WF_vars(Expire(t)) /\ WF_vars(WaitTimesOut(t))

FairSpec == Spec /\ Fairness

----------------------------------------------------------------------------
(* Properties.                                                              *)

\* The fields of the channel have their types; those of the other kind of
\* channel stay at the values lor_channel_init_raw gave them.
FieldTypes ==
    /\ live \in BOOLEAN /\ slot_full \in BOOLEAN /\ closed \in BOOLEAN
    /\ buffer \in [Slots -> Bytes]
    /\ count \in 0 .. Capacity
    /\ first \in Slots
    /\ waiting_receivers \in Int
    /\ sends \in 0 .. MaxSends
    /\ accepted \in Seq(Values) /\ received \in Seq(Bytes)
    /\ Capacity > 0 => ~slot_full /\ waiting_receivers = 0

\* A thread is idle exactly when it is in no call, and a wait that timed out
\* had a deadline.
ThreadTypes ==
    /\ pc \in [Threads -> PCs]
    /\ call \in [Threads -> Calls]
    /\ result \in [Threads -> Statuses]
    /\ \A t \in Threads :
          /\ pc[t] = "idle" <=> call[t].op = "none"
          /\ call[t].op = "none" => call[t] = NoCall
          /\ call[t].op = "send" => t \in Senders /\ call[t].value \in Values
          /\ call[t].op = "receive" => t \in Receivers
          /\ pc[t] = "timedout" => call[t].deadline = "passed"
          /\ ~live => pc[t] = "idle"

\* Every variable has its type.
TypeOK == FieldTypes /\ ThreadTypes

\* How many values are inside, and the n-th oldest of them.
Held == IF Capacity = 0 THEN (IF slot_full THEN 1 ELSE 0) ELSE count
HeldAt(n) == IF Capacity = 0 THEN buffer[0] ELSE buffer[(first + n - 1) % Capacity]

\* FIFO, exactly once: the values received are a prefix of the values accepted
\* and the rest of them, in the same order, is what the ring of slots holds,
\* wherever it wraps.  Nothing is lost, duplicated, reordered or overwritten
\* before it is taken (send_until_raw and receive_until_raw, memcpy lines).
ExactlyOnce ==
    /\ Len(accepted) = Len(received) + Held
    /\ \A i \in 1 .. Len(received) : received[i] = accepted[i]
    /\ \A n \in 1 .. Held : HeldAt(n) = accepted[Len(received) + n]

\* waiting_receivers counts the receivers between their first and their last
\* critical section, whichever way they leave (taken, closed, timed out).
ReceiversInside == {t \in Threads : call[t].op = "receive" /\ pc[t] # "enter"}
ReceiversCounted == Capacity = 0 => waiting_receivers = Cardinality(ReceiversInside)

\* No lost wakeup: whenever threads sleep although the channel could serve
\* some of them, at least that many have been woken and are on their way to
\* the mutex, so one signal per transition is enough although a woken thread
\* may find that another one got in first.
ReceiversWakened ==
    Asleep("receive") # {} => Cardinality(Awake("receive")) >= Held
SendersWakened ==
    Asleep("send") # {} =>
        IF Capacity = 0
        THEN waiting_receivers > 0 /\ ~slot_full => Awake("send") # {}
        ELSE Cardinality(Awake("send")) >= Capacity - count
ClosedWakened == closed => \A t \in Threads : pc[t] # "asleep"
NoLostWakeup == ReceiversWakened /\ SendersWakened /\ ClosedWakened

\* On a rendezvous channel a value whose send has returned OK is never kept
\* without a receiver inside: "a zero capacity creates an unbuffered rendezvous
\* channel", where "a send waits until a receiver is present".
Unbuffered == Capacity = 0 /\ slot_full => waiting_receivers > 0

\* The channel implements the queue its callers see.
Queue == INSTANCE ChannelQueue WITH Bound <- StorageCount
ImplementsQueue == Queue!Spec

\* An operation with a deadline returns: neither a wakeup, nor a competitor
\* that is always faster, can keep it inside.
TimedReturns ==
    \A t \in Threads : (call[t].deadline # "infinite") ~> (pc[t] = "idle")

\* A sender and a receiver are never both stuck inside: whatever the others
\* do and however the wakeups fall, one of the two eventually returns.
SomeoneMeets ==
    \A s \in Senders, r \in Receivers :
        s # r => ~<>[](call[s].op = "send" /\ call[r].op = "receive")

\* A send is not stuck on a buffer that keeps having room, nor a receive on
\* one that keeps holding a value.
BufferServed ==
    /\ \A s \in Senders : ~<>[](call[s].op = "send" /\ count < Capacity)
    /\ \A r \in Receivers : ~<>[](call[r].op = "receive" /\ Held > 0)
=============================================================================

----------------------------- MODULE Deadlines -----------------------------
(***************************************************************************)
(* Deadlines of src/concurrency.c on POSIX: deadlines are times of the     *)
(* monotonic clock, but pthread_cond_timedwait is given a time of the      *)
(* realtime clock, which may be set while a thread waits.                  *)
(*                                                                         *)
(* One thread computes a deadline and waits once on a condition, or sleeps *)
(* until it. A lost wakeup is no concern here: a signal may always come.   *)
(* A deadline is a number of whole milliseconds, of which the clocks count *)
(* parts.                                                                  *)
(***************************************************************************)
EXTENDS Integers

CONSTANTS
    Infinite,     \* LOR_DEADLINE_INFINITE, the largest value of int64_t
    Millisecond,  \* the units of time in a millisecond
    MaxJump       \* bound: by how much the realtime clock is set, either way

ASSUME ClockAssumption ==
    Infinite \in Nat /\ Millisecond \in Nat \ {0} /\ MaxJump \in Nat

VARIABLES
    now,   \* the monotonic clock
    wall,  \* the realtime clock less the monotonic one
    wait   \* the call: what it is, since when, the duration, the deadline, the time to
           \* wake at, how it ended, and whether a failure of the system had a part in it

clockVars == <<now, wall, wait>>

Times == 0 .. Millisecond * Infinite + Millisecond - 1
NoWait == [op |-> "none", since |-> 0, ms |-> 0, deadline |-> 0, wake |-> 0,
           status |-> "OK", failed |-> FALSE]
Waiting == wait.op # "none" /\ wait.status = "WAITING"

ClockInit == now \in Times /\ wall = 0 /\ wait = NoWait
----------------------------------------------------------------------------
\* lor_time_now_ms: whole milliseconds, or 0 where clock_gettime fails.
Truncated == now \div Millisecond
TimeNowMs == {Truncated, 0}

\* Mutant: the sum is compared after it has overflowed.
AfterWrapped(clock, ms) ==
    LET sum == IF clock + ms > Infinite THEN clock + ms - 2 * (Infinite + 1) ELSE clock + ms
    IN IF ms <= 0 THEN clock ELSE IF sum >= Infinite THEN Infinite ELSE sum

\* lor_deadline_after_ms, where the clock shows this.
DeadlineAfter(clock, ms) ==
    IF ms <= 0 THEN clock
    ELSE IF clock >= Infinite - ms THEN Infinite
    ELSE clock + ms

\* A call with a deadline that is computed now; clock_gettime may fail for it.
Called(op, ms, clock) ==
    [NoWait EXCEPT !.op = op, !.since = now, !.ms = ms, !.deadline = DeadlineAfter(clock, ms),
                   !.failed = clock # Truncated]

Ends(call, status) == wait' = [call EXCEPT !.status = status]

\* lor_concurrency__realtime_after_ms: the rest of the time from the realtime clock's
\* present (timespec_get is taken to succeed).
Blocks(call, clock) ==
    wait' = [call EXCEPT !.status = "WAITING",
                         !.wake = IF call.deadline = Infinite THEN Infinite
                                  ELSE now + wall + Millisecond * (call.deadline - clock)]

\* A turn of the loop of lor_sleep_until, or lor_cond_wait_until up to its wait: the clock
\* is read again.
LooksAtClock(call, status) ==
    \E clock \in TimeNowMs :
        IF call.deadline # Infinite /\ clock >= call.deadline
        THEN Ends(call, status)
        ELSE Blocks(call, clock)

\* lor_sleep_ms and the beginning of lor_sleep_until, which returns at once when its mutex
\* or its condition cannot be initialised.
SleepMs(ms) ==
    /\ ~Waiting /\ ms > 0
    /\ \E clock \in TimeNowMs :
          \/ LooksAtClock(Called("sleep", ms, clock), "RETURNED")
          \/ Ends([Called("sleep", ms, clock) EXCEPT !.failed = TRUE], "RETURNED")
    /\ UNCHANGED <<now, wall>>

\* lor_cond_wait_until, with a deadline of lor_deadline_after_ms.
WaitUntil(ms) ==
    /\ ~Waiting
    /\ \E clock \in TimeNowMs : LooksAtClock(Called("wait", ms, clock), "TIMED_OUT")
    /\ UNCHANGED <<now, wall>>

\* A signal, or a spurious wakeup.
Signalled == Waiting /\ wait.op = "wait" /\ Ends(wait, "OK") /\ UNCHANGED <<now, wall>>

\* The realtime clock is at the time to wake.
WakeDue == Waiting /\ wait.deadline # Infinite /\ now + wall >= wait.wake

\* The loop of lor_sleep_until looks at the clock again, whatever has woken it.
SleepWakes ==
    /\ Waiting /\ wait.op = "sleep"
    /\ LooksAtClock(wait, "RETURNED")
    /\ UNCHANGED <<now, wall>>

\* lor_cond_wait_until returns what pthread_cond_timedwait does.
WaitTimesOut ==
    WakeDue /\ wait.op = "wait" /\ Ends(wait, "TIMED_OUT") /\ UNCHANGED <<now, wall>>

\* pthread_cond_wait or pthread_cond_timedwait returns another error: a sleep leaves its
\* loop, which nobody is told of.
WaitFails ==
    /\ Waiting
    /\ Ends([wait EXCEPT !.failed = TRUE],
            IF wait.op = "sleep" THEN "RETURNED" ELSE "SYSTEM_ERROR")
    /\ UNCHANGED <<now, wall>>

Tick == now + 1 \in Times /\ now' = now + 1 /\ UNCHANGED <<wall, wait>>

SetClock ==
    /\ wall' \in -MaxJump .. MaxJump
    /\ UNCHANGED <<now, wait>>

ClockNext ==
    \/ \E ms \in -1 .. Infinite : SleepMs(ms) \/ WaitUntil(ms)
    \/ Signalled \/ SleepWakes \/ WaitTimesOut \/ WaitFails
    \/ Tick \/ SetClock

ClockSpec == ClockInit /\ [][ClockNext]_clockVars
----------------------------------------------------------------------------
(* Properties.                                                              *)

\* A sleep in which nothing fails, except for readings of the clock in its loop, is shorter
\* than it was asked to be by less than a millisecond, wherever the clock stands when
\* it is called, whatever wakes it and however the realtime clock that its waits go by is
\* set; one whose deadline is past the end of time does not return (lor_sleep_ms, the loop
\* of lor_sleep_until).
SleepsLongEnough ==
    wait.op = "sleep" /\ wait.status = "RETURNED" /\ ~wait.failed =>
        now > wait.since + Millisecond * (wait.ms - 1)

\* A sleep in which nothing fails is as long as it was asked to be (concurrency.h:
\* "Sleeps for at least `milliseconds` when it is positive").
SleepsAtLeast ==
    wait.op = "sleep" /\ wait.status = "RETURNED" /\ ~wait.failed =>
        now >= wait.since + Millisecond * wait.ms

\* A wait ends with TIMED_OUT only when its deadline, a time of the monotonic clock,
\* has passed (concurrency.h: "Equivalent to `lor_cond_wait`, with an absolute
\* deadline"; docs/concurrency.md: "Monotonic deadlines").
TimedOutIsLate ==
    wait.status = "TIMED_OUT" => Truncated >= wait.deadline
=============================================================================

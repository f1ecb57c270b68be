---------------------------- MODULE ChannelQueue ----------------------------
(***************************************************************************)
(* What a LorChannel promises to its callers, without a mutex, a wait set, *)
(* a ring of slots or a signal: calls are made, each is answered in one    *)
(* indivisible step, values leave in the order in which they entered and   *)
(* at most Bound of them are inside.                                       *)
(***************************************************************************)
EXTENDS Integers, Sequences

CONSTANTS
    Threads,  \* the callers
    Values,   \* what a send may carry
    Bound     \* how many values fit

VARIABLES
    live,      \* initialized and not deinitialized
    closed,
    call,      \* the operation each thread waits to have answered
    result,    \* the last answer each thread got
    accepted,  \* the values of all successful sends, in order
    received   \* the values handed to receivers, in order

vars == <<live, closed, call, result, accepted, received>>

NoCall == [op |-> "none", value |-> 0, deadline |-> "infinite"]
Inside == Len(accepted) - Len(received)

Init ==
    /\ ~live /\ ~closed
    /\ call = [t \in Threads |-> NoCall]
    /\ result = [t \in Threads |-> "none"]
    /\ accepted = << >> /\ received = << >>

Open ==
    /\ ~live
    /\ live' = TRUE /\ closed' = FALSE
    /\ accepted' = << >> /\ received' = << >>
    /\ UNCHANGED <<call, result>>

Close ==
    /\ live
    /\ closed' = TRUE
    /\ UNCHANGED <<live, call, result, accepted, received>>

Dispose ==
    /\ live
    /\ call = [t \in Threads |-> NoCall]
    /\ live' = FALSE /\ closed' = TRUE
    /\ UNCHANGED <<call, result, accepted, received>>

Invoke(t) ==
    /\ live
    /\ call[t] = NoCall
    /\ \E d \in {"infinite", "pending"} :
          \/ \E v \in Values :
                call' = [call EXCEPT ![t] = [op |-> "send", value |-> v, deadline |-> d]]
          \/ call' = [call EXCEPT ![t] = [op |-> "receive", value |-> 0, deadline |-> d]]
    /\ result' = [result EXCEPT ![t] = "none"]
    /\ UNCHANGED <<live, closed, accepted, received>>

Reject(t) ==
    /\ ~live
    /\ result' = [result EXCEPT ![t] = "INVALID_ARGUMENT"]
    /\ UNCHANGED <<live, closed, call, accepted, received>>

Expire(t) ==
    /\ call[t].deadline = "pending"
    /\ call' = [call EXCEPT ![t].deadline = "passed"]
    /\ UNCHANGED <<live, closed, result, accepted, received>>

Answer(t, status) ==
    /\ call' = [call EXCEPT ![t] = NoCall]
    /\ result' = [result EXCEPT ![t] = status]
    /\ UNCHANGED <<live, closed>>

\* A send succeeds only on an open channel that has room.
SendOk(t) ==
    /\ call[t].op = "send"
    /\ ~closed
    /\ Inside < Bound
    /\ accepted' = Append(accepted, call[t].value)
    /\ UNCHANGED received
    /\ Answer(t, "OK")

\* A receive gets the oldest value not received yet, closed or not.
ReceiveOk(t) ==
    /\ call[t].op = "receive"
    /\ Inside > 0
    /\ received' = Append(received, accepted[Len(received) + 1])
    /\ UNCHANGED accepted
    /\ Answer(t, "OK")

\* CLOSED: any send after the close, a receive once nothing is left.
AnswerClosed(t) ==
    /\ closed
    /\ \/ call[t].op = "send"
       \/ call[t].op = "receive" /\ Inside = 0
    /\ UNCHANGED <<accepted, received>>
    /\ Answer(t, "CLOSED")

\* TIMED_OUT: only an operation whose own deadline has passed, and without
\* any effect on the values.
AnswerTimedOut(t) ==
    /\ call[t].deadline = "passed"
    /\ UNCHANGED <<accepted, received>>
    /\ Answer(t, "TIMED_OUT")

Next ==
    \/ Open \/ Close \/ Dispose
    \/ \E t \in Threads :
          \/ Invoke(t) \/ Reject(t) \/ Expire(t)
          \/ SendOk(t) \/ ReceiveOk(t) \/ AnswerClosed(t) \/ AnswerTimedOut(t)

Spec == Init /\ [][Next]_vars
=============================================================================

----------------------------- MODULE WorkerPool -----------------------------
(***************************************************************************)
(* A caller of a LorTaskGroup and a LorChannel, with the shutdown that     *)
(* docs/concurrency.md:83-91 describes: an owner spawns tasks that receive *)
(* jobs from a channel until it is closed or their group is cancelled,     *)
(* sends jobs, and shuts down by close, cancel (or not), wait and deinit.  *)
(* A task that fails a job stops the others by close and cancel.           *)
(*                                                                         *)
(* The channel and the group are the modules Channel and TaskGroup; every  *)
(* step of this module is a step of one of them, of both, or of neither.   *)
(***************************************************************************)
EXTENDS Integers, Sequences, FiniteSets

CONSTANTS
    MaxTasks,     \* bound: tasks spawned
    MaxFailures,  \* bound: failed joins
    Capacity,     \* of the channel
    MaxSends      \* bound: jobs sent

ASSUME PoolAssumption ==
    /\ MaxTasks \in Nat /\ MaxFailures \in Nat
    /\ Capacity \in Nat /\ MaxSends \in Nat

Owner == 0
Workers == 1 .. MaxTasks

VARIABLES live, buffer, count, first, waiting_receivers, slot_full, closed,
          pc, call, result, sends, accepted, received
channel == <<live, buffer, count, first, waiting_receivers, slot_full, closed,
             pc, call, result, sends, accepted, received>>

VARIABLES impl, accepting, cancelled, waited, spawned, handle, task, owner_pc, next,
          deiniting, status, failures
group == <<impl, accepting, cancelled, waited, spawned, handle, task, owner_pc, next,
           deiniting, status, failures>>

VARIABLES
    phase,  \* how far the owner's program is
    body    \* how far each task's function is
program == <<phase, body>>
vars == <<channel, group, program>>

C == INSTANCE Channel WITH Senders <- {Owner}, Receivers <- Workers
G == INSTANCE TaskGroup WITH
        Endless <- {}, count <- spawned, pc <- owner_pc, result <- status
----------------------------------------------------------------------------
Init ==
    /\ C!Init /\ G!Init
    /\ phase = "init" /\ body = [t \in Workers |-> "check"]

\* The owner goes to another place of its program.
Goto(p) == phase' = p /\ UNCHANGED body
Stay == UNCHANGED program

\* The owner is in no call of the channel and in none of the group.
Free == pc[Owner] = "idle" /\ owner_pc = "idle"

InitBoth ==
    /\ phase = "init"
    /\ C!ChannelInit /\ G!GroupInit
    /\ Goto("spawn")

\* A failed spawn is tried again or not.
Spawns ==
    /\ phase = "spawn"
    /\ G!SpawnEnter
    /\ Stay /\ UNCHANGED channel

\* Without a task there is nobody to send to.
SpawnsDone ==
    /\ phase = "spawn" /\ Free
    /\ Goto(IF spawned = 0 THEN "close" ELSE "send")
    /\ UNCHANGED <<channel, group>>

----------------------------------------------------------------------------
(* The owner sends jobs and shuts down.                                     *)

Sends ==
    /\ phase = "send" /\ Free
    /\ result[Owner] # "CLOSED"
    /\ C!CallSend(Owner)
    /\ call'[Owner].deadline = "infinite"
    /\ Stay /\ UNCHANGED group

SendsDone ==
    /\ phase = "send" /\ Free
    /\ Goto("close")
    /\ UNCHANGED <<channel, group>>

\* The jobs that were sent are to be done, or (cancel) to be left.
Closes ==
    /\ phase = "close"
    /\ C!Close
    /\ \E p \in {"cancel", "wait"} : Goto(p)
    /\ UNCHANGED group

Cancels ==
    /\ phase = "cancel"
    /\ G!Cancel
    /\ Goto("wait")
    /\ UNCHANGED channel

Waits ==
    /\ phase = "wait"
    /\ G!WaitStart
    /\ Goto("waiting")
    /\ UNCHANGED channel

\* A wait that failed is repeated.
WaitReturned ==
    /\ phase = "waiting" /\ Free
    /\ Goto(IF status = "OK" THEN "deinit" ELSE "wait")
    /\ UNCHANGED <<channel, group>>

\* lor_task_group_deinit, with or without a wait before it.
Deinits ==
    /\ phase \in {"wait", "deinit"}
    /\ G!DeinitStart
    /\ Goto("freeing")
    /\ UNCHANGED channel

\* A group that could not be released is released by another call.
Deinited ==
    /\ phase = "freeing" /\ Free
    /\ Goto(IF impl = "freed" THEN "drop" ELSE "deinit")
    /\ UNCHANGED <<channel, group>>

\* lor_channel_deinit comes last. That no call is active is a precondition
\* which the program cannot test: it is not a guard but NobodyInside.
DropsChannel ==
    /\ phase = "drop"
    /\ live' = FALSE /\ closed' = TRUE
    /\ UNCHANGED <<buffer, count, first, waiting_receivers, slot_full, pc, call, result,
                   sends, accepted, received>>
    /\ Goto("done")
    /\ UNCHANGED group

Program ==
    \/ InitBoth \/ SpawnsDone \/ SendsDone \/ Closes \/ Cancels \/ Waits
    \/ WaitReturned \/ Deinits \/ Deinited \/ DropsChannel

----------------------------------------------------------------------------
(* A task: while (!lor_task_cancelled(context)) receive a job and do it.    *)

Leave(t) ==
    /\ G!TaskReturns(t)
    /\ body' = [body EXCEPT ![t] = "left"]
    /\ UNCHANGED <<phase, channel>>

Running(t, place) == task[t] = "running" /\ pc[t] = "idle" /\ body[t] = place

Checks(t) ==
    /\ Running(t, "check")
    /\ IF cancelled THEN Leave(t)
       ELSE /\ body' = [body EXCEPT ![t] = "receive"]
            /\ UNCHANGED <<phase, channel, group>>

Receives(t) ==
    /\ Running(t, "receive")
    /\ C!CallReceive(t)
    /\ call'[t].deadline = "infinite"
    /\ body' = [body EXCEPT ![t] = "received"]
    /\ UNCHANGED <<phase, group>>

\* The receive has returned: a job is done or fails.
Works(t) ==
    /\ Running(t, "received")
    /\ IF result[t] # "OK" THEN Leave(t)
       ELSE /\ \E place \in {"check", "failed"} : body' = [body EXCEPT ![t] = place]
            /\ UNCHANGED <<phase, channel, group>>

\* The task that fails wakes the owner and the others ...
Stops(t) ==
    /\ Running(t, "failed")
    /\ C!Close
    /\ body' = [body EXCEPT ![t] = "closed"]
    /\ UNCHANGED <<phase, group>>

\* ... and tells them to stop.
CancelsGroup(t) ==
    /\ Running(t, "closed")
    /\ G!Cancel
    /\ body' = [body EXCEPT ![t] = "check"]
    /\ UNCHANGED <<phase, channel>>

Body(t) == Checks(t) \/ Receives(t) \/ Works(t) \/ Stops(t) \/ CancelsGroup(t)

----------------------------------------------------------------------------
(* What goes on inside the calls.                                           *)
InGroup == (G!InCall \/ G!JoinFails) /\ UNCHANGED channel /\ Stay
InChannel(t) == C!Step(t) /\ UNCHANGED group /\ Stay
Wakes(t) == C!SpuriousWakeup(t) /\ UNCHANGED group /\ Stay

Next ==
    \/ Program \/ Spawns \/ Sends \/ InGroup
    \/ \E t \in Workers : Body(t)
    \/ \E t \in Workers \cup {Owner} : InChannel(t) \/ Wakes(t)

Spec == Init /\ [][Next]_vars

\* The owner and the tasks run their code; calls go on while they can. No join
\* has to fail.
Fairness ==
    /\ WF_vars(Program)
    /\ WF_vars(G!InCall /\ UNCHANGED channel /\ Stay)
    /\ \A t \in Workers : WF_vars(Body(t))
    /\ \A t \in Workers \cup {Owner} : WF_vars(InChannel(t))

FairSpec == Spec /\ Fairness
----------------------------------------------------------------------------
(* Properties.                                                              *)

\* The precondition of lor_channel_deinit: once the group is released no task
\* is inside a call of the channel, nor going to make one. It needs both
\* modules: a task that is not joined may sit in a receive.
NobodyInside ==
    impl = "freed" => \A t \in Workers \cup {Owner} :
                          /\ pc[t] = "idle"
                          /\ t # Owner => task[t] # "running"

\* A shutdown without cancel loses no job: if nobody cancelled and wait has
\* joined every task, all jobs whose send returned OK have been received, also
\* those still buffered when the channel was closed.
NothingAbandoned ==
    waited /\ ~cancelled /\ spawned > 0 => received = accepted

\* The program always ends once it has spawned: neither a task in a receive,
\* which does not see the cancellation, nor the owner in a send to tasks that
\* have left, keeps the other waiting ("closes the channels needed to wake
\* workers, requests cancellation, and then waits for the group").
ShutdownEnds == (phase \notin {"init", "spawn"}) ~> (phase = "done")
=============================================================================

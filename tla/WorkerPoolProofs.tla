-------------------------- MODULE WorkerPoolProofs --------------------------
(***************************************************************************)
(* The program around a channel and a task group, for every number of      *)
(* tasks, failed joins and jobs and every capacity: its steps are steps of *)
(* the two components, whose invariants are taken over from their proofs,  *)
(* and of the program's own invariant.                                     *)
(***************************************************************************)
EXTENDS WorkerPool, FiniteSetTheorems, TLAPS

CP == INSTANCE ChannelProofs WITH Senders <- {Owner}, Receivers <- Workers
GP == INSTANCE TaskGroupProofs WITH
        Endless <- {}, count <- spawned, pc <- owner_pc, result <- status

Phases == {"init", "spawn", "send", "close", "cancel", "wait", "waiting", "deinit", "freeing",
           "drop", "done"}
Places == {"check", "receive", "received", "failed", "closed", "left"}

\* The channel is closed and will never have another job.
Ended == closed /\ C!Held = 0

\* Where the owner's program is tells what the channel and the group are.
OwnerPlace ==
    /\ phase \in Phases
    /\ phase = "init" => impl = "none" /\ spawned = 0
    /\ phase \notin {"init", "done"} => live
    /\ phase # "send" => pc[Owner] = "idle"
    /\ impl = "freed" => phase \in {"freeing", "drop", "done"}
    /\ phase \in {"drop", "done"} => impl = "freed"
    /\ owner_pc = "free" \/ (owner_pc = "join" /\ deiniting) => phase = "freeing"

\* A task is in no call, or in a receive without a deadline while it runs.
TaskPlace(t) ==
    /\ body[t] \in Places
    /\ phase = "init" => body[t] = "check"
    /\ pc[t] # "idle" => /\ task[t] = "running" /\ body[t] = "received"
                         /\ call[t].op = "receive" /\ call[t].deadline = "infinite"
    /\ pc[t] # "timedout"
    /\ task[t] = "returned" <=> body[t] = "left"

\* A receive that fails, and with it a task that leaves although nobody cancelled, has seen
\* the end of the channel.
TaskEnds(t) ==
    /\ body[t] = "received" /\ pc[t] = "idle" => result[t] = "OK" \/ Ended
    /\ body[t] = "left" => cancelled \/ Ended

PoolInv ==
    /\ OwnerPlace
    /\ body \in [Workers -> Places]
    /\ \A t \in Workers : TaskPlace(t) /\ TaskEnds(t)

----------------------------------------------------------------------------
(* The components' assumptions, and their steps.                            *)

LEMMA ChannelAssumed == CP!ChannelAssumption
<1>1. IsFiniteSet({Owner})
  BY FS_Singleton
<1>2. IsFiniteSet(Workers)
  <2>1. 1 \in Int /\ MaxTasks \in Int
    BY PoolAssumption
  <2> QED
    BY <2>1, FS_Interval DEF Workers
<1>3. Capacity \in Nat /\ MaxSends \in Nat
  BY PoolAssumption
<1> QED
  BY <1>1, <1>2, <1>3 DEF CP!ChannelAssumption, CP!IsFiniteSet, IsFiniteSet

LEMMA GroupAssumed == GP!GroupAssumption
  BY PoolAssumption DEF GP!GroupAssumption

LEMMA SameSections ==
  ASSUME NEW t, C!Step(t)
  PROVE  CP!Step(t)
<1> USE DEF C!Running, CP!Running, C!SendBlocked, CP!SendBlocked, C!CanSend, CP!CanSend,
            C!chanVars, CP!chanVars, C!history, CP!history,
            C!Return, CP!Return, C!Sleep, CP!Sleep, C!GiveUp, CP!GiveUp,
            C!Release, CP!Release, C!NoCall, CP!NoCall, C!Threads, CP!Threads
<1> USE DEF C!Asleep, CP!Asleep, C!Signal, CP!Signal
<1>1. CASE C!SendWait(t)
  BY <1>1 DEF C!SendWait, CP!SendWait, CP!Step
<1>2. CASE C!SendClosed(t)
  BY <1>2 DEF C!SendClosed, CP!SendClosed, CP!Step
<1>3. CASE C!SendBuffered(t)
  BY <1>3 DEF C!SendBuffered, CP!SendBuffered, C!Accept, CP!Accept, C!Position, CP!Position,
              CP!Step
<1>4. CASE C!SendRendezvous(t)
  BY <1>4 DEF C!SendRendezvous, CP!SendRendezvous, C!Accept, CP!Accept, CP!Step
<1>5. CASE C!ReceiveWait(t)
  BY <1>5 DEF C!ReceiveWait, CP!ReceiveWait, CP!Step
<1>6. CASE C!ReceiveClosed(t)
  BY <1>6 DEF C!ReceiveClosed, CP!ReceiveClosed, CP!Step
<1>7. CASE C!ReceiveBuffered(t)
  BY <1>7 DEF C!ReceiveBuffered, CP!ReceiveBuffered, C!Taken, CP!Taken, CP!Step
<1> USE DEF C!ArrivalSignal, CP!ArrivalSignal, C!ReceiversWithout, CP!ReceiversWithout,
            C!Arrival, CP!Arrival
<1>8. CASE C!RendezvousWait(t)
  BY <1>8 DEF C!RendezvousWait, CP!RendezvousWait, CP!Step
<1>9. CASE C!RendezvousClosed(t)
  BY <1>9 DEF C!RendezvousClosed, CP!RendezvousClosed, CP!Step
<1>10. CASE C!ReceiveRendezvous(t)
  BY <1>10 DEF C!ReceiveRendezvous, CP!ReceiveRendezvous, CP!Step
<1>11. CASE C!TimedOut(t)
  BY <1>11 DEF C!TimedOut, CP!TimedOut, CP!Step
<1> QED
  BY <1>1, <1>2, <1>3, <1>4, <1>5, <1>6, <1>7, <1>8, <1>9, <1>10, <1>11 DEF C!Step

\* What the program does to the channel, its steps do.
ChannelMoves ==
    \/ C!ChannelInit \/ C!Close \/ C!ChannelDeinit
    \/ \E t \in C!Threads :
          C!CallSend(t) \/ C!CallReceive(t) \/ C!Step(t) \/ C!SpuriousWakeup(t)

LEMMA SameChannel ==
  ASSUME ChannelMoves \/ UNCHANGED channel
  PROVE  [CP!Next]_(CP!vars)
<1> USE DEF C!chanVars, CP!chanVars, C!history, CP!history, C!threadVars, CP!threadVars,
            C!Threads, CP!Threads, CP!Next
<1>1. CASE C!ChannelInit
  BY <1>1 DEF C!ChannelInit, CP!ChannelInit, C!Slots, CP!Slots, C!StorageCount, CP!StorageCount
<1>2. CASE C!Close
  BY <1>2 DEF C!Close, CP!Close
<1>3. CASE C!ChannelDeinit
  BY <1>3 DEF C!ChannelDeinit, CP!ChannelDeinit
<1>4. ASSUME NEW t \in C!Threads, C!CallSend(t) PROVE CP!CallSend(t)
  BY <1>4 DEF C!CallSend, CP!CallSend, C!Begin, CP!Begin
<1>5. ASSUME NEW t \in C!Threads, C!CallReceive(t) PROVE CP!CallReceive(t)
  BY <1>5 DEF C!CallReceive, CP!CallReceive, C!Begin, CP!Begin
<1>6. ASSUME NEW t \in C!Threads, C!SpuriousWakeup(t) PROVE CP!SpuriousWakeup(t)
  BY <1>6 DEF C!SpuriousWakeup, CP!SpuriousWakeup
<1>7. CASE UNCHANGED channel
  BY <1>7 DEF channel, CP!vars
<1> QED
  BY <1>1, <1>2, <1>3, <1>4, <1>5, <1>6, <1>7, SameSections DEF ChannelMoves

\* What the program does to the group.
GroupMoves ==
    \/ G!GroupInit \/ G!SpawnEnter \/ G!Cancel \/ G!WaitStart \/ G!DeinitStart
    \/ G!InCall \/ G!JoinFails
    \/ \E t \in Workers : G!TaskReturns(t)

LEMMA SameGroup ==
  ASSUME GroupMoves \/ UNCHANGED group
  PROVE  [GP!Next]_(GP!vars)
<1> USE DEF G!OwnerFree, GP!OwnerFree, GP!Next, GP!InCall, G!Tasks, GP!Tasks, Workers
<1>1. CASE G!GroupInit
  BY <1>1 DEF G!GroupInit, GP!GroupInit
<1>2. CASE G!SpawnEnter
  BY <1>2 DEF G!SpawnEnter, GP!SpawnEnter
<1>3. CASE G!Cancel
  BY <1>3 DEF G!Cancel, GP!Cancel
<1>4. CASE G!WaitStart
  BY <1>4 DEF G!WaitStart, GP!WaitStart
<1>5. CASE G!DeinitStart
  BY <1>5 DEF G!DeinitStart, GP!DeinitStart
<1>6. CASE G!InCall
  BY <1>6 DEF G!InCall, G!SpawnFails, GP!SpawnFails, G!SpawnStarts, GP!SpawnStarts,
              G!JoinSkip, GP!JoinSkip, G!Join, GP!Join, G!WaitEnd, GP!WaitEnd,
              G!DeinitEnd, GP!DeinitEnd
<1>7. CASE G!JoinFails
  BY <1>7 DEF G!JoinFails, GP!JoinFails
<1>8. CASE \E t \in Workers : G!TaskReturns(t)
  BY <1>8 DEF G!TaskReturns, GP!TaskReturns
<1>9. CASE UNCHANGED group
  BY <1>9 DEF group, GP!vars
<1> QED
  BY <1>1, <1>2, <1>3, <1>4, <1>5, <1>6, <1>7, <1>8, <1>9 DEF GroupMoves

----------------------------------------------------------------------------
(* What a critical section does to the threads, in the program's terms.     *)

LEMMA SignalsSleepers ==
  ASSUME NEW t, NEW W,
         \/ W = {}
         \/ W \in C!Signal(C!Asleep("send")) \/ W \in C!Signal(C!Asleep("receive"))
         \/ W \in C!ArrivalSignal(t)
         \/ \E V : W \in C!Signal(C!Asleep("send") \ V)
  PROVE  \A u \in W : pc[u] = "asleep"
  BY DEF C!Signal, C!Asleep, C!ArrivalSignal

\* Thread t sleeps again or leaves its call, and it may have woken others.
Moves(t) ==
    /\ \A u \in C!Threads \ {t} :
          /\ pc'[u] = pc[u] \/ (pc[u] = "asleep" /\ pc'[u] = "awake")
          /\ call'[u] = call[u] /\ result'[u] = result[u]
    /\ \/ pc'[t] = "asleep" /\ call'[t] = call[t] /\ result'[t] = result[t]
       \/ pc'[t] = "idle"

LEMMA ReturnMoves ==
  ASSUME CP!ThreadTypes, NEW t \in C!Threads, NEW status0, NEW W,
         \A u \in W : pc[u] = "asleep",
         C!Return(t, status0, W)
  PROVE  Moves(t) /\ pc'[t] = "idle" /\ result'[t] = status0
  BY DEF CP!ThreadTypes, C!Return, C!Release, Moves, C!Threads, CP!Threads

LEMMA SleepMoves ==
  ASSUME CP!ThreadTypes, NEW t \in C!Threads, NEW W,
         \A u \in W : pc[u] = "asleep",
         C!Sleep(t, W)
  PROVE  Moves(t) /\ pc'[t] = "asleep"
  BY DEF CP!ThreadTypes, C!Sleep, C!Release, Moves, C!Threads, CP!Threads

LEMMA StepMoves ==
  ASSUME CP!TypeOK, NEW t \in C!Threads, C!Step(t)
  PROVE  /\ Moves(t)
         /\ pc[t] # "idle"
         /\ live' = live
         /\ Ended => Ended'
         /\ call[t].op = "receive" /\ call[t].deadline = "infinite" /\ pc[t] # "timedout"
               /\ pc'[t] = "idle" => result'[t] = "OK" \/ Ended'
<1> USE DEF CP!TypeOK, CP!FieldTypes
<1> USE DEF Ended, C!Held, C!Running, C!chanVars
<1> DEFINE Idle == pc'[t] = "idle"
<1>a. Capacity \in Nat
  BY PoolAssumption
<1>b. \A status0, W : C!Return(t, status0, W) /\ (\A u \in W : pc[u] = "asleep") =>
         Moves(t) /\ Idle /\ result'[t] = status0
  BY ReturnMoves
<1>c. \A W : C!Sleep(t, W) /\ (\A u \in W : pc[u] = "asleep") => Moves(t) /\ ~Idle
  BY SleepMoves
<1>d. \A W : C!GiveUp(t, W) /\ (\A u \in W : pc[u] = "asleep") =>
         Moves(t) /\ call[t].deadline = "passed"
  BY <1>b DEF C!GiveUp
<1>1. CASE C!SendWait(t)
  BY <1>1, <1>c, <1>d DEF C!SendWait
<1>2. CASE C!SendClosed(t)
  BY <1>2, <1>b DEF C!SendClosed
<1>3. CASE C!SendBuffered(t)
  <2>1. Moves(t)
    BY <1>3, <1>b, SignalsSleepers DEF C!SendBuffered, C!Accept
  <2> QED
    BY <1>3, <2>1 DEF C!SendBuffered, C!CanSend
<1>4. CASE C!SendRendezvous(t)
  <2>1. Moves(t)
    BY <1>4, <1>b, SignalsSleepers DEF C!SendRendezvous, C!Accept
  <2> QED
    BY <1>4, <2>1 DEF C!SendRendezvous, C!CanSend
<1>5. CASE C!ReceiveWait(t)
  BY <1>5, <1>c, <1>d DEF C!ReceiveWait
<1>6. CASE C!ReceiveClosed(t)
  BY <1>6, <1>a, <1>b DEF C!ReceiveClosed
<1>7. CASE C!ReceiveBuffered(t)
  <2>1. Moves(t) /\ result'[t] = "OK"
    BY <1>7, <1>b, SignalsSleepers DEF C!ReceiveBuffered, C!Taken
  <2> QED
    BY <1>7, <1>a, <2>1 DEF C!ReceiveBuffered
<1>8. CASE C!RendezvousWait(t)
  <2>1. PICK W \in C!ArrivalSignal(t) : C!Sleep(t, W) \/ C!GiveUp(t, W)
    BY <1>8 DEF C!RendezvousWait
  <2>2. \A u \in W : pc[u] = "asleep"
    BY SignalsSleepers
  <2> QED
    BY <1>8, <2>1, <2>2, <1>c, <1>d DEF C!RendezvousWait
<1>9. CASE C!RendezvousClosed(t)
  <2>1. PICK W \in C!ArrivalSignal(t) : C!Return(t, "CLOSED", W)
    BY <1>9 DEF C!RendezvousClosed
  <2>2. Moves(t)
    BY <2>1, <1>b, SignalsSleepers
  <2> QED
    BY <1>9, <2>2 DEF C!RendezvousClosed
<1>10. CASE C!ReceiveRendezvous(t)
  <2>0. PICK W1 \in C!ArrivalSignal(t) :
           \E W2 \in C!Signal(C!Asleep("send") \ W1) : C!Return(t, "OK", W1 \cup W2)
    BY <1>10 DEF C!ReceiveRendezvous
  <2>1. PICK W2 \in C!Signal(C!Asleep("send") \ W1) : C!Return(t, "OK", W1 \cup W2)
    BY <2>0
  <2>2. \A u \in W1 \cup W2 : pc[u] = "asleep"
    BY SignalsSleepers
  <2>3. Moves(t) /\ result'[t] = "OK"
    BY <2>1, <2>2, <1>b
  <2> QED
    BY <1>10, <2>3 DEF C!ReceiveRendezvous
<1>11. CASE C!TimedOut(t)
  BY <1>11, <1>b DEF C!TimedOut
<1> QED
  BY <1>1, <1>2, <1>3, <1>4, <1>5, <1>6, <1>7, <1>8, <1>9, <1>10, <1>11 DEF C!Step

----------------------------------------------------------------------------
(* The invariant of the whole program.                                      *)
ProgramInv == CP!TypeOK /\ CP!ExactlyOnce /\ GP!Inv /\ PoolInv

\* A released group has no running task, and only running tasks are in calls.
LEMMA FreedIsQuiet == ProgramInv => NobodyInside
<1> SUFFICES ASSUME ProgramInv, impl = "freed", NEW t \in Workers \cup {Owner}
             PROVE  pc[t] = "idle" /\ (t # Owner => task[t] # "running")
  BY DEF NobodyInside
<1>1. CASE t = Owner
  BY <1>1 DEF ProgramInv, PoolInv, OwnerPlace
<1>2. CASE t \in Workers
  <2>1. task[t] # "running"
    BY <1>2 DEF ProgramInv, GP!Inv, GP!Lifetime, GP!WaitedIsFinal, GP!Tasks, Workers
  <2> QED
    BY <1>2, <2>1 DEF ProgramInv, PoolInv, TaskPlace
<1> QED
  BY <1>1, <1>2

LEMMA InitProgram == Init => ProgramInv
<1> SUFFICES ASSUME Init PROVE ProgramInv
  OBVIOUS
<1>1. CP!Init
  BY DEF Init, C!Init, CP!Init, C!Slots, CP!Slots, C!StorageCount, CP!StorageCount,
         C!Threads, CP!Threads, C!NoCall, CP!NoCall
<1>2. GP!Init
  BY DEF Init, G!Init, GP!Init, G!Tasks, GP!Tasks
<1>3. PoolInv
  BY DEF Init, C!Init, C!Threads, G!Init, G!Tasks, Workers, PoolInv, OwnerPlace, TaskPlace,
         TaskEnds, Phases, Places
<1> QED
  BY <1>1, <1>2, <1>3, ChannelAssumed, GroupAssumed, CP!InitTypes, CP!InitOnce, GP!InitInv
     DEF ProgramInv

\* Every step of the program is a step of the channel, of the group, of both or of neither;
\* that lor_channel_deinit finds nobody inside is what FreedIsQuiet says.
LEMMA ComponentSteps ==
  ASSUME ProgramInv, [Next]_vars
  PROVE  /\ ChannelMoves \/ UNCHANGED channel
         /\ GroupMoves \/ UNCHANGED group
<1> USE DEF ChannelMoves, GroupMoves, C!Threads
<1>1. CASE DropsChannel
  <2>1. \A t \in C!Threads : pc[t] = "idle"
    BY <1>1, FreedIsQuiet DEF DropsChannel, NobodyInside, ProgramInv, PoolInv, OwnerPlace
  <2>2. live
    BY <1>1 DEF DropsChannel, ProgramInv, PoolInv, OwnerPlace
  <2> QED
    BY <1>1, <2>1, <2>2 DEF DropsChannel, C!ChannelDeinit, C!threadVars, C!history
<1>2. CASE Program /\ ~DropsChannel
  BY <1>2 DEF Program, InitBoth, SpawnsDone, SendsDone, Closes, Cancels, Waits, WaitReturned,
     Deinits, Deinited
<1>3. CASE Spawns \/ Sends \/ InGroup
  BY <1>3 DEF Spawns, Sends, InGroup
<1>4. ASSUME NEW t \in Workers, Body(t)
      PROVE  /\ ChannelMoves \/ UNCHANGED channel
             /\ GroupMoves \/ UNCHANGED group
  BY <1>4 DEF Body, Checks, Receives, Works, Stops, CancelsGroup, Leave
<1>5. ASSUME NEW t \in Workers \cup {Owner}, InChannel(t) \/ Wakes(t)
      PROVE  /\ ChannelMoves \/ UNCHANGED channel
             /\ GroupMoves \/ UNCHANGED group
  BY <1>5 DEF InChannel, Wakes
<1>6. CASE UNCHANGED vars
  BY <1>6 DEF vars
<1> QED
  BY <1>1, <1>2, <1>3, <1>4, <1>5, <1>6 DEF Next

\* So the components keep the invariants they are proved to have on their own.
LEMMA ComponentInvariants ==
  ASSUME ProgramInv, [Next]_vars
  PROVE  CP!TypeOK' /\ CP!ExactlyOnce' /\ GP!Inv'
<1>1. [CP!Next]_(CP!vars)
  BY ComponentSteps, SameChannel
<1>2. [GP!Next]_(GP!vars)
  BY ComponentSteps, SameGroup
<1> QED
  BY <1>1, <1>2, ChannelAssumed, GroupAssumed, CP!NextTypes, CP!NextOnce, GP!StepInv
     DEF ProgramInv

----------------------------------------------------------------------------
(* The program's own invariant.                                             *)

LEMMA OwnerStep ==
  ASSUME ProgramInv, Program
  PROVE  PoolInv'
<1> USE DEF ProgramInv, PoolInv, OwnerPlace, Phases, Goto, Ended, C!Held, channel, group
<1>a. Owner \notin Workers
  BY DEF Owner, Workers
<1>1. CASE InitBoth
  BY <1>1 DEF InitBoth, C!ChannelInit, C!threadVars, G!GroupInit, TaskPlace, TaskEnds
<1>2. CASE SpawnsDone \/ SendsDone \/ WaitReturned \/ Deinited
  BY <1>2 DEF SpawnsDone, SendsDone, WaitReturned, Deinited, Free, TaskPlace, TaskEnds
<1>3. CASE Closes
  BY <1>3 DEF Closes, C!Close, C!Threads, C!history, TaskPlace, TaskEnds
<1>4. CASE Cancels \/ Waits \/ Deinits
  BY <1>4 DEF Cancels, Waits, Deinits, G!Cancel, G!WaitStart, G!DeinitStart, G!OwnerFree,
     TaskPlace, TaskEnds
<1>5. CASE DropsChannel
  BY <1>5 DEF DropsChannel, TaskPlace, TaskEnds
<1> QED
  BY <1>1, <1>2, <1>3, <1>4, <1>5 DEF Program

LEMMA TaskStep ==
  ASSUME ProgramInv, NEW t \in Workers, Body(t)
  PROVE  PoolInv'
<1> USE DEF ProgramInv, PoolInv, OwnerPlace, Places, Ended, C!Held, channel, group
<1>a. Owner \notin Workers
  BY DEF Owner, Workers
<1>b. phase # "init"
  BY DEF Body, Checks, Receives, Works, Stops, CancelsGroup, Running, Workers,
     GP!Inv, GP!TypeOK, GP!Tasks
<1>c. task \in [Workers -> {"new", "running", "returned"}]
  BY DEF GP!Inv, GP!TypeOK, GP!Tasks, Workers
<1>1. ASSUME Leave(t), Running(t, body[t]), cancelled \/ Ended
      PROVE  PoolInv'
  BY <1>1, <1>a, <1>b, <1>c DEF Leave, G!TaskReturns, Running, TaskPlace, TaskEnds
<1>2. CASE Checks(t)
  BY <1>2, <1>1, <1>a, <1>b DEF Checks, Running, TaskPlace, TaskEnds
<1>3. CASE Receives(t)
  <2>1. /\ pc' = [pc EXCEPT ![t] = "enter"]
        /\ \E d : call' = [call EXCEPT ![t] = [op |-> "receive", value |-> 0, deadline |-> d]]
        /\ result' = [result EXCEPT ![t] = "none"]
        /\ call'[t].deadline = "infinite"
        /\ UNCHANGED <<live, closed, count, slot_full>>
    BY <1>3 DEF Receives, C!CallReceive, C!Begin, C!chanVars
  <2>2. t \in DOMAIN pc /\ t \in DOMAIN call /\ t \in DOMAIN result
    BY DEF CP!TypeOK, CP!ThreadTypes, CP!Threads
  <2>3. call'[t].op = "receive"
    BY <2>1, <2>2
  <2> QED
    BY <1>3, <1>a, <1>b, <2>1, <2>2, <2>3 DEF Receives, Running, TaskPlace, TaskEnds
<1>4. CASE Works(t)
  BY <1>4, <1>1, <1>a, <1>b DEF Works, Running, TaskPlace, TaskEnds
<1>5. CASE Stops(t)
  BY <1>5, <1>a, <1>b DEF Stops, C!Close, C!Threads, C!history, Running, TaskPlace, TaskEnds
<1>6. CASE CancelsGroup(t)
  BY <1>6, <1>a, <1>b DEF CancelsGroup, G!Cancel, Running, TaskPlace, TaskEnds
<1> QED
  BY <1>2, <1>3, <1>4, <1>5, <1>6 DEF Body

LEMMA CallStep ==
  ASSUME ProgramInv, NEW t \in Workers \cup {Owner}, InChannel(t)
  PROVE  PoolInv'
<1> USE DEF ProgramInv, PoolInv, InChannel, Stay, program, group
<1>a. Owner \notin Workers
  BY DEF Owner, Workers
<1>1. /\ Moves(t)
      /\ pc[t] # "idle"
      /\ live' = live
      /\ Ended => Ended'
      /\ call[t].op = "receive" /\ call[t].deadline = "infinite" /\ pc[t] # "timedout"
            /\ pc'[t] = "idle" => result'[t] = "OK" \/ Ended'
  <2>1. t \in C!Threads
    BY DEF C!Threads
  <2> QED
    BY <2>1, StepMoves
<1>2. OwnerPlace'
  BY <1>1, <1>a DEF OwnerPlace, Moves, C!Threads
<1>3. ASSUME NEW u \in Workers
      PROVE  TaskPlace(u)' /\ TaskEnds(u)'
  <2>1. CASE u = t
    BY <1>1, <2>1 DEF Moves, TaskPlace, TaskEnds
  <2>2. CASE u # t
    BY <1>1, <2>2 DEF Moves, TaskPlace, TaskEnds, C!Threads
  <2> QED
    BY <2>1, <2>2
<1> QED
  BY <1>2, <1>3

LEMMA WakeStep ==
  ASSUME ProgramInv, NEW t \in Workers \cup {Owner}, Wakes(t)
  PROVE  PoolInv'
  BY DEF ProgramInv, PoolInv, OwnerPlace, TaskPlace, TaskEnds, Wakes, C!SpuriousWakeup, Ended,
     C!Held, C!chanVars, Stay, program, group, CP!TypeOK, CP!ThreadTypes, CP!Threads

LEMMA GroupStep ==
  ASSUME ProgramInv, Spawns \/ InGroup
  PROVE  PoolInv'
<1> USE DEF ProgramInv, PoolInv, OwnerPlace, Stay, program, channel, Ended, C!Held
<1>1. CASE Spawns
  BY <1>1 DEF Spawns, G!SpawnEnter, TaskPlace, TaskEnds
<1>2. CASE InGroup /\ G!SpawnStarts
  <2>1. /\ task' = [task EXCEPT ![spawned + 1] = "running"]
        /\ task[spawned + 1] = "new" /\ spawned + 1 \in Workers
        /\ impl = "live"
    BY <1>2, PoolAssumption DEF G!SpawnStarts, GP!Inv, GP!TypeOK, GP!Closed, GP!Lifetime,
       GP!Tasks, Workers
  <2>2. task \in [Workers -> {"new", "running", "returned"}]
    BY DEF GP!Inv, GP!TypeOK, GP!Tasks, Workers
  <2>3. \A t \in Workers : task'[t] = task[t] \/ (task[t] = "new" /\ task'[t] = "running")
    BY <2>1, <2>2
  <2> QED
    BY <1>2, <2>1, <2>3 DEF InGroup, G!SpawnStarts, TaskPlace, TaskEnds
<1>3. CASE InGroup /\ ~G!SpawnStarts
  <2>1. UNCHANGED <<spawned, task, cancelled, program, channel>>
    BY <1>3 DEF InGroup, G!InCall, G!SpawnFails, G!JoinSkip, G!Join, G!WaitEnd, G!DeinitEnd,
       G!JoinFails
  <2>2. CASE G!DeinitEnd
    BY <2>1, <2>2 DEF G!DeinitEnd, TaskPlace, TaskEnds
  <2>3. CASE G!WaitEnd
    BY <2>1, <2>3 DEF G!WaitEnd, TaskPlace, TaskEnds
  <2>4. CASE G!SpawnFails \/ G!JoinSkip \/ G!Join \/ G!JoinFails
    BY <2>1, <2>4 DEF G!SpawnFails, G!JoinSkip, G!Join, G!JoinFails, TaskPlace, TaskEnds
  <2> QED
    BY <1>3, <2>2, <2>3, <2>4 DEF InGroup, G!InCall
<1> QED
  BY <1>1, <1>2, <1>3

LEMMA SendStep ==
  ASSUME ProgramInv, Sends
  PROVE  PoolInv'
<1>1. Owner \notin Workers
  BY DEF Owner, Workers
<1>2. /\ pc' = [pc EXCEPT ![Owner] = "enter"]
      /\ \E v : call' = [call EXCEPT ![Owner] = v]
      /\ result' = [result EXCEPT ![Owner] = "none"]
      /\ UNCHANGED <<live, closed, count, slot_full, phase, body>>
      /\ phase = "send"
  BY DEF Sends, C!CallSend, C!Begin, C!chanVars, Stay, program
<1>3. \A u \in Workers : pc'[u] = pc[u] /\ call'[u] = call[u] /\ result'[u] = result[u]
  BY <1>1, <1>2 DEF ProgramInv, CP!TypeOK, CP!ThreadTypes, CP!Threads
<1>4. UNCHANGED group
  BY DEF Sends
<1> QED
  BY <1>2, <1>3, <1>4 DEF ProgramInv, PoolInv, OwnerPlace, TaskPlace, TaskEnds, Ended, C!Held,
     group

----------------------------------------------------------------------------
\* The program of an owner and its tasks keeps the components' invariants and its own.
THEOREM WorkerPoolInvariant == Spec => []ProgramInv
<1>1. ProgramInv /\ [Next]_vars => ProgramInv'
  <2> SUFFICES ASSUME ProgramInv, [Next]_vars PROVE ProgramInv'
    OBVIOUS
  <2>1. PoolInv'
    <3>1. CASE UNCHANGED vars
      BY <3>1 DEF ProgramInv, PoolInv, OwnerPlace, TaskPlace, TaskEnds, Ended, C!Held, vars,
         channel, group, program
    <3>2. CASE Program \/ Spawns \/ Sends \/ InGroup
      BY <3>2, OwnerStep, GroupStep, SendStep
    <3>3. CASE \E t \in Workers : Body(t)
      BY <3>3, TaskStep
    <3>4. CASE \E t \in Workers \cup {Owner} : InChannel(t) \/ Wakes(t)
      BY <3>4, CallStep, WakeStep
    <3> QED
      BY <3>1, <3>2, <3>3, <3>4 DEF Next
  <2> QED
    BY <2>1, ComponentInvariants DEF ProgramInv
<1> QED
  BY <1>1, InitProgram, PTL DEF Spec

\* The precondition of lor_channel_deinit, which no call can test: once
\* lor_task_group_deinit has freed the group, no task is in a call of the channel.
THEOREM WorkerPoolNobodyInside == Spec => []NobodyInside
  BY FreedIsQuiet, WorkerPoolInvariant, PTL

\* A group that was waited for and not cancelled has done every job whose send succeeded.
THEOREM WorkerPoolNothingAbandoned == Spec => []NothingAbandoned
<1>1. ProgramInv => NothingAbandoned
  <2> SUFFICES ASSUME ProgramInv, waited, ~cancelled, spawned > 0 PROVE received = accepted
    BY DEF NothingAbandoned
  <2>1. 1 \in Workers /\ task[1] = "returned"
    BY PoolAssumption DEF ProgramInv, GP!Inv, GP!TypeOK, GP!WaitedIsFinal, GP!Tasks, Workers
  <2>2. Ended
    BY <2>1 DEF ProgramInv, PoolInv, TaskPlace, TaskEnds
  <2>3. CP!Held = 0
    BY <2>2 DEF Ended, C!Held, CP!Held
  <2>4. /\ received \in Seq(CP!Bytes) /\ accepted \in Seq(CP!Values)
        /\ Len(accepted) = Len(received)
        /\ \A i \in 1 .. Len(received) : received[i] = accepted[i]
    BY <2>3 DEF ProgramInv, CP!TypeOK, CP!FieldTypes, CP!ExactlyOnce
  <2> QED
    BY <2>4
<1> QED
  BY <1>1, WorkerPoolInvariant, PTL

=============================================================================

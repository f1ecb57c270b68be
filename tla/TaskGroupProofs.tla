-------------------------- MODULE TaskGroupProofs --------------------------
(***************************************************************************)
(* The safety of LorTaskGroup for every number of tasks and failed joins.  *)
(*                                                                         *)
(* Neither GroupOutlivesTasks nor WaitedIsFinal is inductive: that waited  *)
(* is final rests on accepting being withdrawn before the loop of wait     *)
(* starts, on a running task always having a handle, and on no call that   *)
(* could start a task being under way when waited is set.                  *)
(***************************************************************************)
EXTENDS TaskGroup, TLAPS

\* A task has a handle from its start until it has been joined, and only then.
Handles == \A t \in Tasks :
    /\ handle[t] => task[t] # "new"
    /\ task[t] = "running" => handle[t]

\* The group closes before the owner waits and stays closed afterwards.
Closed ==
    /\ pc \in {"join", "free"} => ~accepting
    /\ waited => ~accepting /\ pc \notin {"spawn", "join"}
    /\ pc = "spawn" => count < MaxTasks

\* A group that is not there is not used, and is only released once waited.
Lifetime ==
    /\ impl = "none" => ~waited
    /\ impl # "live" => pc = "idle"
    /\ impl = "freed" => waited

\* The loop of wait has seen every handle below next go, unless a join failed.
Progress ==
    pc = "join" /\ ~deiniting /\ result = "OK" =>
        \A t \in Tasks : t < next => ~handle[t]

Inv == TypeOK /\ Handles /\ Closed /\ Lifetime /\ WaitedIsFinal /\ Progress

\* The initial state satisfies the invariant.
LEMMA InitInv == Init => Inv
<1> SUFFICES ASSUME Init PROVE Inv
  OBVIOUS
<1> USE GroupAssumption DEF Init
<1>1. TypeOK
  <2>1. \A t \in Tasks : task[t] = "new" /\ t > count
    BY DEF Tasks
  <2>2. handle \in [Tasks -> BOOLEAN] /\ task \in [Tasks -> {"new", "running", "returned"}]
    OBVIOUS
  <2>3. count \in 0 .. MaxTasks /\ next \in 1 .. MaxTasks + 1 /\ failures \in 0 .. MaxFailures
    OBVIOUS
  <2>4. \A t \in Tasks : task[t] = "new" <=> t > count
    BY <2>1
  <2> QED
    BY <2>2, <2>3, <2>4 DEF TypeOK, Statuses
<1>2. Handles /\ Closed /\ Lifetime /\ WaitedIsFinal /\ Progress
  BY DEF Handles, Closed, Lifetime, WaitedIsFinal, Progress
<1> QED
  BY <1>1, <1>2 DEF Inv

\* Every step of the owner and of the tasks preserves the invariant.
LEMMA StepInv == Inv /\ [Next]_vars => Inv'
<1> SUFFICES ASSUME Inv, [Next]_vars PROVE Inv'
  OBVIOUS
<1> USE GroupAssumption DEF Inv, TypeOK, Handles, Closed, Lifetime, WaitedIsFinal,
        Progress, Tasks, Statuses, OwnerFree
<1>1. CASE GroupInit
  BY <1>1 DEF GroupInit
<1>2. CASE SpawnRefused
  BY <1>2 DEF SpawnRefused
<1>3. CASE SpawnEnter
  BY <1>3 DEF SpawnEnter
<1>4. CASE SpawnFails
  BY <1>4 DEF SpawnFails
<1>5. CASE SpawnStarts
  <2>1. count + 1 \in Tasks /\ ~waited /\ impl = "live"
    BY <1>5 DEF SpawnStarts
  <2>2. TypeOK'
    BY <1>5, <2>1 DEF SpawnStarts
  <2>3. Handles'
    BY <1>5, <2>1 DEF SpawnStarts
  <2>4. Closed' /\ Lifetime' /\ WaitedIsFinal' /\ Progress'
    BY <1>5, <2>1 DEF SpawnStarts
  <2> QED
    BY <2>2, <2>3, <2>4
<1>6. CASE Cancel
  BY <1>6 DEF Cancel
<1>7. CASE WaitStart
  <2>1. TypeOK'
    <3>1. next' \in 1 .. MaxTasks + 1 /\ pc' \in {"idle", "spawn", "join", "free"}
      BY <1>7 DEF WaitStart
    <3>2. \A t \in Tasks : task'[t] = "new" <=> t > count'
      BY <1>7 DEF WaitStart
    <3>3. impl' \in {"none", "live", "freed"} /\ accepting' \in BOOLEAN
          /\ cancelled' \in BOOLEAN /\ waited' \in BOOLEAN /\ deiniting' \in BOOLEAN
          /\ result' \in Statuses /\ failures' \in 0 .. MaxFailures
      BY <1>7 DEF WaitStart
    <3>4. count' \in 0 .. MaxTasks /\ handle' \in [Tasks -> BOOLEAN]
          /\ task' \in [Tasks -> {"new", "running", "returned"}]
      BY <1>7 DEF WaitStart
    <3> QED
      BY <3>1, <3>2, <3>3, <3>4 DEF TypeOK
  <2>2. Handles' /\ Closed' /\ Lifetime' /\ WaitedIsFinal'
    BY <1>7 DEF WaitStart
  <2>3. Progress'
    BY <1>7 DEF WaitStart
  <2> QED
    BY <2>1, <2>2, <2>3
<1>8. CASE DeinitStart
  <2>1. TypeOK'
    <3>1. next' \in 1 .. MaxTasks + 1 /\ pc' \in {"idle", "spawn", "join", "free"}
      BY <1>8 DEF DeinitStart
    <3>2. \A t \in Tasks : task'[t] = "new" <=> t > count'
      BY <1>8 DEF DeinitStart
    <3>3. impl' \in {"none", "live", "freed"} /\ accepting' \in BOOLEAN
          /\ cancelled' \in BOOLEAN /\ waited' \in BOOLEAN /\ deiniting' \in BOOLEAN
          /\ result' \in Statuses /\ failures' \in 0 .. MaxFailures
      BY <1>8 DEF DeinitStart
    <3>4. count' \in 0 .. MaxTasks /\ handle' \in [Tasks -> BOOLEAN]
          /\ task' \in [Tasks -> {"new", "running", "returned"}]
      BY <1>8 DEF DeinitStart
    <3> QED
      BY <3>1, <3>2, <3>3, <3>4 DEF TypeOK
  <2>2. Handles' /\ Closed' /\ Lifetime' /\ WaitedIsFinal'
    BY <1>8 DEF DeinitStart
  <2>3. Progress'
    BY <1>8 DEF DeinitStart
  <2> QED
    BY <2>1, <2>2, <2>3
<1>9. CASE JoinSkip
  <2>1. TypeOK'
    BY <1>9 DEF JoinSkip
  <2>2. Handles' /\ Closed' /\ Lifetime' /\ WaitedIsFinal'
    BY <1>9 DEF JoinSkip
  <2>3. Progress'
    BY <1>9 DEF JoinSkip
  <2> QED
    BY <2>1, <2>2, <2>3
<1>10. CASE Join
  <2>1. TypeOK'
    BY <1>10 DEF Join
  <2>2. Handles' /\ Closed' /\ Lifetime' /\ WaitedIsFinal'
    BY <1>10 DEF Join
  <2>3. Progress'
    BY <1>10 DEF Join
  <2> QED
    BY <2>1, <2>2, <2>3
<1>11. CASE JoinFails
  <2>1. TypeOK'
    BY <1>11 DEF JoinFails
  <2>2. Handles' /\ Closed' /\ Lifetime' /\ WaitedIsFinal'
    BY <1>11 DEF JoinFails
  <2>3. Progress'
    BY <1>11 DEF JoinFails
  <2> QED
    BY <2>1, <2>2, <2>3
<1>12. CASE WaitEnd
  <2>1. TypeOK' /\ Handles' /\ Closed' /\ Lifetime' /\ Progress'
    BY <1>12 DEF WaitEnd
  <2>2. WaitedIsFinal'
    <3> SUFFICES ASSUME waited', NEW t \in Tasks PROVE task[t] # "running" /\ ~handle[t]
      BY <1>12 DEF WaitEnd
    <3>1. t \in 1 .. count => ~handle[t]
      BY <1>12 DEF WaitEnd
    <3>2. t > count => ~handle[t]
      OBVIOUS
    <3> QED
      BY <3>1, <3>2
  <2> QED
    BY <2>1, <2>2
<1>13. CASE DeinitEnd
  BY <1>13 DEF DeinitEnd
<1>14. CASE \E t \in Tasks : TaskReturns(t)
  <2> PICK t \in Tasks : TaskReturns(t)
    BY <1>14
  <2> QED
    BY DEF TaskReturns
<1>15. CASE UNCHANGED vars
  BY <1>15 DEF vars
<1> QED
  BY <1>1, <1>2, <1>3, <1>4, <1>5, <1>6, <1>7, <1>8, <1>9, <1>10, <1>11, <1>12, <1>13,
     <1>14, <1>15 DEF Next, InCall

\* The invariant holds throughout.
LEMMA Invariance == Spec => []Inv
  BY InitInv, StepInv, PTL DEF Spec
----------------------------------------------------------------------------
\* Every variable keeps its type, and count is the number of tasks started.
THEOREM TaskGroupTypes == Spec => []TypeOK
  BY Invariance, PTL DEF Inv

\* No task is started, left running or left without a join once waited is set.
THEOREM TaskGroupWaitedIsFinal == Spec => []WaitedIsFinal
  BY Invariance, PTL DEF Inv

\* lor_task_group_deinit never frees a group that a task still reads.
THEOREM TaskGroupOutlivesTasks == Spec => []GroupOutlivesTasks
<1>1. Inv => GroupOutlivesTasks
  BY DEF Inv, Lifetime, WaitedIsFinal, GroupOutlivesTasks
<1> QED
  BY <1>1, Invariance, PTL

\* A wait that returns LOR_STATUS_OK has joined every task.
THEOREM TaskGroupWaitOk == Spec => WaitOkMeansDone
<1>1. Inv /\ Inv' /\ [Next]_vars =>
          [pc = "join" /\ pc' = "idle" /\ result = "OK" =>
              waited' /\ \A t \in Tasks : task'[t] # "running" /\ ~handle'[t]]_vars
  <2> SUFFICES ASSUME Inv, Inv', Next, pc = "join", pc' = "idle", result = "OK"
               PROVE waited' /\ \A t \in Tasks : task'[t] # "running" /\ ~handle'[t]
    BY DEF vars
  <2>1. WaitEnd
    BY DEF Next, InCall, GroupInit, SpawnRefused, SpawnEnter, Cancel, WaitStart, DeinitStart,
       SpawnFails, SpawnStarts, JoinSkip, Join, JoinFails, DeinitEnd, TaskReturns, OwnerFree
  <2>2. ~deiniting /\ next > count
    BY <2>1 DEF WaitEnd, Inv, TypeOK
  <2>3. \A t \in 1 .. count : t \in Tasks /\ t < next
    BY <2>2, GroupAssumption DEF Inv, TypeOK, Tasks
  <2>4. \A t \in 1 .. count : ~handle[t]
    BY <2>2, <2>3 DEF Inv, Progress
  <2>5. waited'
    BY <2>1, <2>4 DEF WaitEnd
  <2> QED
    BY <2>5 DEF Inv, WaitedIsFinal
<1> QED
  BY <1>1, Invariance, PTL DEF Spec, WaitOkMeansDone
=============================================================================

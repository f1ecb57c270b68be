----------------------------- MODULE TaskGroup -----------------------------
(***************************************************************************)
(* LorTaskGroup of src/concurrency.c: an owner spawns tasks, each on a     *)
(* thread of its own, cancels them, waits for them and releases the group. *)
(* Tasks read the group's cancellation flag while the owner is inside any  *)
(* of these calls, and a task that knows the group may cancel it.          *)
(*                                                                         *)
(* Tasks are numbered in the order of spawning: task t is threads[t - 1].  *)
(* Allocation, thread creation and pthread_join may fail.                  *)
(***************************************************************************)
EXTENDS Integers

CONSTANTS
    MaxTasks,    \* bound: tasks spawned
    Endless,     \* tasks that only return once they see the cancellation
    MaxFailures  \* bound: failed joins

ASSUME GroupAssumption ==
    /\ MaxTasks \in Nat /\ MaxFailures \in Nat
    /\ Endless \subseteq 1 .. MaxTasks

VARIABLES
    impl,        \* group->impl: not allocated, live, or freed
    accepting, cancelled, waited, count,
    handle,      \* whether threads[t - 1].impl is not NULL
    task,        \* each task: not started, running, or returned
    pc,          \* where the owner is: in no call, in spawn past its check, in
                 \* the loop of wait, or in deinit past wait
    next,        \* the task whose turn it is in the loop of wait
    deiniting,   \* whether wait was called by lor_task_group_deinit
    result,      \* what the owner's last call returned
    failures     \* history: joins that failed

vars == <<impl, accepting, cancelled, waited, count, handle, task, pc, next,
          deiniting, result, failures>>

Tasks == 1 .. MaxTasks
Statuses == {"OK", "CLOSED", "SYSTEM_ERROR"}
----------------------------------------------------------------------------
Init ==
    /\ impl = "none"
    /\ accepting = FALSE /\ cancelled = FALSE /\ waited = FALSE /\ count = 0
    /\ handle = [t \in Tasks |-> FALSE]
    /\ task = [t \in Tasks |-> "new"]
    /\ pc = "idle" /\ next = 1 /\ deiniting = FALSE
    /\ result = "OK" /\ failures = 0

\* lor_task_group_init.
GroupInit ==
    /\ impl = "none"
    /\ impl' = "live"
    /\ accepting' = TRUE
    /\ result' = "OK"
    /\ UNCHANGED <<cancelled, waited, count, handle, task, pc, next, deiniting, failures>>

\* The owner is in no call, and the group is there.
OwnerFree == impl = "live" /\ pc = "idle"

----------------------------------------------------------------------------
(* lor_task_group_spawn: the check, and then the start of a thread.         *)

SpawnRefused ==
    /\ OwnerFree
    /\ ~accepting \/ cancelled
    /\ result' = "CLOSED"
    /\ UNCHANGED <<impl, accepting, cancelled, waited, count, handle, task, pc, next,
                   deiniting, failures>>

SpawnEnter ==
    /\ OwnerFree
    /\ accepting /\ ~cancelled
    /\ count < MaxTasks
    /\ pc' = "spawn"
    /\ UNCHANGED <<impl, accepting, cancelled, waited, count, handle, task, next,
                   deiniting, result, failures>>

\* No memory for the handle or the start record, or no thread.
SpawnFails ==
    /\ pc = "spawn"
    /\ pc' = "idle"
    /\ result' = "SYSTEM_ERROR"
    /\ UNCHANGED <<impl, accepting, cancelled, waited, count, handle, task, next,
                   deiniting, failures>>

SpawnStarts ==
    /\ pc = "spawn"
    /\ pc' = "idle"
    /\ count' = count + 1
    /\ handle' = [handle EXCEPT ![count + 1] = TRUE]
    /\ task' = [task EXCEPT ![count + 1] = "running"]
    /\ result' = "OK"
    /\ UNCHANGED <<impl, accepting, cancelled, waited, next, deiniting, failures>>

----------------------------------------------------------------------------
(* Cancellation.                                                            *)

\* lor_task_group_cancel, by the owner or by a task of the group.
Cancel ==
    /\ OwnerFree \/ \E t \in Tasks : task[t] = "running"
    /\ accepting' = FALSE
    /\ cancelled' = TRUE
    /\ UNCHANGED <<impl, waited, count, handle, task, pc, next, deiniting, result, failures>>

\* A task returns: one that runs until cancelled reads the flag of the group
\* (lor_task_cancelled).
TaskReturns(t) ==
    /\ task[t] = "running"
    /\ t \in Endless => cancelled
    /\ task' = [task EXCEPT ![t] = "returned"]
    /\ UNCHANGED <<impl, accepting, cancelled, waited, count, handle, pc, next,
                   deiniting, result, failures>>

----------------------------------------------------------------------------
(* lor_task_group_wait, called by the owner or by lor_task_group_deinit.    *)

WaitStart ==
    /\ OwnerFree
    /\ accepting' = FALSE
    /\ deiniting' = FALSE
    /\ result' = "OK"
    /\ IF waited THEN UNCHANGED <<pc, next>> ELSE pc' = "join" /\ next' = 1
    /\ UNCHANGED <<impl, cancelled, waited, count, handle, task, failures>>

\* Mutant: deinit does not cancel the tasks it waits for.
DeinitStartQuiet ==
    /\ OwnerFree
    /\ accepting' = FALSE
    /\ deiniting' = TRUE
    /\ pc' = IF waited THEN "free" ELSE "join"
    /\ next' = 1
    /\ UNCHANGED <<impl, cancelled, waited, count, handle, task, result, failures>>

\* lor_task_group_deinit: cancels and waits.
DeinitStart ==
    /\ OwnerFree
    /\ accepting' = FALSE
    /\ cancelled' = TRUE
    /\ deiniting' = TRUE
    /\ pc' = IF waited THEN "free" ELSE "join"
    /\ next' = 1
    /\ UNCHANGED <<impl, waited, count, handle, task, result, failures>>

\* The loop reaches a task that an earlier wait joined.
JoinSkip ==
    /\ pc = "join" /\ next <= count
    /\ ~handle[next]
    /\ next' = next + 1
    /\ UNCHANGED <<impl, accepting, cancelled, waited, count, handle, task, pc,
                   deiniting, result, failures>>

\* lor_thread_join returns when the task has, and resets its handle.
Join ==
    /\ pc = "join" /\ next <= count
    /\ handle[next] /\ task[next] = "returned"
    /\ handle' = [handle EXCEPT ![next] = FALSE]
    /\ next' = next + 1
    /\ UNCHANGED <<impl, accepting, cancelled, waited, count, task, pc, deiniting,
                   result, failures>>

\* Mutant: the handle of a task that could not be joined is forgotten.
JoinFailsForgets ==
    /\ pc = "join" /\ next <= count
    /\ handle[next]
    /\ failures < MaxFailures
    /\ handle' = [handle EXCEPT ![next] = FALSE]
    /\ next' = next + 1
    /\ result' = IF result = "OK" THEN "SYSTEM_ERROR" ELSE result
    /\ failures' = failures + 1
    /\ UNCHANGED <<impl, accepting, cancelled, waited, count, task, pc, deiniting>>

\* Mutant: the loop drops the status of a failed join.
JoinFailsQuietly ==
    /\ pc = "join" /\ next <= count
    /\ handle[next]
    /\ failures < MaxFailures
    /\ next' = next + 1
    /\ failures' = failures + 1
    /\ UNCHANGED <<impl, accepting, cancelled, waited, count, handle, task, pc,
                   deiniting, result>>

\* pthread_join fails: the task keeps its handle, the loop goes on.
JoinFails ==
    /\ pc = "join" /\ next <= count
    /\ handle[next]
    /\ failures < MaxFailures
    /\ next' = next + 1
    /\ result' = IF result = "OK" THEN "SYSTEM_ERROR" ELSE result
    /\ failures' = failures + 1
    /\ UNCHANGED <<impl, accepting, cancelled, waited, count, handle, task, pc, deiniting>>

\* Mutant: the second loop, which looks for handles that are left, is gone.
WaitEndTrusts ==
    /\ pc = "join" /\ next > count
    /\ waited' = TRUE
    /\ pc' = IF deiniting THEN "free" ELSE "idle"
    /\ UNCHANGED <<impl, accepting, cancelled, count, handle, task, next, deiniting,
                   result, failures>>

WaitEnd ==
    /\ pc = "join" /\ next > count
    /\ waited' = (\A t \in 1 .. count : ~handle[t])
    /\ pc' = IF deiniting THEN "free" ELSE "idle"
    /\ UNCHANGED <<impl, accepting, cancelled, count, handle, task, next, deiniting,
                   result, failures>>

\* The rest of lor_task_group_deinit: a group with a task that could not be
\* joined is kept.
DeinitEnd ==
    /\ pc = "free"
    /\ pc' = "idle"
    /\ impl' = IF waited THEN "freed" ELSE impl
    /\ UNCHANGED <<accepting, cancelled, waited, count, handle, task, next, deiniting,
                   result, failures>>

----------------------------------------------------------------------------
InCall == SpawnFails \/ SpawnStarts \/ JoinSkip \/ Join \/ WaitEnd \/ DeinitEnd

Next ==
    \/ GroupInit \/ SpawnRefused \/ SpawnEnter \/ Cancel \/ WaitStart \/ DeinitStart
    \/ InCall \/ JoinFails
    \/ \E t \in Tasks : TaskReturns(t)

Spec == Init /\ [][Next]_vars

\* A call of the owner goes on while it can, and a task that has nothing left
\* to do, or sees that it is cancelled, returns. No join has to fail: one that
\* waits for a task which never returns waits forever.
Fairness ==
    /\ WF_vars(InCall)
    /\ \A t \in Tasks : WF_vars(TaskReturns(t))

FairSpec == Spec /\ Fairness
----------------------------------------------------------------------------
(* Properties.                                                              *)

\* Every variable has its type, and the tasks up to count have been started.
TypeOK ==
    /\ impl \in {"none", "live", "freed"}
    /\ accepting \in BOOLEAN /\ cancelled \in BOOLEAN /\ waited \in BOOLEAN
    /\ count \in 0 .. MaxTasks
    /\ handle \in [Tasks -> BOOLEAN]
    /\ task \in [Tasks -> {"new", "running", "returned"}]
    /\ \A t \in Tasks : task[t] = "new" <=> t > count
    /\ pc \in {"idle", "spawn", "join", "free"}
    /\ next \in 1 .. MaxTasks + 1
    /\ deiniting \in BOOLEAN
    /\ result \in Statuses
    /\ failures \in 0 .. MaxFailures

\* A task reads the group's cancellation flag as long as it runs, so the group
\* is not freed before all of them have returned and have been joined, whatever
\* was spawned, cancelled or waited for before lor_task_group_deinit.
GroupOutlivesTasks ==
    impl = "freed" => \A t \in Tasks : task[t] # "running" /\ ~handle[t]

\* The waited flag, which makes later waits return at once, is never stale: no
\* task is started, or left without a join, once it is set.
WaitedIsFinal ==
    waited => \A t \in Tasks : task[t] # "running" /\ ~handle[t]

\* A wait that returns LOR_STATUS_OK has joined every task, whatever was cancelled, and
\* which joins have failed in earlier calls of wait.
WaitOkMeansDone ==
    [][pc = "join" /\ pc' = "idle" /\ result = "OK" =>
          waited' /\ \A t \in Tasks : task'[t] # "running" /\ ~handle'[t]]_vars

\* If no join fails, lor_task_group_deinit frees the group, even with tasks
\* that run until they are cancelled.
DeinitFrees == (pc \in {"join", "free"} /\ deiniting /\ failures = 0) ~>
               (impl = "freed" \/ failures # 0)
=============================================================================

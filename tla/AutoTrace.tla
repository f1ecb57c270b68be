----------------------------- MODULE AutoTrace -----------------------------
(***************************************************************************)
(* Automatic zones of src/trace.c: the compiler calls a hook on entry to   *)
(* and on exit from every instrumented function of a thread, and the hook  *)
(* begins or ends a zone of the recorder bound to the thread.              *)
(*                                                                         *)
(* A recorder is represented by the calls whose zones are open in it; its  *)
(* buffer is the business of Trace. The program keeps the discipline that  *)
(* the zones need: the function that binds also unbinds, or finishes the   *)
(* recorder; the function that pauses also resumes, and none that is       *)
(* called meanwhile does, since pauses are not counted.                    *)
(***************************************************************************)
EXTENDS Integers, Sequences

CONSTANTS
    Recorders,  \* LorTraceThread structures
    None,
    MaxDepth,   \* bound: functions on the stack
    MaxCalls    \* bound: calls made

ASSUME AutoAssumption == None \notin Recorders

VARIABLES
    auto_thread,  \* lor_trace__auto_thread
    enabled,  \* lor_trace__auto_enabled
    live,     \* the recorders that are initialized
    open,     \* the calls whose zones are open, for each recorder
    stack,    \* the calls running: number, whether the call has bound or paused
    calls,    \* number of calls made
    ended     \* history: the call that ended a zone last, and the zone's

autoVars == <<auto_thread, enabled, live, open, stack, calls, ended>>

Top == stack[Len(stack)]
Records == enabled /\ auto_thread # None
----------------------------------------------------------------------------
AutoInit ==
    /\ auto_thread = None /\ enabled = FALSE
    /\ live = {} /\ open = [r \in Recorders |-> << >>]
    /\ stack = <<[id |-> 0, binds |-> FALSE, pauses |-> FALSE]>> /\ calls = 0
    /\ ended = [by |-> 0, zone |-> 0]

\* lor_trace_thread_init and lor_trace_thread_finish, which unbinds the recorder.
RecorderInit(r) ==
    /\ r \notin live
    /\ live' = live \cup {r}
    /\ UNCHANGED <<auto_thread, enabled, open, stack, calls, ended>>

\* Mutant: the thread goes on recording into what was freed.
FinishKeepsBinding(r) == UNCHANGED <<auto_thread, enabled>>

FinishUnbinds(r) ==
    IF auto_thread = r THEN auto_thread' = None /\ enabled' = FALSE
    ELSE UNCHANGED <<auto_thread, enabled>>

RecorderFinish(r) ==
    /\ r \in live /\ (auto_thread = r => Top.binds /\ ~Top.pauses)
    /\ FinishUnbinds(r)
    /\ live' = live \ {r} /\ open' = [open EXCEPT ![r] = << >>]
    /\ stack' = IF auto_thread = r THEN [stack EXCEPT ![Len(stack)].binds = FALSE] ELSE stack
    /\ UNCHANGED <<calls, ended>>

\* lor_trace_auto_bind: another recorder that is bound stays bound.
Bind(r) ==
    /\ r \in live /\ auto_thread \in {None, r} /\ ~Top.pauses
    /\ auto_thread = r => Top.binds
    /\ auto_thread' = r /\ enabled' = TRUE
    /\ stack' = [stack EXCEPT ![Len(stack)].binds = TRUE]
    /\ UNCHANGED <<live, open, calls, ended>>

\* lor_trace_auto_unbind.
Unbind ==
    /\ Top.binds /\ ~Top.pauses
    /\ auto_thread' = None /\ enabled' = FALSE
    /\ stack' = [stack EXCEPT ![Len(stack)].binds = FALSE]
    /\ UNCHANGED <<live, open, calls, ended>>

\* lor_trace_auto_disable.
Pause ==
    /\ Records /\ enabled' = FALSE
    /\ stack' = [stack EXCEPT ![Len(stack)].pauses = TRUE]
    /\ UNCHANGED <<auto_thread, live, open, calls, ended>>

\* lor_trace_auto_enable.
Resume ==
    /\ Top.pauses
    /\ enabled' = (auto_thread # None \/ enabled)
    /\ stack' = [stack EXCEPT ![Len(stack)].pauses = FALSE]
    /\ UNCHANGED <<auto_thread, live, open, calls, ended>>

\* Mutant: the hook on entry asks only for the binding.
EntersBound == auto_thread # None

\* Whether __cyg_profile_func_enter records.
Enters == Records

\* An instrumented function is called, and its hook begins a zone.
Call ==
    /\ Len(stack) < MaxDepth /\ calls < MaxCalls
    /\ calls' = calls + 1
    /\ stack' = Append(stack, [id |-> calls', binds |-> FALSE, pauses |-> FALSE])
    /\ open' = IF Enters THEN [open EXCEPT ![auto_thread] = Append(@, calls')] ELSE open
    /\ UNCHANGED <<auto_thread, enabled, live, ended>>

\* It returns: __cyg_profile_func_exit ends the innermost zone, if there is one.
Return ==
    /\ Len(stack) > 1 /\ ~Top.binds /\ ~Top.pauses
    /\ stack' = SubSeq(stack, 1, Len(stack) - 1)
    /\ IF Records /\ open[auto_thread] # << >>
       THEN /\ ended' = [by |-> Top.id, zone |-> open[auto_thread][Len(open[auto_thread])]]
            /\ open' = [open EXCEPT ![auto_thread] = SubSeq(@, 1, Len(@) - 1)]
       ELSE UNCHANGED <<ended, open>>
    /\ UNCHANGED <<auto_thread, enabled, live, calls>>

AutoNext ==
    \/ \E r \in Recorders : RecorderInit(r) \/ RecorderFinish(r) \/ Bind(r)
    \/ Unbind \/ Pause \/ Resume \/ Call \/ Return

AutoSpec == AutoInit /\ [][AutoNext]_autoVars
----------------------------------------------------------------------------
(* Properties.                                                              *)

\* The hook on exit from a call ends the zone that its hook on entry began, and no zone
\* stays open behind its call, through pauses and changes of the binding between
\* and inside of calls. No hook reaches a recorder that is finished.
ZonesMatchCalls ==
    /\ ended.zone = ended.by
    /\ \A r \in Recorders : \A z \in DOMAIN open[r] :
          \E d \in DOMAIN stack : stack[d].id = open[r][z]
    /\ auto_thread # None => auto_thread \in live
=============================================================================

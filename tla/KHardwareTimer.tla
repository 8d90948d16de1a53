----------------------------- MODULE KHardwareTimer -----------------------------
(* KHardwareTimer: the tasks that end waits with a timeout, over one CoreTiming  *)
(* event.  Tasks are registered and cancelled under the scheduler lock, the      *)
(* callback comes from the CoreTiming thread, which takes the event off its      *)
(* queue before the callback has the scheduler lock: registrations and           *)
(* cancellations come in between.  A cancellation leaves the event where it is.  *)
EXTENDS Integers

CONSTANTS Tasks, NoTask,
          Never    \* the largest s64, "interrupt disabled"; also bounds the clock

ASSUME TimerAssumption == NoTask \notin Tasks /\ Never \in Nat \ {0}

VARIABLES
    now,       \* GetTick()
    time,      \* KTimerTask::m_time, 0 while a task is not in the tree
    nextTask,  \* m_next_task
    wakeup,    \* m_wakeup_time
    event,     \* the time of the event in the queue of CoreTiming, 0 for none
    phase,     \* the callback: "idle", "called" without the lock, "handling" with it
    curTime    \* cur_time of DoInterruptTaskImpl

vars == <<now, time, nextTask, wakeup, event, phase, curTime>>

Registered  == {k \in Tasks : time[k] > 0}
Earliest(S) == {k \in S : \A j \in S : time[k] <= time[j]}

TypeOK ==
    /\ now \in 0..Never
    /\ time \in [Tasks -> 0..Never - 1]
    /\ nextTask \in Tasks \cup {NoTask}
    /\ wakeup \in 1..Never
    /\ event \in 0..Never - 1
    /\ phase \in {"idle", "called", "handling"}
    /\ curTime \in 0..Never

Init ==
    /\ now = 0
    /\ time = [k \in Tasks |-> 0]
    /\ nextTask = NoTask
    /\ wakeup = Never
    /\ event = 0
    /\ phase = "idle"
    /\ curTime = 0

-----------------------------------------------------------------------------

\* Unschedules the event and schedules it anew.
EnableInterrupt(t) == wakeup' = t /\ event' = t

RemoveTaskFromTree(k) ==
    LET rest == Registered \ {k} IN
    /\ time' = [time EXCEPT ![k] = 0]
    /\ IF nextTask = k
       THEN \/ rest = {} /\ nextTask' = NoTask
            \/ nextTask' \in Earliest(rest)
       ELSE UNCHANGED nextTask

\* The interrupt is set only for a new first task, and not if it comes sooner anyway.
\* Mutant: not if it is set at all.
RegisterAbsoluteTaskOnce(k, t) ==
    /\ phase # "handling"
    /\ time[k] = 0
    /\ time' = [time EXCEPT ![k] = t]
    /\ IF nextTask # NoTask /\ time[nextTask] <= t THEN UNCHANGED <<nextTask, wakeup, event>>
       ELSE /\ nextTask' = k
            /\ IF wakeup = Never THEN EnableInterrupt(t) ELSE UNCHANGED <<wakeup, event>>
    /\ UNCHANGED <<now, phase, curTime>>
RegisterAbsoluteTask(k, t) ==
    /\ phase # "handling"
    /\ time[k] = 0
    /\ time' = [time EXCEPT ![k] = t]
    /\ IF nextTask # NoTask /\ time[nextTask] <= t THEN UNCHANGED <<nextTask, wakeup, event>>
       ELSE /\ nextTask' = k
            /\ IF t <= wakeup THEN EnableInterrupt(t) ELSE UNCHANGED <<wakeup, event>>
    /\ UNCHANGED <<now, phase, curTime>>

CancelTask(k) ==
    /\ phase # "handling"
    /\ time[k] > 0
    /\ RemoveTaskFromTree(k)
    /\ UNCHANGED <<now, wakeup, event, phase, curTime>>

\* CoreTiming::Advance pops the event and calls back.
Callback ==
    /\ phase = "idle"
    /\ event # 0 /\ event <= now
    /\ event' = 0
    /\ phase' = "called"
    /\ UNCHANGED <<now, time, nextTask, wakeup, curTime>>

\* DoTask with the locks: a call while the interrupt is disabled is ignored.
DoTask ==
    /\ phase = "called"
    /\ IF wakeup = Never THEN phase' = "idle" /\ UNCHANGED curTime
       ELSE phase' = "handling" /\ curTime' = now
    /\ wakeup' = Never
    /\ UNCHANGED <<now, time, nextTask, event>>

\* Mutant: tasks of the next tick as well.
DueSoon(k) == time[k] <= curTime + 1
Due(k) == time[k] <= curTime

DoInterruptTask ==
    /\ phase = "handling"
    /\ nextTask # NoTask /\ Due(nextTask)
    /\ RemoveTaskFromTree(nextTask)
    /\ UNCHANGED <<now, wakeup, event, phase, curTime>>

\* Mutant: the interrupt is not set again.
DoTaskEndDisabled ==
    /\ phase = "handling"
    /\ nextTask # NoTask => ~Due(nextTask)
    /\ phase' = "idle"
    /\ UNCHANGED <<now, time, nextTask, curTime, wakeup, event>>
DoTaskEnd ==
    /\ phase = "handling"
    /\ nextTask # NoTask => ~Due(nextTask)
    /\ IF nextTask = NoTask THEN UNCHANGED <<wakeup, event>> ELSE EnableInterrupt(time[nextTask])
    /\ phase' = "idle"
    /\ UNCHANGED <<now, time, nextTask, curTime>>

Tick ==
    /\ now < Never
    /\ now' = now + 1
    /\ UNCHANGED <<time, nextTask, wakeup, event, phase, curTime>>

Next ==
    \/ \E k \in Tasks, t \in 1..Never - 1 : RegisterAbsoluteTask(k, t)
    \/ \E k \in Tasks : CancelTask(k)
    \/ Callback \/ DoTask \/ DoInterruptTask \/ DoTaskEnd \/ Tick

Spec == Init /\ [][Next]_vars

\* The CoreTiming thread runs, and gets the scheduler lock.
FairSpec == Spec /\ WF_vars(Callback) /\ WF_vars(DoTask)
                 /\ WF_vars(DoInterruptTask) /\ WF_vars(DoTaskEnd)

-----------------------------------------------------------------------------

\* m_next_task is a task with the earliest time, or null when there is none.
NextTaskIsFirst ==
    /\ nextTask = NoTask => Registered = {}
    /\ nextTask # NoTask => nextTask \in Earliest(Registered)

\* No timeout is lost: while tasks are registered the callback is on its way, or an
\* event is in the queue that comes no later than the first task.
TimerIsArmed ==
    Registered # {} => phase # "idle" \/ (event # 0 /\ event <= time[nextTask])

\* A task is fired at or after its time, and before every later one.
EarliestFirst ==
    [][DoInterruptTask => /\ time[nextTask] <= now
                          /\ \A k \in Registered : time[nextTask] <= time[k]]_vars

\* A task whose time has come is fired or cancelled.
TaskFires == \A k \in Tasks : (time[k] # 0 /\ time[k] <= now) ~> (time[k] = 0 \/ time[k] > now)

\* The inductive invariant: what m_wakeup_time means.  A pending interrupt is never
\* later than the first task, and outside the callback the event is in the queue at
\* exactly that time; within the callback an older event may be there as well.
InterruptIsSet ==
    /\ phase = "handling" => wakeup = Never
    /\ phase # "handling" /\ nextTask # NoTask => wakeup <= time[nextTask]
    /\ phase = "idle" /\ wakeup # Never => event = wakeup
IInv == TypeOK /\ NextTaskIsFirst /\ InterruptIsSet /\ curTime <= now
=============================================================================

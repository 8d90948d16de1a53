------------------------- MODULE KHardwareTimer_proofs -------------------------
(* No timeout is lost, for every set of tasks and every range of times.        *)
EXTENDS KHardwareTimer, TLAPS

\* What RemoveTaskFromTree does to the tree and to m_next_task: the remaining tasks
\* keep their times, and m_next_task is again one with the earliest.
LEMMA RemoveKeepsFirst ==
    ASSUME IInv, NEW k \in Registered, RemoveTaskFromTree(k)
    PROVE  /\ time' \in [Tasks -> 0..Never - 1]
           /\ nextTask' \in Tasks \cup {NoTask}
           /\ NextTaskIsFirst'
           /\ nextTask' # NoTask => nextTask # NoTask /\ time[nextTask] <= time'[nextTask']
  <1>0. TypeOK /\ NextTaskIsFirst
    BY DEF IInv
  <1>1. /\ k \in Tasks /\ time' = [time EXCEPT ![k] = 0]
        /\ Never \in Nat \ {0} /\ NoTask \notin Tasks
    BY TimerAssumption DEF RemoveTaskFromTree, Registered
  <1>2. time' \in [Tasks -> 0..Never - 1]
    BY <1>0, <1>1 DEF TypeOK
  <1>3. Registered' = Registered \ {k}
    BY <1>0, <1>1 DEF TypeOK, Registered
  <1>4. \A j \in Registered' : j \in Tasks /\ time'[j] = time[j]
    BY <1>0, <1>1, <1>3 DEF TypeOK, Registered
  <1>5. nextTask # NoTask
    BY <1>0, <1>1 DEF NextTaskIsFirst
  <1>6. nextTask \in Earliest(Registered)
    BY <1>0, <1>5 DEF NextTaskIsFirst
  <1>7. CASE nextTask = k /\ nextTask' = NoTask /\ Registered \ {k} = {}
    BY <1>1, <1>2, <1>3, <1>7 DEF NextTaskIsFirst
  <1>8. CASE nextTask = k /\ nextTask' \in Earliest(Registered \ {k})
    <2>1. nextTask' \in Registered' /\ nextTask' \in Tasks
      BY <1>3, <1>4, <1>8 DEF Earliest
    <2>2. \A j \in Registered' : time'[nextTask'] <= time'[j]
      BY <1>3, <1>4, <1>8, <2>1 DEF Earliest
    <2>3. time[nextTask] <= time'[nextTask']
      BY <1>3, <1>4, <1>6, <2>1 DEF Earliest
    <2> QED
      BY <1>1, <1>2, <1>5, <2>1, <2>2, <2>3 DEF NextTaskIsFirst, Earliest
  <1>9. CASE nextTask # k /\ nextTask' = nextTask
    <2>1. nextTask' \in Registered' /\ nextTask' \in Tasks
      BY <1>3, <1>4, <1>6, <1>9 DEF Earliest
    <2>2. \A j \in Registered' : time'[nextTask'] <= time'[j]
      BY <1>3, <1>4, <1>6, <1>9, <2>1 DEF Earliest
    <2>3. time[nextTask] <= time'[nextTask']
      BY <1>0, <1>4, <1>9, <2>1 DEF TypeOK
    <2> QED
      BY <1>1, <1>2, <1>5, <2>1, <2>2, <2>3 DEF NextTaskIsFirst, Earliest
  <1> QED
    BY <1>7, <1>8, <1>9 DEF RemoveTaskFromTree

\* A registration, which may come while the callback waits for the lock.
LEMMA RegisterPreserves ==
    ASSUME IInv, NEW k \in Tasks, NEW t \in 1..Never - 1, RegisterAbsoluteTask(k, t)
    PROVE  IInv'
  <1>0. TypeOK /\ NextTaskIsFirst /\ InterruptIsSet /\ curTime <= now
    BY DEF IInv
  <1>1. /\ phase # "handling" /\ time[k] = 0 /\ time' = [time EXCEPT ![k] = t]
        /\ UNCHANGED <<now, phase, curTime>>
        /\ Never \in Nat \ {0} /\ NoTask \notin Tasks
    BY TimerAssumption DEF RegisterAbsoluteTask
  <1>2. time' \in [Tasks -> 0..Never - 1]
    BY <1>0, <1>1 DEF TypeOK
  <1>3. Registered' = Registered \cup {k} /\ k \notin Registered
    BY <1>0, <1>1 DEF TypeOK, Registered
  <1>4. \A j \in Registered : j \in Tasks /\ time'[j] = time[j] /\ time[j] \in Int
    BY <1>0, <1>1, <1>3 DEF TypeOK, Registered
  <1>5. time'[k] = t
    BY <1>0, <1>1 DEF TypeOK
  <1>6. CASE nextTask # NoTask /\ time[nextTask] <= t
    <2>1. UNCHANGED <<nextTask, wakeup, event>>
      BY <1>6 DEF RegisterAbsoluteTask
    <2>2. nextTask \in Registered /\ \A j \in Registered : time[nextTask] <= time[j]
      BY <1>0, <1>6 DEF NextTaskIsFirst, Earliest
    <2>3. nextTask' \in Registered' /\ \A j \in Registered' : time'[nextTask'] <= time'[j]
      BY <1>3, <1>4, <1>5, <1>6, <2>1, <2>2
    <2>4. NextTaskIsFirst'
      BY <1>6, <2>1, <2>3 DEF NextTaskIsFirst, Earliest
    <2>5. InterruptIsSet'
      BY <1>0, <1>1, <1>4, <2>1, <2>2 DEF InterruptIsSet
    <2>6. TypeOK'
      BY <1>0, <1>1, <1>2, <2>1 DEF TypeOK
    <2> QED
      BY <1>0, <1>1, <2>4, <2>5, <2>6 DEF IInv
  <1>7. CASE ~(nextTask # NoTask /\ time[nextTask] <= t)
    <2>1. nextTask' = k
      BY <1>7 DEF RegisterAbsoluteTask
    <2>2. \A j \in Registered : t <= time[j]
      BY <1>0, <1>4, <1>7 DEF NextTaskIsFirst, Earliest
    <2>3. nextTask' \in Registered' /\ \A j \in Registered' : time'[nextTask'] <= time'[j]
      BY <1>3, <1>4, <1>5, <2>1, <2>2
    <2>4. NextTaskIsFirst'
      BY <1>1, <2>1, <2>3 DEF NextTaskIsFirst, Earliest
    <2>5. CASE t <= wakeup
      <3>1. wakeup' = t /\ event' = t
        BY <1>7, <2>5 DEF RegisterAbsoluteTask, EnableInterrupt
      <3>2. TypeOK'
        BY <1>0, <1>1, <1>2, <2>1, <3>1 DEF TypeOK
      <3>3. InterruptIsSet'
        BY <1>1, <1>5, <2>1, <3>1 DEF InterruptIsSet
      <3> QED
        BY <1>0, <1>1, <2>4, <3>2, <3>3 DEF IInv
    <2>6. CASE ~(t <= wakeup)
      <3>1. UNCHANGED <<wakeup, event>>
        BY <1>7, <2>6 DEF RegisterAbsoluteTask
      <3>2. TypeOK'
        BY <1>0, <1>1, <1>2, <2>1, <3>1 DEF TypeOK
      <3>3. InterruptIsSet'
        BY <1>0, <1>1, <1>5, <2>1, <2>6, <3>1 DEF InterruptIsSet, TypeOK
      <3> QED
        BY <1>0, <1>1, <2>4, <3>2, <3>3 DEF IInv
    <2> QED
      BY <2>5, <2>6
  <1> QED
    BY <1>6, <1>7

\* Every step preserves the inductive invariant.
LEMMA Inductive == IInv /\ [Next]_vars => IInv'
  <1> SUFFICES ASSUME IInv, [Next]_vars PROVE IInv'
    OBVIOUS
  <1>0. /\ TypeOK /\ NextTaskIsFirst /\ InterruptIsSet /\ curTime <= now
        /\ Never \in Nat \ {0} /\ NoTask \notin Tasks
    BY TimerAssumption DEF IInv
  <1>1. CASE \E k \in Tasks, t \in 1..Never - 1 : RegisterAbsoluteTask(k, t)
    BY <1>1, RegisterPreserves
  <1>2. CASE \E k \in Tasks : CancelTask(k)
    <2> PICK k \in Tasks : CancelTask(k)
      BY <1>2
    <2>1. /\ k \in Registered /\ RemoveTaskFromTree(k)
          /\ UNCHANGED <<now, wakeup, event, phase, curTime>>
      BY DEF CancelTask, Registered
    <2>2. /\ time' \in [Tasks -> 0..Never - 1] /\ nextTask' \in Tasks \cup {NoTask}
          /\ NextTaskIsFirst'
          /\ nextTask' # NoTask => nextTask # NoTask /\ time[nextTask] <= time'[nextTask']
      BY <2>1, RemoveKeepsFirst
    <2>3. TypeOK'
      BY <1>0, <2>1, <2>2 DEF TypeOK
    <2>4. InterruptIsSet'
      <3>1. nextTask' # NoTask => /\ wakeup \in Int /\ time[nextTask] \in Int
                                  /\ time'[nextTask'] \in Int
        BY <1>0, <2>2, <2>3 DEF TypeOK
      <3> QED
        BY <1>0, <2>1, <2>2, <3>1 DEF InterruptIsSet
    <2> QED
      BY <1>0, <2>1, <2>2, <2>3, <2>4 DEF IInv
  <1>3. CASE Callback
    <2>1. NextTaskIsFirst'
      BY <1>0, <1>3 DEF Callback, NextTaskIsFirst, Earliest, Registered
    <2>2. TypeOK' /\ InterruptIsSet' /\ curTime' <= now'
      BY <1>0, <1>3 DEF Callback, TypeOK, InterruptIsSet
    <2> QED
      BY <2>1, <2>2 DEF IInv
  <1>4. CASE DoTask
    <2>1. NextTaskIsFirst'
      BY <1>0, <1>4 DEF DoTask, NextTaskIsFirst, Earliest, Registered
    <2>2. nextTask # NoTask => wakeup # Never
      BY <1>0, <1>4 DEF DoTask, InterruptIsSet, TypeOK
    <2>3. TypeOK' /\ InterruptIsSet' /\ curTime' <= now'
      BY <1>0, <1>4, <2>2 DEF DoTask, TypeOK, InterruptIsSet
    <2> QED
      BY <2>1, <2>3 DEF IInv
  <1>5. CASE DoInterruptTask
    <2>1. /\ nextTask \in Registered /\ RemoveTaskFromTree(nextTask)
          /\ UNCHANGED <<now, wakeup, event, phase, curTime>> /\ phase = "handling"
      BY <1>0, <1>5 DEF DoInterruptTask, NextTaskIsFirst, Earliest
    <2>2. /\ time' \in [Tasks -> 0..Never - 1] /\ nextTask' \in Tasks \cup {NoTask}
          /\ NextTaskIsFirst'
      BY <2>1, RemoveKeepsFirst
    <2>3. TypeOK' /\ InterruptIsSet' /\ curTime' <= now'
      BY <1>0, <2>1, <2>2 DEF TypeOK, InterruptIsSet
    <2> QED
      BY <2>2, <2>3 DEF IInv
  <1>6. CASE DoTaskEnd
    <2>1. NextTaskIsFirst'
      BY <1>0, <1>6 DEF DoTaskEnd, NextTaskIsFirst, Earliest, Registered
    <2>2. nextTask # NoTask => time[nextTask] \in 1..Never - 1
      BY <1>0 DEF NextTaskIsFirst, Earliest, Registered, TypeOK
    <2>3. TypeOK' /\ InterruptIsSet' /\ curTime' <= now'
      BY <1>0, <1>6, <2>2 DEF DoTaskEnd, EnableInterrupt, TypeOK, InterruptIsSet
    <2> QED
      BY <2>1, <2>3 DEF IInv
  <1>7. CASE Tick
    <2>1. NextTaskIsFirst'
      BY <1>0, <1>7 DEF Tick, NextTaskIsFirst, Earliest, Registered
    <2>2. TypeOK' /\ InterruptIsSet' /\ curTime' <= now'
      BY <1>0, <1>7 DEF Tick, TypeOK, InterruptIsSet
    <2> QED
      BY <2>1, <2>2 DEF IInv
  <1>8. CASE UNCHANGED vars
    <2>1. NextTaskIsFirst'
      BY <1>0, <1>8 DEF vars, NextTaskIsFirst, Earliest, Registered
    <2>2. TypeOK' /\ InterruptIsSet' /\ curTime' <= now'
      BY <1>0, <1>8 DEF vars, TypeOK, InterruptIsSet
    <2> QED
      BY <2>1, <2>2 DEF IInv
  <1> QED
    BY <1>1, <1>2, <1>3, <1>4, <1>5, <1>6, <1>7, <1>8 DEF Next

\* The timer starts in the invariant.
LEMMA InitInvariant == Init => IInv
  BY TimerAssumption DEF Init, IInv, TypeOK, NextTaskIsFirst, InterruptIsSet, Registered

\* Type correctness of the timer, and the meaning of m_next_task and m_wakeup_time.
THEOREM InvariantHolds == Spec => []IInv
  BY InitInvariant, Inductive, PTL DEF Spec

\* RegisterAbsoluteTask and DoTask between them never leave a registered task without
\* a callback on its way or an event that comes in time, whatever is registered or
\* cancelled while a callback waits for the scheduler lock.
THEOREM TimerStaysArmed == Spec => []TimerIsArmed
  <1>1. IInv => TimerIsArmed
    <2> SUFFICES ASSUME IInv, Registered # {}, phase = "idle"
                 PROVE  event # 0 /\ event <= time[nextTask]
      BY DEF TimerIsArmed
    <2>1. TypeOK /\ nextTask # NoTask /\ wakeup <= time[nextTask]
      BY DEF IInv, NextTaskIsFirst, InterruptIsSet
    <2>2. time[nextTask] \in 0..Never - 1 /\ Never \in Nat /\ wakeup \in 1..Never
      BY <2>1, TimerAssumption DEF TypeOK
    <2>3. wakeup # Never
      BY <2>1, <2>2
    <2> QED
      BY <2>1, <2>2, <2>3 DEF IInv, InterruptIsSet
  <1> QED
    BY <1>1, InvariantHolds, PTL

\* DoInterruptTaskImpl fires a task neither early nor after a later one.
THEOREM FiresInOrder == Spec => EarliestFirst
  <1>1. IInv /\ [Next]_vars =>
          [DoInterruptTask => /\ time[nextTask] <= now
                              /\ \A k \in Registered : time[nextTask] <= time[k]]_vars
    <2> SUFFICES ASSUME IInv, DoInterruptTask
                 PROVE  time[nextTask] <= now /\ \A k \in Registered : time[nextTask] <= time[k]
      OBVIOUS
    <2>1. nextTask \in Earliest(Registered) /\ time[nextTask] <= curTime
      BY DEF IInv, NextTaskIsFirst, DoInterruptTask, Due
    <2>2. /\ curTime <= now /\ time[nextTask] \in Int /\ curTime \in Int /\ now \in Int
      BY <2>1, TimerAssumption DEF IInv, TypeOK, Earliest, Registered
    <2> QED
      BY <2>1, <2>2 DEF Earliest
  <1> QED
    BY <1>1, InvariantHolds, PTL DEF Spec, EarliestFirst
=============================================================================

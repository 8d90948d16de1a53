--------------------------- MODULE KScheduler_proofs ---------------------------
(* No thread runs on two cores, for any number of cores and threads, whatever is    *)
(* chosen for the cores: the proof looks at the contexts only, not at the queue.    *)
EXTENDS KScheduler, TLAPS

\* The cores that have the context of their current thread.
Owning == {c \in Cores : pc[c] = "check" \/ c \in Executing}

\* The variables of the cores are indexed by the cores.
Shape ==
    /\ pc = [c \in Cores |-> pc[c]]
    /\ current = [c \in Cores |-> current[c]]
    /\ next = [c \in Cores |-> next[c]]

\* The inductive invariant: a core in the middle of a check owns its context too, and a
\* core that holds the scheduler lock between two steps is executing.
IInv ==
    /\ Shape
    /\ \A c, d \in Owning : c # d /\ current[c] # NoThread => current[c] # current[d]
    /\ \A t : t \in guard <=> t # NoThread /\ \E c \in Owning : current[c] = t
    /\ \A c \in Cores : pc[c] = "check" => next[c] = current[c]
    /\ lock \in Cores => pc[lock] = "locked"

LEMMA InitIInv == Init => IInv
  BY SchedulerAssumption DEF Init, IInv, Shape, Owning, Executing

\* What is done under the scheduler lock leaves the contexts alone.
LEMMA DoneIInv ==
    ASSUME IInv, NEW a \in Cores \cup {Host}, NEW q, NEW u, CanLock(a), Done(a, q, u)
    PROVE  IInv'
<1>1. /\ UNCHANGED <<current, next, guard>>
      /\ a = Host => pc' = pc /\ lock' \in {NoActor, Host}
      /\ a \in Cores => \/ pc' = [pc EXCEPT ![a] = "enable"] /\ lock' = NoActor
                        \/ pc' = [pc EXCEPT ![a] = "locked"] /\ lock' = a
  BY SchedulerAssumption DEF Done
<1>2. a \in Cores => pc[a] = "run"
  BY DEF CanLock
<1>3. Owning' = Owning
  BY <1>1, <1>2, SchedulerAssumption DEF IInv, Shape, Owning, Executing
<1>4. Shape' /\ (\A c \in Cores : pc'[c] = "check" => next'[c] = current'[c])
  BY <1>1, <1>2, SchedulerAssumption DEF IInv, Shape
<1>5. lock' \in Cores => pc'[lock'] = "locked"
  BY <1>1, SchedulerAssumption DEF IInv, Shape
<1>6. QED
  BY <1>1, <1>3, <1>4, <1>5 DEF IInv

\* Every call into the scheduler ends in Done.
LEMMA CallIInv ==
    ASSUME IInv, NEW a \in Cores \cup {Host}, NEW t \in Threads, NEW p, NEW ideal,
           Stop(a, t) \/ Wake(a, t) \/ SetPriority(a, t, p) \/ SetCoreMask(a, t, p, ideal)
    PROVE  IInv'
  BY Zenon, DoneIInv DEF Stop, Wake, SetPriority, SetCoreMask

LEMMA YieldIInv ==
    ASSUME IInv, NEW c \in Cores, NEW later,
           \/ YieldWithoutCoreMigration(c) \/ YieldToAnyThread(c) \/ YieldWithCoreMigration(c, later)
    PROVE  IInv'
  BY Zenon, DoneIInv DEF YieldWithoutCoreMigration, YieldToAnyThread, YieldWithCoreMigration

LEMMA PreemptIInv ==
    ASSUME IInv, NEW later, PreemptThreads(later)
    PROVE  IInv'
  BY Zenon, DoneIInv DEF PreemptThreads

LEMMA PublishIInv ==
    ASSUME IInv, Publish
    PROVE  IInv'
<1>1. CASE StoreHighest \/ StoreNeeds
  BY <1>1 DEF StoreHighest, StoreNeeds, IInv, Shape, Owning, Executing
<1>2. CASE Unlock
  <2>1. Owning' = Owning
    BY <1>2, SchedulerAssumption DEF Unlock, IInv, Shape, Owning, Executing
  <2>2. Shape' /\ (\A c \in Cores : pc'[c] = "check" => next'[c] = current'[c])
    BY <1>2, SchedulerAssumption DEF Unlock, IInv, Shape
  <2>3. QED
    BY <1>2, <2>1, <2>2, SchedulerAssumption DEF Unlock, IInv
<1>3. QED
  BY <1>1, <1>2 DEF Publish

\* The steps of a core that keep its context: from one executing state to another.
LEMMA ExecutingIInv ==
    ASSUME IInv, NEW c \in Cores, NEW v, c \in Executing, pc[c] # "locked",
           pc' = [pc EXCEPT ![c] = v], v \in {"run", "clear", "load"},
           UNCHANGED <<current, next, guard, lock>>
    PROVE  IInv'
<1>1. Owning' = Owning
  BY DEF IInv, Shape, Owning, Executing
<1>2. QED
  BY <1>1 DEF IInv, Shape

\* The steps between the giving up of one context and the taking of the next.
LEMMA WaitingIInv ==
    ASSUME IInv, NEW c \in Cores, NEW v, c \notin Owning,
           pc' = [pc EXCEPT ![c] = v], v \in {"lock", "retry", "reload"},
           next' = [d \in Cores |-> next'[d]], \A d \in Cores \ {c} : next'[d] = next[d],
           UNCHANGED <<current, guard, lock>>
    PROVE  IInv'
<1>1. Owning' = Owning
  BY DEF IInv, Shape, Owning, Executing
<1>2. Shape' /\ (\A d \in Cores : pc'[d] = "check" => next'[d] = current'[d])
  BY DEF IInv, Shape
<1>3. lock' \in Cores => pc'[lock'] = "locked"
  BY DEF IInv, Shape, Owning, Executing
<1>4. QED
  BY <1>1, <1>2, <1>3 DEF IInv

LEMMA UnloadIInv ==
    ASSUME IInv, NEW c \in Cores, c \in Owning, pc[c] # "locked",
           NEW v, v \in {"lock", "retry"}, pc' = [pc EXCEPT ![c] = v],
           next' = [d \in Cores |-> next'[d]], \A d \in Cores \ {c} : next'[d] = next[d],
           guard' = guard \ {current[c]}, UNCHANGED <<current, lock>>
    PROVE  IInv'
<1>1. Owning' = Owning \ {c}
  BY DEF IInv, Shape, Owning, Executing
<1>2. Shape' /\ (\A d \in Cores : pc'[d] = "check" => next'[d] = current'[d])
  BY DEF IInv, Shape
<1>3. lock' \in Cores => pc'[lock'] = "locked"
  BY DEF IInv, Shape
<1>4. ASSUME NEW t
      PROVE  t \in guard' <=> t # NoThread /\ \E d \in Owning' : current'[d] = t
  BY <1>1 DEF IInv
<1>5. QED
  BY <1>1, <1>2, <1>3, <1>4 DEF IInv

LEMMA SwitchIInv ==
    ASSUME IInv, NEW c \in Cores, SwitchThread(c)
    PROVE  IInv'
<1>1. Owning' = Owning \cup {c} /\ c \notin Owning
  BY DEF SwitchThread, IInv, Shape, Owning, Executing
<1>2. Shape' /\ (\A d \in Cores : pc'[d] = "check" => next'[d] = current'[d])
  BY DEF SwitchThread, IInv, Shape
<1>3. lock' \in Cores => pc'[lock'] = "locked"
  BY DEF SwitchThread, lockVars, IInv, Shape
<1>4. current'[c] = next[c] /\ \A d \in Owning : current'[d] = current[d]
  BY <1>1 DEF SwitchThread, IInv, Shape, Owning
<1>5. \A d \in Owning : next[c] # NoThread => current[d] # next[c]
  BY DEF SwitchThread, IInv
<1>6. ASSUME NEW d \in Owning', NEW e \in Owning', d # e, current'[d] # NoThread
      PROVE  current'[d] # current'[e]
  BY <1>1, <1>4, <1>5, <1>6 DEF IInv
<1>7. ASSUME NEW t
      PROVE  t \in guard' <=> t # NoThread /\ \E d \in Owning' : current'[d] = t
  BY <1>1, <1>4 DEF SwitchThread, IInv
<1>8. QED
  BY <1>2, <1>3, <1>6, <1>7 DEF IInv

LEMMA CoreStepIInv ==
    ASSUME IInv, NEW c \in Cores, CoreStep(c)
    PROVE  IInv'
<1>1. CASE RescheduleCurrentCore(c) \/ HandleInterrupt(c)
  BY <1>1, ExecutingIInv DEF RescheduleCurrentCore, HandleInterrupt, lockVars, Executing
<1>2. CASE ClearNeeds(c)
  <2>1. CASE pc[c] = "clear"
    BY <1>2, <2>1, ExecutingIInv DEF ClearNeeds, lockVars, Executing
  <2>2. CASE pc[c] = "retry"
    BY <1>2, <2>2, WaitingIInv DEF ClearNeeds, lockVars, Owning, Executing, IInv, Shape
  <2>3. QED
    BY <1>2, <2>1, <2>2 DEF ClearNeeds
<1>3. CASE LoadHighest(c)
  <2>1. CASE highest[c] = current[c] /\ highest[c] # NoThread
    BY <1>3, <2>1, ExecutingIInv DEF LoadHighest, lockVars, Executing
  <2>2. CASE ~(highest[c] = current[c] /\ highest[c] # NoThread)
    <3>1. next' = [d \in Cores |-> next'[d]] /\ \A d \in Cores \ {c} : next'[d] = next[d]
      BY <1>3, <2>2 DEF LoadHighest, IInv, Shape
    <3>2. QED
      BY <1>3, <2>2, <3>1, UnloadIInv DEF LoadHighest, lockVars, Owning, Executing
  <2>3. QED
    BY <2>1, <2>2
<1>4. CASE SwitchThread(c)
  BY <1>4, SwitchIInv
<1>5. CASE Interfered(c) \/ ReloadHighest(c)
  <2>1. next' = [d \in Cores |-> next'[d]] /\ \A d \in Cores \ {c} : next'[d] = next[d]
    BY <1>5 DEF Interfered, ReloadHighest, IInv, Shape
  <2>2. QED
    BY <1>5, <2>1, WaitingIInv DEF Interfered, ReloadHighest, lockVars, Owning, Executing
<1>6. CASE CheckSwitch(c)
  <2>1. next' = [d \in Cores |-> next'[d]] /\ \A d \in Cores \ {c} : next'[d] = next[d]
    BY <1>6 DEF CheckSwitch, IInv, Shape
  <2>2. CASE needs[c]
    <3>1. guard' = guard \ {current[c]}
      BY <1>6, <2>2 DEF CheckSwitch, IInv
    <3>2. QED
      BY <1>6, <2>1, <2>2, <3>1, UnloadIInv DEF CheckSwitch, lockVars, Owning
  <2>3. CASE ~needs[c]
    <3>1. Owning' = Owning
      BY <1>6, <2>3 DEF CheckSwitch, IInv, Shape, Owning, Executing
    <3>2. Shape' /\ (\A d \in Cores : pc'[d] = "check" => next'[d] = current'[d])
      BY <1>6, <2>1, <2>3 DEF CheckSwitch, IInv, Shape
    <3>3. lock' \in Cores => pc'[lock'] = "locked"
      BY <1>6, <2>3 DEF CheckSwitch, lockVars, IInv, Shape
    <3>4. UNCHANGED <<current, guard>>
      BY <1>6, <2>3 DEF CheckSwitch
    <3>5. QED
      BY <3>1, <3>2, <3>3, <3>4 DEF IInv
  <2>4. QED
    BY <2>2, <2>3
<1>7. QED
  BY <1>1, <1>2, <1>3, <1>4, <1>5, <1>6 DEF CoreStep

LEMMA NextIInv == IInv /\ [Next]_vars => IInv'
<1>. SUFFICES ASSUME IInv, [Next]_vars PROVE IInv'
  OBVIOUS
<1>1. CASE Next
  BY Zenon, <1>1, CallIInv, YieldIInv, PreemptIInv, PublishIInv, CoreStepIInv DEF Next
<1>2. CASE UNCHANGED vars
  BY <1>2 DEF vars, lockVars, IInv, Shape, Owning, Executing
<1>3. QED
  BY <1>1, <1>2

\* ScheduleImplFiber's try_lock on m_context_guard keeps a thread from running on two
\* cores, for any number of cores and threads and whatever the choices are.
THEOREM ThreadRunsOnOneCore == Spec => []OneCoreAtATime
<1>1. IInv => OneCoreAtATime
  <2>. SUFFICES ASSUME IInv PROVE OneCoreAtATime
    OBVIOUS
  <2>1. \A c, d \in Executing : c # d /\ current[c] # NoThread => current[c] # current[d]
    BY DEF IInv, Owning, Executing
  <2>2. guard = {current[c] : c \in Owning} \ {NoThread}
    BY DEF IInv
  <2>3. QED
    BY <2>1, <2>2 DEF OneCoreAtATime, Owning
<1>2. QED
  BY <1>1, InitIInv, NextIInv, PTL DEF Spec
=============================================================================

------------------------------ MODULE KScheduler ------------------------------
(* The scheduler: the priority queue of all cores, the choice of each core's most   *)
(* urgent thread when the scheduler lock is released (with the migration of threads *)
(* to idle cores), and the switch of a core to the thread chosen for it, which runs *)
(* without the lock, beside the choices of the other cores.  What is done under the *)
(* lock is one step up to the choice; the choice is then made known core by core.   *)
EXTENDS Integers, Sequences, FiniteSets, FiniteSetsExt, Functions

SequencesExt == INSTANCE SequencesExt

CONSTANTS Threads, NoThread, Cores, Host, NoActor,
          InitialPriority, InitialAffinity,
          Priorities,    \* the priorities that SetPriority may give a thread
          Masks,         \* the affinities that SetCoreMask may give a thread
          Preempted,     \* the priority that is preempted on each core
          HighestCoreMigrationAllowedPriority

ASSUME SchedulerAssumption ==
    /\ IsFiniteSet(Threads) /\ NoThread \notin Threads
    /\ Cores = 0..Cardinality(Cores) - 1 /\ Cores # {}
    /\ Host \notin Cores /\ NoActor \notin Cores \cup {Host}
    /\ InitialPriority \in [Threads -> Nat]
    /\ InitialAffinity \in [Threads -> SUBSET Cores \ {{}}]
    /\ Priorities \in [Threads -> SUBSET Nat]
    /\ Masks \in [Threads -> SUBSET (SUBSET Cores \ {{}})]
    /\ Preempted \in [Cores -> Nat]
    /\ HighestCoreMigrationAllowedPriority \in Nat

NoCore == -1
CoreList == [i \in 1..Cardinality(Cores) |-> i - 1]

VARIABLES
    queue,      \* what the threads are, and the priority queue they are in
    highest,    \* m_state.highest_priority_thread of each core
    needs,      \* m_state.needs_scheduling
    interrupt,  \* m_is_interrupted
    lock,       \* who holds the scheduler lock between two steps: a core, or Host
    writes,     \* the choices that its holder has yet to make known
    mask,       \* cores_needing_scheduling
    pc,         \* where each core is
    current,    \* its current thread; NoThread is its main or its idle thread
    next,       \* the thread it is switching to
    guard       \* the threads whose m_context_guard is locked

lockVars == <<highest, lock, writes, mask>>
vars == <<queue, needs, interrupt, lockVars, pc, current, next, guard>>

TypeOK ==
    /\ queue.runnable \subseteq Threads
    /\ queue.active \in [Threads -> Cores \cup {NoCore}]
    /\ queue.priority \in [Threads -> Nat]
    /\ queue.affinity \in [Threads -> SUBSET Cores]
    /\ queue.scheduled \in [Cores -> Seq(Threads)] /\ queue.suggested \in [Cores -> Seq(Threads)]
    /\ highest \in [Cores -> Threads \cup {NoThread}]
    /\ needs \in [Cores -> BOOLEAN] /\ interrupt \in [Cores -> BOOLEAN]
    /\ lock \in Cores \cup {Host, NoActor}
    /\ writes \in Seq([core : Cores, thread : Threads \cup {NoThread}])
    /\ mask \subseteq Cores
    /\ pc \in [Cores -> {"run", "locked", "enable", "clear", "load", "lock", "check", "retry", "reload"}]
    /\ current \in [Cores -> Threads \cup {NoThread}] /\ next \in [Cores -> Threads \cup {NoThread}]
    /\ guard \subseteq Threads

-----------------------------------------------------------------------------
(* KPriorityQueue: for each core the threads scheduled on it, and those suggested   *)
(* to it, by priority and, within a priority, in the order of the queue.            *)

Front(s) == IF s = <<>> THEN NoThread ELSE s[1]
Without(s, t) == SelectSeq(s, LAMBDA x : x # t)

PushBackOn(q, s, t) ==
    SelectSeq(s, LAMBDA x : q.priority[x] <= q.priority[t]) \o <<t>>
        \o SelectSeq(s, LAMBDA x : q.priority[x] > q.priority[t])

PushFrontOn(q, s, t) ==
    SelectSeq(s, LAMBDA x : q.priority[x] < q.priority[t]) \o <<t>>
        \o SelectSeq(s, LAMBDA x : q.priority[x] >= q.priority[t])

\* PushBack and PushFront: a thread is suggested at the back, either way.
Push(q, t, toFront) ==
    [q EXCEPT
        !.scheduled = [c \in Cores |-> IF c # q.active[t] THEN @[c]
                                       ELSE IF toFront THEN PushFrontOn(q, @[c], t)
                                       ELSE PushBackOn(q, @[c], t)],
        !.suggested = [c \in Cores |-> IF c \in q.affinity[t] \ {q.active[t]}
                                       THEN PushBackOn(q, @[c], t) ELSE @[c]]]

Remove(q, t) ==
    [q EXCEPT !.scheduled = [c \in Cores |-> Without(@[c], t)],
              !.suggested = [c \in Cores |-> Without(@[c], t)]]

ScheduledFront(q, c) == Front(q.scheduled[c])
FrontAt(q, s, p) == Front(SelectSeq(s, LAMBDA x : q.priority[x] = p))
ScheduledNext(q, c, t) ==
    LET i == CHOOSE i \in DOMAIN q.scheduled[c] : q.scheduled[c][i] = t
    IN  Front(SubSeq(q.scheduled[c], i + 1, Len(q.scheduled[c])))
TopOf(q, t) == IF q.active[t] = NoCore THEN NoThread ELSE ScheduledFront(q, q.active[t])

MoveToScheduledBack(q, t) ==
    [q EXCEPT !.scheduled[q.active[t]] = PushBackOn(q, Without(@, t), t)]

\* Mutant: the thread stays suggested to the core it moves to.
ChangeCoreStaysSuggested(q, t, core, toFront) ==
    LET old == q.active[t]
        q1  == [q EXCEPT !.active[t] = core]
        q2  == IF old = NoCore THEN q1
               ELSE [q1 EXCEPT !.scheduled[old] = Without(@, t), !.suggested[old] = PushBackOn(q, @, t)]
    IN  IF old = core THEN q
        ELSE IF core = NoCore THEN q2
        ELSE [q2 EXCEPT !.scheduled[core] = IF toFront THEN PushFrontOn(q, @, t) ELSE PushBackOn(q, @, t)]

\* SetActiveCore, then ChangeCore.
ChangeCore(q, t, core, toFront) ==
    LET old == q.active[t]
        q1  == [q EXCEPT !.active[t] = core]
        q2  == IF old = NoCore THEN q1 ELSE [q1 EXCEPT !.scheduled[old] = Without(@, t)]
        q3  == IF core = NoCore THEN q2
               ELSE [q2 EXCEPT !.suggested[core] = Without(@, t),
                               !.scheduled[core] = IF toFront THEN PushFrontOn(q, @, t)
                                                   ELSE PushBackOn(q, @, t)]
    IN  IF old = core THEN q
        ELSE IF old = NoCore THEN q3 ELSE [q3 EXCEPT !.suggested[old] = PushBackOn(q, @, t)]

-----------------------------------------------------------------------------
(* UpdateHighestPriorityThreads.                                             *)

\* UpdateHighestPriorityThread: a core's choice is noted if it is another one.
Choose(u, c, t) ==
    IF u.highest[c] = t THEN [u EXCEPT !.top[c] = t]
    ELSE [u EXCEPT !.top[c] = t, !.highest[c] = t,
                   !.writes = Append(@, [core |-> c, thread |-> t])]

Migrate(u, t, c) ==
    Choose([u EXCEPT !.queue = ChangeCore(@, t, c, FALSE)], c, t)

\* Mutant: the core that gives its top away is not told to run the thread behind it.
FillIdleCoreTakesTop(u, c) ==
    LET q == u.queue
        s == q.suggested[c]
        busy == {i \in DOMAIN s : ScheduledNext(q, q.active[s[i]], s[i]) # NoThread}
    IN  IF busy # {} THEN Migrate(u, s[Min(busy)], c) ELSE u

\* An idle core takes the first thread suggested to it that is not the top of its own
\* core, unless that top is too urgent; or else the top of a core with more threads.
FillIdleCore(u, c) ==
    LET q    == u.queue
        s    == q.suggested[c]
        topOf(t) == IF q.active[t] = NoCore THEN NoThread ELSE u.top[q.active[t]]
        spare == {i \in DOMAIN s : topOf(s[i]) # s[i]}
        busy == {i \in DOMAIN s : ScheduledNext(q, q.active[s[i]], s[i]) # NoThread}
    IN  IF spare # {}
        THEN LET t == s[Min(spare)] IN
             IF topOf(t) # NoThread
                /\ q.priority[topOf(t)] < HighestCoreMigrationAllowedPriority
             THEN u ELSE Migrate(u, t, c)
        ELSE IF busy # {}
        THEN LET t == s[Min(busy)]
                 k == q.active[t]
             IN  Migrate(Choose(u, k, ScheduledNext(q, k, t)), t, c)
        ELSE u

\* The choices, in the order they are made, and the queue with what has migrated.
UpdateHighestPriorityThreads(q) ==
    LET none  == [queue |-> q, top |-> [c \in Cores |-> NoThread], highest |-> highest,
                  writes |-> <<>>]
        first == SequencesExt!FoldLeft(LAMBDA u, c : Choose(u, c, ScheduledFront(q, c)), none, CoreList)
        idle  == SelectSeq(CoreList, LAMBDA c : ScheduledFront(q, c) = NoThread)
    IN  SequencesExt!FoldLeft(FillIdleCore, first, idle)

-----------------------------------------------------------------------------
(* What is done under the scheduler lock, by the thread on a core or by a host      *)
(* thread, which has no core.                                                       *)

\* Each core is about to leave its main thread: Activate.
Init ==
    /\ queue = [runnable |-> {}, active |-> [t \in Threads |-> Min(InitialAffinity[t])],
                priority |-> InitialPriority, affinity |-> InitialAffinity,
                scheduled |-> [c \in Cores |-> <<>>], suggested |-> [c \in Cores |-> <<>>]]
    /\ highest = [c \in Cores |-> NoThread]
    /\ needs = [c \in Cores |-> TRUE] /\ interrupt = [c \in Cores |-> FALSE]
    /\ lock = NoActor /\ writes = <<>> /\ mask = {}
    /\ pc = [c \in Cores |-> "enable"]
    /\ current = [c \in Cores |-> NoThread] /\ next = [c \in Cores |-> NoThread]
    /\ guard = {}

CanLock(a) ==
    /\ lock = NoActor
    /\ a \in Cores => pc[a] = "run" /\ current[a] # NoThread

\* The end of what a has done: the new queue and, if an update is needed, the choices.
Done(a, q, updateNeeded) ==
    LET u == UpdateHighestPriorityThreads(q) IN
    /\ queue'  = IF updateNeeded THEN u.queue ELSE q
    /\ writes' = IF updateNeeded THEN u.writes ELSE <<>>
    /\ lock'   = IF writes' = <<>> THEN NoActor ELSE a
    /\ pc'     = IF a = Host THEN pc
                 ELSE [pc EXCEPT ![a] = IF writes' = <<>> THEN "enable" ELSE "locked"]
    /\ UNCHANGED <<needs, interrupt, highest, mask, current, next, guard>>

\* OnThreadStateChanged: a thread waits or is suspended, or becomes runnable.
Stop(a, t) ==
    /\ CanLock(a) /\ t \in queue.runnable
    /\ Done(a, [Remove(queue, t) EXCEPT !.runnable = @ \ {t}], TRUE)

Wake(a, t) ==
    /\ CanLock(a) /\ t \notin queue.runnable
    /\ Done(a, [Push(queue, t, FALSE) EXCEPT !.runnable = @ \cup {t}], TRUE)

\* OnThreadPriorityChanged: a thread that changes its own priority goes on running.
SetPriority(a, t, p) ==
    LET q == [queue EXCEPT !.priority[t] = p] IN
    /\ CanLock(a) /\ p # queue.priority[t]
    /\ IF t \in queue.runnable
       THEN Done(a, Push(Remove(q, t), t, a # Host /\ current[a] = t), TRUE)
       ELSE Done(a, q, FALSE)

\* KThread::SetCoreMask, with OnThreadAffinityMaskChanged.
SetCoreMask(a, t, affinity, ideal) ==
    LET core == IF queue.active[t] \in affinity \cup {NoCore} THEN queue.active[t] ELSE ideal
        q    == [queue EXCEPT !.affinity[t] = affinity, !.active[t] = core]
    IN
    /\ CanLock(a) /\ affinity # queue.affinity[t] /\ ideal \in affinity
    /\ IF t \in queue.runnable
       THEN Done(a, Push(Remove(q, t), t, FALSE), TRUE)
       ELSE Done(a, q, FALSE)

\* May a thread leave its core, whose top is the one given?
Movable(q, t, top) ==
    /\ top # t
    /\ top = NoThread \/ q.priority[top] >= HighestCoreMigrationAllowedPriority

\* The first thread of the list that may be moved, given the top of the core each thread
\* is on, unless the search meets one of stops before.
Suggestion(q, list, top, stops) ==
    LET t == Front(SelectSeq(list, LAMBDA x : x \in stops \/ Movable(q, x, top[x])))
    IN  IF t \in stops THEN NoThread ELSE t

TopOfEach(q) == [t \in Threads |-> TopOf(q, t)]

MoveToFront(q, t, c) == IF t = NoThread THEN q ELSE ChangeCore(q, t, c, TRUE)

\* The threads of later have been scheduled since the thread they are compared with.
Later(next_thread, t, later) == next_thread # NoThread /\ t \in later

YieldWithoutCoreMigration(c) ==
    LET t == current[c]
        q == MoveToScheduledBack(queue, t)
    IN
    /\ CanLock(c) /\ t \in queue.runnable
    /\ Done(c, q, FrontAt(q, q.scheduled[q.active[t]], q.priority[t]) # t)

YieldWithCoreMigration(c, later) ==
    LET t    == current[c]
        core == queue.active[t]
        q    == MoveToScheduledBack(queue, t)
        next_thread == FrontAt(q, q.scheduled[core], q.priority[t])
        running == [x \in Threads |-> IF q.active[x] = NoCore THEN NoThread ELSE highest[q.active[x]]]
        stops   == {x \in Threads : /\ running[x] # x
                                    /\ \/ q.priority[x] > q.priority[t]
                                       \/ /\ q.priority[x] = q.priority[t] /\ next_thread # t
                                          /\ Later(next_thread, x, later)}
        suggested == Suggestion(q, q.suggested[core], running, stops)
    IN
    /\ CanLock(c) /\ t \in queue.runnable
    /\ Done(c, MoveToFront(q, suggested, core), suggested # NoThread \/ next_thread # t)

YieldToAnyThread(c) ==
    LET t    == current[c]
        core == queue.active[t]
        q    == ChangeCore(queue, t, NoCore, FALSE)
        suggested == Front(SelectSeq(q.suggested[core], LAMBDA x : TopOf(q, x) # x))
        moved == IF suggested # NoThread /\ Movable(q, suggested, TopOf(q, suggested))
                 THEN ChangeCore(q, suggested, core, FALSE) ELSE q
    IN
    /\ CanLock(c) /\ t \in queue.runnable
    /\ IF ScheduledFront(q, core) = NoThread
       THEN Done(c, moved, suggested # t)
       ELSE Done(c, q, TRUE)

RotateScheduledQueue(q, c, later) ==
    LET p   == Preempted[c]
        top == FrontAt(q, q.scheduled[c], p)
        q1  == IF top = NoThread THEN q ELSE MoveToScheduledBack(q, top)
        next_thread == FrontAt(q1, q1.scheduled[c], p)
        stops == {x \in Threads : TopOf(q1, x) # x /\ top # next_thread /\ Later(next_thread, x, later)}
        same(x) == q1.priority[x] = p
        q2   == MoveToFront(q1, Suggestion(q1, SelectSeq(q1.suggested[c], same), TopOfEach(q1), stops), c)
        best == ScheduledFront(q2, c)
        worse == {x \in Threads : q2.priority[x] >= q2.priority[best]}
    IN  IF best # NoThread /\ q2.priority[best] >= p
        THEN MoveToFront(q2, Suggestion(q2, q2.suggested[c], TopOfEach(q2), worse), c)
        ELSE q2

\* GlobalSchedulerContext::PreemptThreads, every ten milliseconds.
PreemptThreads(later) ==
    /\ CanLock(Host)
    /\ Done(Host, SequencesExt!FoldLeft(LAMBDA q, c : RotateScheduledQueue(q, c, later), queue, CoreList), TRUE)

-----------------------------------------------------------------------------
(* UpdateHighestPriorityThread: the choice is stored, then the core is told.  After *)
(* the last one the lock is released and the other cores are interrupted.           *)

StoreHighest ==
    /\ lock # NoActor /\ writes # <<>>
    /\ highest[Head(writes).core] # Head(writes).thread
    /\ highest' = [highest EXCEPT ![Head(writes).core] = Head(writes).thread]
    /\ UNCHANGED <<queue, needs, interrupt, lock, writes, mask, pc, current, next, guard>>

StoreNeeds ==
    /\ lock # NoActor /\ writes # <<>>
    /\ highest[Head(writes).core] = Head(writes).thread
    /\ needs' = [needs EXCEPT ![Head(writes).core] = TRUE]
    /\ mask' = mask \cup {Head(writes).core}
    /\ writes' = Tail(writes)
    /\ UNCHANGED <<queue, interrupt, highest, lock, pc, current, next, guard>>

\* Unlock and RescheduleOtherCores.
Unlock ==
    /\ lock # NoActor /\ writes = <<>>
    /\ interrupt' = [c \in Cores |-> interrupt[c] \/ c \in mask \ {lock}]
    /\ pc' = IF lock = Host THEN pc ELSE [pc EXCEPT ![lock] = "enable"]
    /\ lock' = NoActor /\ mask' = {}
    /\ UNCHANGED <<queue, needs, highest, writes, current, next, guard>>

-----------------------------------------------------------------------------
(* The switch.                                                               *)

\* RescheduleCurrentCore.
RescheduleCurrentCore(c) ==
    /\ pc[c] = "enable"
    /\ pc' = [pc EXCEPT ![c] = IF needs[c] THEN "clear" ELSE "run"]
    /\ UNCHANGED <<queue, needs, interrupt, lockVars, current, next, guard>>

\* KInterruptManager::HandleInterrupt and RequestScheduleOnInterrupt.
HandleInterrupt(c) ==
    /\ pc[c] = "run" /\ interrupt[c]
    /\ interrupt' = [interrupt EXCEPT ![c] = FALSE]
    /\ needs' = [needs EXCEPT ![c] = TRUE]
    /\ pc' = [pc EXCEPT ![c] = "clear"]
    /\ UNCHANGED <<queue, lockVars, current, next, guard>>

\* ScheduleImpl: the flag is cleared, then the choice is read.
ClearNeeds(c) ==
    /\ pc[c] \in {"clear", "retry"}
    /\ needs' = [needs EXCEPT ![c] = FALSE]
    /\ pc' = [pc EXCEPT ![c] = IF pc[c] = "clear" THEN "load" ELSE "reload"]
    /\ UNCHANGED <<queue, interrupt, lockVars, current, next, guard>>

\* Nothing to switch (an idle core does switch, to its idle thread), or the context of the current thread is given up (Unload).
LoadHighest(c) ==
    /\ pc[c] = "load"
    /\ IF highest[c] = current[c] /\ highest[c] # NoThread
       THEN pc' = [pc EXCEPT ![c] = "run"] /\ UNCHANGED <<next, guard>>
       ELSE /\ next' = [next EXCEPT ![c] = highest[c]]
            /\ guard' = guard \ {current[c]}
            /\ pc' = [pc EXCEPT ![c] = "lock"]
    /\ UNCHANGED <<queue, needs, interrupt, lockVars, current>>

\* Mutant: the core does not wait for the context.
SwitchThreadUnguarded(c) ==
    /\ pc[c] = "lock"
    /\ guard' = guard \cup ({next[c]} \ {NoThread})
    /\ current' = [current EXCEPT ![c] = next[c]]
    /\ pc' = [pc EXCEPT ![c] = "check"]
    /\ UNCHANGED <<queue, needs, interrupt, lockVars, next>>

\* Mutant: the flag is cleared once the switch is made.
SwitchThreadClears(c) ==
    /\ pc[c] = "lock" /\ next[c] \notin guard
    /\ guard' = guard \cup ({next[c]} \ {NoThread})
    /\ current' = [current EXCEPT ![c] = next[c]]
    /\ needs' = [needs EXCEPT ![c] = FALSE]
    /\ pc' = [pc EXCEPT ![c] = "check"]
    /\ UNCHANGED <<queue, interrupt, lockVars, next>>

\* ScheduleImplFiber: the context of the next thread is taken, and SwitchThread.
SwitchThread(c) ==
    /\ pc[c] = "lock" /\ next[c] \notin guard
    /\ guard' = guard \cup ({next[c]} \ {NoThread})
    /\ current' = [current EXCEPT ![c] = next[c]]
    /\ pc' = [pc EXCEPT ![c] = "check"]
    /\ UNCHANGED <<queue, needs, interrupt, lockVars, next>>

\* Mutant: the core waits for the context, whatever is chosen meanwhile.
InterferedIgnored(c) == FALSE /\ UNCHANGED vars

\* It is taken, and another choice was made: start again.
Interfered(c) ==
    /\ pc[c] = "lock" /\ next[c] \in guard /\ needs[c]
    /\ pc' = [pc EXCEPT ![c] = "retry"]
    /\ next' = [next EXCEPT ![c] = NoThread]
    /\ UNCHANGED <<queue, needs, interrupt, lockVars, current, guard>>

\* The switch is undone if another choice was made, and complete if not (Reload).
CheckSwitch(c) ==
    /\ pc[c] = "check"
    /\ IF needs[c]
       THEN guard' = guard \ {next[c]} /\ pc' = [pc EXCEPT ![c] = "retry"]
       ELSE UNCHANGED guard /\ pc' = [pc EXCEPT ![c] = "run"]
    /\ next' = [next EXCEPT ![c] = NoThread]
    /\ UNCHANGED <<queue, needs, interrupt, lockVars, current>>

ReloadHighest(c) ==
    /\ pc[c] = "reload"
    /\ next' = [next EXCEPT ![c] = highest[c]]
    /\ pc' = [pc EXCEPT ![c] = "lock"]
    /\ UNCHANGED <<queue, needs, interrupt, lockVars, current, guard>>

CoreStep(c) ==
    \/ RescheduleCurrentCore(c) \/ HandleInterrupt(c) \/ ClearNeeds(c) \/ LoadHighest(c)
    \/ SwitchThread(c) \/ Interfered(c) \/ CheckSwitch(c) \/ ReloadHighest(c)

Publish == StoreHighest \/ StoreNeeds \/ Unlock

Next ==
    \/ \E a \in Cores \cup {Host}, t \in Threads :
           \/ Stop(a, t) \/ Wake(a, t)
           \/ \E p \in Priorities[t] : SetPriority(a, t, p)
           \/ \E m \in Masks[t] : \E ideal \in m : SetCoreMask(a, t, m, ideal)
    \/ \E c \in Cores :
           \/ YieldWithoutCoreMigration(c) \/ YieldToAnyThread(c)
           \/ \E later \in SUBSET Threads : YieldWithCoreMigration(c, later)
           \/ CoreStep(c)
    \/ \E later \in SUBSET Threads : PreemptThreads(later)
    \/ Publish

Spec == Init /\ [][Next]_vars

\* A core and the holder of the lock go on.
FairSpec == Spec /\ WF_vars(Publish) /\ \A c \in Cores : WF_vars(CoreStep(c))

-----------------------------------------------------------------------------

\* The cores that execute their current thread.
Executing == {c \in Cores : pc[c] \in {"run", "locked", "enable", "clear", "load"}}

\* A thread runs on one core at a time, whatever the choices do while its old core has
\* not yet let go of it: what m_context_guard is for.
OneCoreAtATime ==
    /\ \A c, d \in Executing : c # d /\ current[c] # NoThread => current[c] # current[d]
    /\ guard = {current[c] : c \in {x \in Cores : pc[x] = "check" \/ x \in Executing}} \ {NoThread}

\* No choice is lost: a core that runs another thread than the one chosen for it, or has
\* just switched to another one, is going to be interrupted or will find the flag set.
ChoiceIsFollowed ==
    LET untold == {writes[i].core : i \in DOMAIN writes} IN
    \A c \in Cores : current[c] # highest[c] =>
        /\ pc[c] = "run" => interrupt[c] \/ c \in untold \cup mask
        /\ pc[c] \in {"enable", "check"} => needs[c] \/ c \in untold

\* The queue is what the threads are: each runnable thread is scheduled on its active
\* core and suggested to the others of its affinity, the others are nowhere, and the
\* most urgent come first.  A thread that calls into the scheduler is scheduled on some
\* core: MoveToScheduledBack indexes the queue by the active core, which YieldToAnyThread
\* sets to -1.
QueueMatchesThreads ==
    LET places(s, t) == {i \in DOMAIN s : s[i] = t}
        Sorted(s) == \A i, j \in DOMAIN s : i < j => queue.priority[s[i]] <= queue.priority[s[j]]
    IN
    /\ \A c \in Cores : Sorted(queue.scheduled[c]) /\ Sorted(queue.suggested[c])
    /\ \A c \in Cores, t \in Threads :
           LET here == t \in queue.runnable /\ queue.active[t] = c
               there == t \in queue.runnable /\ queue.active[t] # c /\ c \in queue.affinity[t]
           IN  /\ Cardinality(places(queue.scheduled[c], t)) = IF here THEN 1 ELSE 0
               /\ Cardinality(places(queue.suggested[c], t)) = IF there THEN 1 ELSE 0
    /\ \A t \in Threads : queue.active[t] \in queue.affinity[t] \cup {NoCore}
    /\ \A c \in Cores : pc[c] = "run" /\ current[c] \in queue.runnable =>
           queue.active[current[c]] # NoCore

\* The types, and the agreement of the queue with the threads.
WellFormed == TypeOK /\ QueueMatchesThreads

\* The choice is right whenever the lock is free: each core's is the first thread
\* scheduled on it, so no thread is chosen for two cores.  An idle core is idle because
\* every thread it could run is the only one of its own core, or because the search met
\* a core whose top is too urgent to take threads from.
ChoiceIsRight ==
    lock = NoActor =>
        \A c \in Cores :
            /\ highest[c] = ScheduledFront(queue, c)
            /\ highest[c] = NoThread =>
                   \A t \in Range(queue.suggested[c]) :
                       \/ TopOf(queue, t) = t /\ Len(queue.scheduled[queue.active[t]]) = 1
                       \/ \E d \in Cores : /\ highest[d] # NoThread
                                           /\ queue.priority[highest[d]] < HighestCoreMigrationAllowedPriority

\* A core gets to run the thread chosen for it, or to idle, unless the choice keeps
\* changing: it waits for the context of the thread only as long as the other core needs
\* to let go of it, and no interrupt is lost.
ChosenThreadRuns ==
    \A c \in Cores :
        \/ []<><<highest'[c] # highest[c]>>_vars
        \/ []<>(pc[c] = "run" /\ current[c] = highest[c])
=============================================================================

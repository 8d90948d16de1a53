------------------------- MODULE KSynchronizationObject -------------------------
(* WaitSynchronization on lists of objects, here readable events, with SignalEvent, *)
(* ClearEvent, ResetSignal, CancelSynchronization, SleepThread, CloseHandle, the     *)
(* timer and termination.  A thread waits by linking one node of its stack per       *)
(* handle into the list of that object, and may name an object twice.  All of it     *)
(* runs under the scheduler lock, one step per section, except the notification of   *)
(* waiters, which is one step per node it visits: it walks a list of nodes that it   *)
(* unlinks.                                                                          *)
EXTENDS Integers, Sequences, FiniteSets, SequencesExt

CONSTANTS Threads, Objects, NoObject, NoNode,
          HandleLists,  \* the lists of objects that WaitSynchronization is called with
          Calls         \* what else happens: "sleep", "cancel", "terminate", "close"

ASSUME SynchronizationAssumption ==
    /\ NoObject \notin Objects
    /\ HandleLists \subseteq Seq(Objects)
    /\ NoNode \notin Threads \X Nat

\* Svc::ArgumentHandleCountMax, as far as it is used.
Indices == UNION {DOMAIN l : l \in HandleLists}
Nodes   == Threads \X Indices

VARIABLES
    signaled,    \* m_is_signaled
    open,        \* the objects the handle table refers to
    destroyed,   \* m_readable_event_destroyed
    lists,       \* m_thread_list_head and _tail of each object, next of each node
    objects,     \* m_objects of each thread's wait queue
    pc,          \* where a thread is: user code, WaitSynchronization, SleepThread
    state, cancellable, waitCancelled, syncedIndex, result, terminating,
    timer,       \* the threads with a registered timer task
    notify       \* the object whose waiters are being notified, and cur_node

eventVars  == <<signaled, open, destroyed>>
threadVars == <<state, cancellable, syncedIndex, result, timer>>
vars == <<eventVars, lists, objects, pc, threadVars, waitCancelled, terminating, notify>>

Results == {"None", "Success", "TimedOut", "Cancelled", "TerminationRequested"}

TypeOK ==
    /\ signaled \in [Objects -> BOOLEAN]
    /\ open \subseteq Objects /\ destroyed \subseteq Objects
    /\ lists \in [head : [Objects -> Nodes \cup {NoNode}], tail : [Objects -> Nodes \cup {NoNode}],
                  next : [Nodes -> Nodes \cup {NoNode}]]
    /\ objects \in [Threads -> HandleLists \cup {<<>>}]
    /\ pc \in [Threads -> {"user", "wait", "sleep"}]
    /\ state \in [Threads -> {"Runnable", "Waiting"}]
    /\ cancellable \subseteq Threads /\ waitCancelled \subseteq Threads
    /\ syncedIndex \in [Threads -> {-1} \cup Indices]
    /\ result \in [Threads -> Results]
    /\ terminating \subseteq Threads /\ timer \subseteq Threads
    /\ notify \in [obj : Objects \cup {NoObject}, cur : Nodes \cup {NoNode}]

SchedulerIsFree == notify.obj = NoObject

Init ==
    /\ signaled = [o \in Objects |-> FALSE]
    /\ open = Objects /\ destroyed = {}
    /\ lists = [head |-> [o \in Objects |-> NoNode], tail |-> [o \in Objects |-> NoNode],
                next |-> [n \in Nodes |-> NoNode]]
    /\ objects = [t \in Threads |-> <<>>]
    /\ pc = [t \in Threads |-> "user"]
    /\ state = [t \in Threads |-> "Runnable"]
    /\ cancellable = {} /\ waitCancelled = {}
    /\ syncedIndex = [t \in Threads |-> -1]
    /\ result = [t \in Threads |-> "None"]
    /\ terminating = {} /\ timer = {}
    /\ notify = [obj |-> NoObject, cur |-> NoNode]

-----------------------------------------------------------------------------
(* The lists.                                                                *)

\* The nodes from the head of o's list, in order, then NoNode.
Chain(L, o) ==
    LET at[i \in 1..Cardinality(Nodes) + 1] ==
            IF i = 1 THEN L.head[o] ELSE IF at[i - 1] = NoNode THEN NoNode ELSE L.next[at[i - 1]]
    IN  at

LinkNode(L, o, n) ==
    LET linked == IF L.tail[o] = NoNode THEN [L EXCEPT !.head[o] = n]
                  ELSE [L EXCEPT !.next[L.tail[o]] = n]
    IN  [linked EXCEPT !.tail[o] = n]

\* The search for the node before n; n keeps its own next.
\* Mutant: the tail is left on the node.
UnlinkNodeKeepTail(L, o, n) ==
    IF L.head[o] = n THEN [L EXCEPT !.head[o] = L.next[n]]
    ELSE LET i == CHOOSE i \in DOMAIN Chain(L, o) : Chain(L, o)[i] = n
         IN  [L EXCEPT !.next[Chain(L, o)[i - 1]] = L.next[n]]
UnlinkNode(L, o, n) ==
    LET i    == CHOOSE i \in DOMAIN Chain(L, o) : Chain(L, o)[i] = n
        prev == IF i = 1 THEN NoNode ELSE Chain(L, o)[i - 1]
        M    == IF L.tail[o] = n THEN [L EXCEPT !.tail[o] = prev] ELSE L
    IN  IF i = 1 THEN [M EXCEPT !.head[o] = L.next[n]] ELSE [M EXCEPT !.next[prev] = L.next[n]]

LinkAll(L, t, objs) ==
    FoldLeft(LAMBDA r, i : LinkNode([r EXCEPT !.next[<<t, i>>] = NoNode], objs[i], <<t, i>>),
             L, [i \in DOMAIN objs |-> i])

UnlinkAll(L, t) ==
    FoldLeft(LAMBDA r, i : UnlinkNode(r, objects[t][i], <<t, i>>),
             L, [i \in DOMAIN objects[t] |-> i])

-----------------------------------------------------------------------------
(* Waiting.                                                                  *)

\* KThreadQueue::EndWait and CancelWait.
\* Mutant: the timer task stays.
EndWaitKeepingTimer(t, r) ==
    /\ state' = [state EXCEPT ![t] = "Runnable"]
    /\ result' = [result EXCEPT ![t] = r]
    /\ cancellable' = cancellable \ {t}
    /\ UNCHANGED timer
EndWait(t, r) ==
    /\ state' = [state EXCEPT ![t] = "Runnable"]
    /\ result' = [result EXCEPT ![t] = r]
    /\ cancellable' = cancellable \ {t}
    /\ timer' = timer \ {t}

CancelWait(t, r) ==
    /\ lists' = UnlinkAll(lists, t)
    /\ EndWait(t, r)
    /\ UNCHANGED syncedIndex

BeginWait(t, timed) ==
    /\ state' = [state EXCEPT ![t] = "Waiting"]
    /\ timer' = IF timed THEN timer \cup {t} ELSE timer

\* WaitSynchronization.  It returns at once, with nothing changed, if the thread is
\* terminating, one of the objects is signaled, or the timeout is zero.
MayWait(t, objs) ==
    /\ pc[t] = "user" /\ SchedulerIsFree
    /\ Range(objs) \subseteq open
    /\ t \notin terminating
    /\ \A o \in Range(objs) : ~signaled[o]

WaitCancelledBefore(t, objs) ==
    /\ MayWait(t, objs)
    /\ t \in waitCancelled
    /\ waitCancelled' = waitCancelled \ {t}
    /\ UNCHANGED <<eventVars, lists, objects, pc, threadVars, terminating, notify>>

\* Mutant: an earlier cancellation is not noticed.
WaitIgnoringCancel(t, objs, timed) ==
    /\ MayWait(t, objs)
    /\ lists' = LinkAll(lists, t, objs)
    /\ objects' = [objects EXCEPT ![t] = objs]
    /\ pc' = [pc EXCEPT ![t] = "wait"]
    /\ cancellable' = cancellable \cup {t}
    /\ BeginWait(t, timed)
    /\ UNCHANGED <<eventVars, syncedIndex, result, waitCancelled, terminating, notify>>
Wait(t, objs, timed) ==
    /\ MayWait(t, objs)
    /\ t \notin waitCancelled
    /\ lists' = LinkAll(lists, t, objs)
    /\ objects' = [objects EXCEPT ![t] = objs]
    /\ pc' = [pc EXCEPT ![t] = "wait"]
    /\ cancellable' = cancellable \cup {t}
    /\ BeginWait(t, timed)
    /\ UNCHANGED <<eventVars, syncedIndex, result, waitCancelled, terminating, notify>>

\* SleepThread: the other kind of wait, not cancellable.
Sleep(t) ==
    /\ "sleep" \in Calls
    /\ pc[t] = "user" /\ SchedulerIsFree /\ t \notin terminating
    /\ pc' = [pc EXCEPT ![t] = "sleep"]
    /\ BeginWait(t, TRUE)
    /\ UNCHANGED <<eventVars, lists, objects, cancellable, syncedIndex, result, waitCancelled,
                   terminating, notify>>

\* An object is kept by its handle and by the calls of WaitSynchronization, which give
\* their references back when they return.
Referenced(handles, waiters) == handles \cup UNION {Range(objects[t]) : t \in waiters}

Destroyed(handles, waiters) == Objects \ Referenced(handles, waiters)

\* The return; the nodes go with the stack frame.
WaitReturn(t) ==
    /\ pc[t] # "user" /\ state[t] = "Runnable" /\ SchedulerIsFree
    /\ pc' = [pc EXCEPT ![t] = "user"]
    /\ objects' = [objects EXCEPT ![t] = <<>>]
    /\ syncedIndex' = [syncedIndex EXCEPT ![t] = -1]
    /\ result' = [result EXCEPT ![t] = "None"]
    /\ destroyed' = Destroyed(open, Threads \ {t})
    /\ lists' = [lists EXCEPT !.next = [n \in Nodes |-> IF n[1] = t THEN NoNode ELSE @[n]]]
    /\ UNCHANGED <<signaled, open, state, cancellable, timer, waitCancelled, terminating,
                   notify>>

CloseHandle(o) ==
    /\ "close" \in Calls
    /\ SchedulerIsFree /\ o \in open
    /\ open' = open \ {o}
    /\ destroyed' = Destroyed(open \ {o}, Threads)
    /\ UNCHANGED <<signaled, lists, objects, pc, threadVars, waitCancelled, terminating, notify>>

-----------------------------------------------------------------------------
(* Events.                                                                   *)

\* KEvent::Signal, and the start of NotifyAvailable.
Signal(o) ==
    /\ SchedulerIsFree
    /\ o \notin destroyed /\ ~signaled[o]
    /\ signaled' = [signaled EXCEPT ![o] = TRUE]
    /\ notify' = [obj |-> o, cur |-> lists.head[o]]
    /\ UNCHANGED <<open, destroyed, lists, objects, pc, threadVars, waitCancelled, terminating>>

FirstIndexOf(t, o) == CHOOSE i \in DOMAIN objects[t] :
    objects[t][i] = o /\ \A j \in DOMAIN objects[t] : objects[t][j] = o => i <= j

\* One round of the loop: the thread of cur_node is notified if it still waits, and
\* the next node is read from cur_node, which is then no longer in the list.
\* Mutant: the loop stops at the first waiter.
NotifyOne ==
    LET t == notify.cur[1] IN
    /\ notify.cur # NoNode
    /\ lists' = UnlinkAll(lists, t)
    /\ syncedIndex' = [syncedIndex EXCEPT ![t] = FirstIndexOf(t, notify.obj)]
    /\ EndWait(t, "Success")
    /\ notify' = [notify EXCEPT !.cur = NoNode]
    /\ UNCHANGED <<eventVars, objects, pc, waitCancelled, terminating>>
NotifyNext ==
    LET t == notify.cur[1] IN
    /\ notify.cur # NoNode
    /\ IF state[t] = "Waiting"
       THEN /\ lists' = UnlinkAll(lists, t)
            /\ syncedIndex' = [syncedIndex EXCEPT ![t] = FirstIndexOf(t, notify.obj)]
            /\ EndWait(t, "Success")
       ELSE UNCHANGED <<lists, threadVars>>
    /\ notify' = [notify EXCEPT !.cur = lists'.next[notify.cur]]
    /\ UNCHANGED <<eventVars, objects, pc, waitCancelled, terminating>>

NotifyEnd ==
    /\ ~SchedulerIsFree /\ notify.cur = NoNode
    /\ notify' = [notify EXCEPT !.obj = NoObject]
    /\ UNCHANGED <<eventVars, lists, objects, pc, threadVars, waitCancelled, terminating>>

\* Clear and Reset.
Reset(o) ==
    /\ SchedulerIsFree
    /\ o \notin destroyed /\ signaled[o]
    /\ signaled' = [signaled EXCEPT ![o] = FALSE]
    /\ UNCHANGED <<open, destroyed, lists, objects, pc, threadVars, waitCancelled, terminating,
                   notify>>

-----------------------------------------------------------------------------
(* What ends a wait from outside.                                            *)

WaitCancel(t) ==
    /\ "cancel" \in Calls
    /\ SchedulerIsFree
    /\ IF state[t] = "Waiting" /\ t \in cancellable
       THEN CancelWait(t, "Cancelled") /\ waitCancelled' = waitCancelled \ {t}
       ELSE waitCancelled' = waitCancelled \cup {t} /\ UNCHANGED <<lists, threadVars>>
    /\ UNCHANGED <<eventVars, objects, pc, terminating, notify>>

OnTimer(t) ==
    /\ SchedulerIsFree
    /\ t \in timer
    /\ IF state[t] = "Waiting" THEN CancelWait(t, "TimedOut")
       ELSE timer' = timer \ {t} /\ UNCHANGED <<lists, state, cancellable, syncedIndex, result>>
    /\ UNCHANGED <<eventVars, objects, pc, waitCancelled, terminating, notify>>

RequestTerminate(t) ==
    /\ "terminate" \in Calls
    /\ SchedulerIsFree
    /\ t \notin terminating
    /\ terminating' = terminating \cup {t}
    /\ IF state[t] = "Waiting" THEN CancelWait(t, "TerminationRequested")
       ELSE UNCHANGED <<lists, threadVars>>
    /\ UNCHANGED <<eventVars, objects, pc, waitCancelled, notify>>

Next ==
    \/ \E t \in Threads :
           \/ \E objs \in HandleLists :
                  WaitCancelledBefore(t, objs) \/ \E timed \in BOOLEAN : Wait(t, objs, timed)
           \/ Sleep(t) \/ WaitReturn(t) \/ WaitCancel(t) \/ OnTimer(t) \/ RequestTerminate(t)
    \/ \E o \in Objects : Signal(o) \/ Reset(o) \/ CloseHandle(o)
    \/ NotifyNext \/ NotifyEnd

Spec == Init /\ [][Next]_vars

-----------------------------------------------------------------------------

NodesOf(o) == {n \in Nodes : /\ state[n[1]] = "Waiting"
                             /\ n[2] \in DOMAIN objects[n[1]] /\ objects[n[1]][n[2]] = o}

\* The list of an object is exactly the nodes of the threads that wait for it, each
\* once, and ends at its tail: no node of a stack frame that is gone, however the
\* wait ended and however often the object was named.
ListsAreTheWaiters ==
    \A o \in Objects :
        LET chain == Chain(lists, o)
            n     == Cardinality(NodesOf(o))
        IN  /\ {chain[i] : i \in 1..n} = NodesOf(o)
            /\ chain[n + 1] = NoNode
            /\ lists.tail[o] = IF n = 0 THEN NoNode ELSE chain[n]

\* No lost wake-up: when the scheduler lock is free, nobody sleeps on a signaled
\* object, although the walk over the waiters follows nodes it has unlinked.
SignaledHasNoWaiter ==
    SchedulerIsFree => \A o \in Objects : signaled[o] => NodesOf(o) = {}


\* CancelSynchronization is not lost on a thread that was not waiting: it never
\* sleeps in WaitSynchronization with the cancellation pending.
CancelIsNotLost == \A t \in waitCancelled : ~(pc[t] = "wait" /\ state[t] = "Waiting")

\* No thread sleeps on an object whose memory is free: the references taken for the
\* call keep it after its handle is closed.
DestroyedHasNoWaiter == \A o \in destroyed : NodesOf(o) = {}

\* Nothing is left behind by a wait, however it ended, for a later one to trip over:
\* the lists are right, also those of objects that are closed, and a timer task ends
\* with the wait it was for, so that it cannot cut short a later one.
WellFormed ==
    /\ TypeOK /\ ListsAreTheWaiters /\ DestroyedHasNoWaiter
    /\ \A t \in timer : state[t] = "Waiting"
=============================================================================

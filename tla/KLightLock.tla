----------------------------- MODULE KLightLock ------------------------------
(* KLightLock, the kernel's sleeping lock, with the parts of KThread it relies *)
(* on: the lists of kernel waiters a thread keeps for the locks it owns, and   *)
(* the suspension of threads, which must not strand the waiters of a lock      *)
(* whose owner is paused.                                                      *)
(*                                                                             *)
(* m_tag is read and written outside the scheduler lock by Lock() and          *)
(* Unlock(), so each compare-exchange is a step of its own.  A section under   *)
(* the scheduler lock is one step unless it writes m_tag after its decision:   *)
(* UnlockSlowPath is two, and `sched` is held in between.  A thread that is    *)
(* suspended by another core runs on until it next releases the scheduler      *)
(* lock, so only leaving a wait requires the thread to be schedulable; the     *)
(* fairness of a thread's steps asks for it too.                               *)
EXTENDS Integers, FiniteSets

CONSTANTS Threads,       \* the kernel threads
          Locks,         \* the light locks, in the order nested callers take them
          SuspendTypes,  \* SuspendType: the independent reasons to pause a thread
          NoThread, NoLock

ASSUME LightLockAssumption ==
    /\ NoThread \notin Threads
    /\ IsFiniteSet(Threads)
    /\ NoLock \notin Locks
    /\ Locks \subseteq Nat

VARIABLES
    tag,            \* m_tag: the owner and, as bit 0, "there may be waiters"
    sched,          \* the thread inside a scheduler-locked section, if any
    pc, arg,        \* where each thread is in Lock/Unlock, and of which lock
    seen,           \* LockSlowPath's _owner: the owner the wait bit was set for
    nextTag,        \* UnlockSlowPath's next_tag
    held,           \* the locks Lock() has returned for and Unlock() has not been called on
    lockOwner,      \* GetLockOwner(): whose waiter list a waiting thread is in
    numKernelWaiters,
    state,          \* ThreadState & Mask
    suspended,      \* the suspend bits of the raw ThreadState
    suspendRequest, \* m_suspend_request_flags
    suspendAllowed, \* m_suspend_allowed_flags
    terminating     \* m_termination_requested

lockVars    == <<tag, sched, pc, arg, seen, nextTag, held>>
waitVars    == <<lockOwner, numKernelWaiters, state>>
suspendVars == <<suspended, suspendRequest, suspendAllowed, terminating>>
vars        == <<lockVars, waitVars, suspendVars>>

Tag(t, w) == [owner |-> t, wait |-> w]
Free      == Tag(NoThread, FALSE)

TypeOK ==
    /\ tag \in [Locks -> [owner : Threads \cup {NoThread}, wait : BOOLEAN]]
    /\ sched \in Threads \cup {NoThread}
    /\ pc \in [Threads -> {"out", "lock", "lockSlow", "wait", "unlockSlow", "store"}]
    /\ arg \in [Threads -> Locks \cup {NoLock}]
    /\ seen \in [Threads -> Threads \cup {NoThread}]
    /\ nextTag \in [Threads -> [owner : Threads \cup {NoThread}, wait : BOOLEAN]]
    /\ held \in [Threads -> SUBSET Locks]
    /\ lockOwner \in [Threads -> Threads \cup {NoThread}]
    /\ numKernelWaiters \in [Threads -> Nat]
    /\ state \in [Threads -> {"Runnable", "Waiting"}]
    /\ suspended \in [Threads -> SUBSET SuspendTypes]
    /\ suspendRequest \in [Threads -> SUBSET SuspendTypes]
    /\ suspendAllowed \in [Threads -> SUBSET SuspendTypes]
    /\ terminating \in [Threads -> BOOLEAN]

Init ==
    /\ tag = [l \in Locks |-> Free]
    /\ sched = NoThread
    /\ pc = [t \in Threads |-> "out"]
    /\ arg = [t \in Threads |-> NoLock]
    /\ seen = [t \in Threads |-> NoThread]
    /\ nextTag = [t \in Threads |-> Free]
    /\ held = [t \in Threads |-> {}]
    /\ lockOwner = [t \in Threads |-> NoThread]
    /\ numKernelWaiters = [t \in Threads |-> 0]
    /\ state = [t \in Threads |-> "Runnable"]
    /\ suspended = [t \in Threads |-> {}]
    /\ suspendRequest = [t \in Threads |-> {}]
    /\ suspendAllowed = [t \in Threads |-> SuspendTypes]
    /\ terminating = [t \in Threads |-> FALSE]

-----------------------------------------------------------------------------
(* KThread's suspension.                                                     *)

GetSuspendFlags(t) == suspendAllowed[t] \cap suspendRequest[t]
IsSuspended(t)     == GetSuspendFlags(t) # {}

ContinueIfHasKernelWaiters(bits, t, n) ==
    IF IsSuspended(t) /\ n > 0 THEN [bits EXCEPT ![t] = {}] ELSE bits

TrySuspend(bits, t, n, flags) ==
    IF n > 0 THEN bits ELSE [bits EXCEPT ![t] = flags]

-----------------------------------------------------------------------------
(* KThread's lists of kernel waiters.                                        *)

\* The waiters in t's LockWithPriorityInheritanceInfo for lock l.
\* Mutant: the list is found without comparing the address key.
WaitersOfAnyKey(t, l) == {w \in Threads : lockOwner[w] = t}
Waiters(t, l) == {w \in Threads : lockOwner[w] = t /\ arg[w] = l}

\* RemoveWaiterByKey hands the list W of t over to n, which leaves it.
PassedKernelWaiters(t, n, W) ==
    [numKernelWaiters EXCEPT ![t] = @ - Cardinality(W), ![n] = @ + (Cardinality(W) - 1)]

-----------------------------------------------------------------------------
(* KThread's operations on other threads.                                    *)

\* RequestSuspend: note the request, then TrySuspend, which leaves a thread
\* that has kernel waiters running.
RequestSuspend(t, type) ==
    /\ sched = NoThread
    /\ suspendRequest' = [suspendRequest EXCEPT ![t] = @ \cup {type}]
    /\ suspended' = TrySuspend(suspended, t, numKernelWaiters[t],
                               suspendAllowed[t] \cap suspendRequest'[t])
    /\ UNCHANGED <<lockVars, waitVars, suspendAllowed, terminating>>

\* Resume: withdraw the request, then UpdateState.
Resume(t, type) ==
    /\ sched = NoThread
    /\ type \in suspendRequest[t]
    /\ suspendRequest' = [suspendRequest EXCEPT ![t] = @ \ {type}]
    /\ suspended' = [suspended EXCEPT ![t] = suspendAllowed[t] \cap suspendRequest'[t]]
    /\ UNCHANGED <<lockVars, waitVars, suspendAllowed, terminating>>

\* RequestTerminate of a running or waiting thread: suspension is withdrawn and
\* a wait is cancelled, which takes the thread out of its owner's waiter list.
CancelWait(t) ==
    /\ state' = [state EXCEPT ![t] = "Runnable"]
    /\ lockOwner' = [lockOwner EXCEPT ![t] = NoThread]
    /\ numKernelWaiters' = [numKernelWaiters EXCEPT ![lockOwner[t]] = @ - 1]
RequestTerminate(t) ==
    /\ sched = NoThread
    /\ ~terminating[t]
    /\ terminating' = [terminating EXCEPT ![t] = TRUE]
    /\ suspendAllowed' = IF IsSuspended(t) THEN [suspendAllowed EXCEPT ![t] = {}] ELSE suspendAllowed
    /\ suspended' = IF IsSuspended(t) THEN [suspended EXCEPT ![t] = {}] ELSE suspended
    /\ IF state[t] = "Waiting" THEN CancelWait(t) ELSE UNCHANGED waitVars
    /\ UNCHANGED <<lockVars, suspendRequest>>

-----------------------------------------------------------------------------
(* KLightLock.                                                               *)

\* A call of Lock(), by a thread that takes nested locks in their order.
CallLock(t, l) ==
    /\ pc[t] = "out"
    /\ \A h \in held[t] : h < l
    /\ pc' = [pc EXCEPT ![t] = "lock"]
    /\ arg' = [arg EXCEPT ![t] = l]
    /\ UNCHANGED <<tag, sched, seen, nextTag, held, waitVars, suspendVars>>

\* Lock's compare-exchange: take a free lock, or set the wait bit.
Lock(t) ==
    /\ pc[t] = "lock"
    /\ LET l == arg[t] IN
       IF tag[l] = Free
       THEN /\ tag' = [tag EXCEPT ![l] = Tag(t, FALSE)]
            /\ held' = [held EXCEPT ![t] = @ \cup {l}]
            /\ pc' = [pc EXCEPT ![t] = "out"]
            /\ arg' = [arg EXCEPT ![t] = NoLock]
            /\ UNCHANGED seen
       ELSE /\ tag' = [tag EXCEPT ![l] = Tag(@.owner, TRUE)]
            /\ seen' = [seen EXCEPT ![t] = tag[l].owner]
            /\ pc' = [pc EXCEPT ![t] = "lockSlow"]
            /\ UNCHANGED <<held, arg>>
    /\ UNCHANGED <<sched, nextTag, waitVars, suspendVars>>

\* LockSlowPath, the owner has changed: go round Lock's loop again.
LockSlowPathRetry(t) ==
    /\ pc[t] = "lockSlow"
    /\ sched = NoThread
    /\ tag[arg[t]] # Tag(seen[t], TRUE)
    /\ pc' = [pc EXCEPT ![t] = "lock"]
    /\ seen' = [seen EXCEPT ![t] = NoThread]
    /\ UNCHANGED <<tag, sched, arg, nextTag, held, waitVars, suspendVars>>

\* LockSlowPath: queue on the owner, wait, and let a suspended owner continue.
LockSlowPath(t) ==
    /\ pc[t] = "lockSlow"
    /\ sched = NoThread
    /\ tag[arg[t]] = Tag(seen[t], TRUE)
    /\ LET owner == seen[t] IN
       /\ lockOwner' = [lockOwner EXCEPT ![t] = owner]
       /\ numKernelWaiters' = [numKernelWaiters EXCEPT ![owner] = @ + 1]
       /\ suspended' = ContinueIfHasKernelWaiters(suspended, owner, numKernelWaiters[owner] + 1)
    /\ state' = [state EXCEPT ![t] = "Waiting"]
    /\ pc' = [pc EXCEPT ![t] = "wait"]
    /\ seen' = [seen EXCEPT ![t] = NoThread]
    /\ UNCHANGED <<tag, sched, arg, nextTag, held, suspendRequest, suspendAllowed, terminating>>

\* The thread runs again after its wait, whatever ended it: LockSlowPath
\* returns true and so does Lock.
LockReturn(t) ==
    /\ pc[t] = "wait"
    /\ state[t] = "Runnable"
    /\ suspended[t] = {}
    /\ held' = [held EXCEPT ![t] = @ \cup {arg[t]}]
    /\ pc' = [pc EXCEPT ![t] = "out"]
    /\ arg' = [arg EXCEPT ![t] = NoLock]
    /\ UNCHANGED <<tag, sched, seen, nextTag, waitVars, suspendVars>>

\* Unlock's compare-exchange: release a lock nobody waits for, else take the slow path.
Unlock(t, l) ==
    /\ pc[t] = "out"
    /\ l \in held[t]
    /\ held' = [held EXCEPT ![t] = @ \ {l}]
    /\ IF tag[l] = Tag(t, FALSE)
       THEN /\ tag' = [tag EXCEPT ![l] = Free]
            /\ UNCHANGED <<pc, arg>>
       ELSE /\ pc' = [pc EXCEPT ![t] = "unlockSlow"]
            /\ arg' = [arg EXCEPT ![t] = l]
            /\ UNCHANGED tag
    /\ UNCHANGED <<sched, seen, nextTag, waitVars, suspendVars>>

\* The tag that makes n the owner while the rest of W waits.
\* Mutant: has_waiters is lost.
NextTagWithoutWaitBit(n, W) == Tag(n, FALSE)
NextTag(n, W) == Tag(n, W # {n})

\* UnlockSlowPath takes the scheduler lock and calls RemoveKernelWaiterByKey:
\* one waiter becomes the next owner and inherits the list of the others.
\* Which one depends on priorities, which may change at any time: any of them.
UnlockSlowPath(t) ==
    /\ pc[t] = "unlockSlow"
    /\ sched = NoThread
    /\ sched' = t
    /\ pc' = [pc EXCEPT ![t] = "store"]
    /\ LET l == arg[t]
           W == Waiters(t, l)
       IN \/ /\ W = {}
             /\ nextTag' = [nextTag EXCEPT ![t] = Free]
             /\ UNCHANGED <<lockOwner, numKernelWaiters>>
          \/ \E n \in W :
             /\ nextTag' = [nextTag EXCEPT ![t] = NextTag(n, W)]
             /\ lockOwner' = [w \in Threads |-> IF w = n THEN NoThread
                                                ELSE IF w \in W THEN n ELSE lockOwner[w]]
             /\ numKernelWaiters' = PassedKernelWaiters(t, n, W)
    /\ UNCHANGED <<tag, arg, seen, held, state, suspendVars>>

SuspendAgain(bits, t) ==
    IF IsSuspended(t) THEN TrySuspend(bits, t, numKernelWaiters[t], GetSuspendFlags(t)) ELSE bits

\* The rest of UnlockSlowPath: wake the next owner, letting it continue if it is
\* suspended and has waiters, suspend this thread again if that was put off for
\* its waiters, write the tag, and release the scheduler lock.
UnlockStore(t) ==
    /\ pc[t] = "store"
    /\ LET n    == nextTag[t].owner
           bits == IF n = NoThread THEN suspended
                   ELSE ContinueIfHasKernelWaiters(suspended, n, numKernelWaiters[n])
       IN /\ state' = IF n = NoThread THEN state ELSE [state EXCEPT ![n] = "Runnable"]
          /\ suspended' = SuspendAgain(bits, t)
    /\ tag' = [tag EXCEPT ![arg[t]] = nextTag[t]]
    /\ sched' = NoThread
    /\ pc' = [pc EXCEPT ![t] = "out"]
    /\ arg' = [arg EXCEPT ![t] = NoLock]
    /\ nextTag' = [nextTag EXCEPT ![t] = Free]
    /\ UNCHANGED <<seen, held, lockOwner, numKernelWaiters,
                   suspendRequest, suspendAllowed, terminating>>

-----------------------------------------------------------------------------
\* What thread t does in the critical section it is in, if it is in one.
Step(t) ==
    \/ Lock(t) \/ LockSlowPathRetry(t) \/ LockSlowPath(t) \/ LockReturn(t)
    \/ \E l \in Locks : Unlock(t, l)
    \/ UnlockSlowPath(t) \/ UnlockStore(t)

Next == \E t \in Threads :
    \/ \E l \in Locks : CallLock(t, l)
    \/ Step(t)
    \/ \E type \in SuspendTypes : RequestSuspend(t, type) \/ Resume(t, type)

NextWithTermination == Next \/ \E t \in Threads : RequestTerminate(t)

Spec                == Init /\ [][Next]_vars
SpecWithTermination == Init /\ [][NextWithTermination]_vars

\* A thread that is not suspended keeps running.
Fairness == \A t \in Threads : WF_vars(suspended[t] = {} /\ Step(t))
FairSpec == Spec /\ Fairness
-----------------------------------------------------------------------------
(* Correctness.                                                              *)

\* Every caller of Lock() goes on as the owner: between the return of Lock()
\* and the call of Unlock() the tag names the thread.  This is what the
\* ASSERT(this->IsLockedByCurrentThread()) of the page table's operations say,
\* and it implies that no two threads hold one lock.
IsLockedByHolder == \A t \in Threads : \A l \in held[t] : tag[l].owner = t

\* No waiter is orphaned: a thread asleep in LockSlowPath is in the waiter list
\* of the thread the tag names, and the tag's wait bit is set, so that thread's
\* Unlock() finds it; or the tag is about to name that thread.
SleepersAreQueuedOnOwner ==
    \A t \in Threads : state[t] = "Waiting" =>
        LET l == arg[t] o == lockOwner[t] IN
        \/ o \in Threads /\ tag[l] = Tag(o, TRUE)
        \/ /\ sched # NoThread /\ arg[sched] = l
           /\ nextTag[sched] = Tag(o, TRUE) \/ nextTag[sched].owner = t

\* m_num_kernel_waiters, which decides whether a thread may be suspended, is
\* the number of threads in the waiter lists, across hand-overs and
\* cancelled waits.
KernelWaitersCounted ==
    \A t \in Threads :
        numKernelWaiters[t] = Cardinality({w \in Threads : lockOwner[w] = t})

\* Every waiter is known to the owner: it is in its list, and counted.
WaitersAreKnown == TypeOK /\ SleepersAreQueuedOnOwner /\ KernelWaitersCounted

\* TrySuspend's "Ensure that we have no waiters": no thread is paused while
\* others sleep on a light lock it owns.
NoWaitersOnSuspended ==
    sched = NoThread =>
        \A t \in Threads : suspended[t] # {} => numKernelWaiters[t] = 0

\* A suspension that was put off because of waiters is not forgotten: a thread
\* that is asked to suspend and still runs owns a lock whose tag sends its
\* Unlock() to the slow path, which suspends it.
DeferredSuspendIsNotLost ==
    sched = NoThread =>
        \A t \in Threads : IsSuspended(t) /\ suspended[t] = {} =>
            \E l \in Locks : tag[l] = Tag(t, TRUE)


\* KLightLock is a mutual exclusion lock: what its callers hold is what a mutex
\* grants.
Abstract  == INSTANCE Mutex WITH Threads <- Threads, Locks <- Locks, held <- held
MutexSpec == Abstract!Spec

=============================================================================

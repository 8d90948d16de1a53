-------------------------- MODULE KConditionVariable --------------------------
(* KConditionVariable: user mutexes (ArbitrateLock / ArbitrateUnlock) and      *)
(* process-wide condition variables, with the priority inheritance of their    *)
(* waiters.  The mutex word and the condition variable's flag are user memory: *)
(* user code changes them with atomic operations of its own, outside the       *)
(* scheduler lock, so a kernel section is split where it writes a word that    *)
(* user code can have changed since the section began.  ArbitrateLock and      *)
(* ArbitrateUnlock are single steps: they act on a word whose wait bit is set, *)
(* and no user operation changes such a word.                                  *)
(*                                                                             *)
(* User code follows the protocol the kernel is written for: compare-exchange  *)
(* an unlocked word, else set the wait bit and arbitrate; unlock with a        *)
(* compare-exchange that fails when the wait bit is set; skip the signal call  *)
(* when the flag is zero.                                                      *)
EXTENDS KThreadLockInfo

CONSTANTS Mutexes,        \* addresses of mutex words, in locking order
          Keys,           \* condition variable keys
          BasePriority,   \* the priority each thread is created with
          NewPriorities,  \* the priorities SetThreadPriority is called with
          TerminatingThreadPriority,
          MutexesOf,      \* the mutexes each thread's program locks
          Sleepers,       \* the threads whose program waits on condition variables
          Signallers,     \* the threads whose program signals them
          Doomed,         \* the threads that are terminated
          Counts,         \* the counts they signal; 0 stands for "all"
          Disciplined     \* programs lock in order and wait with one mutex only

ASSUME ConditionVariableAssumption ==
    /\ NoThread \notin Threads
    /\ IsFiniteSet(Threads)
    /\ Mutexes \subseteq Nat /\ Keys \subseteq Nat /\ Counts \subseteq Nat
    /\ BasePriority \in [Threads -> 0..LowestThreadPriority]
    /\ NewPriorities \subseteq 0..LowestThreadPriority
    /\ TerminatingThreadPriority \in 0..LowestThreadPriority
    /\ MutexesOf \in [Threads -> SUBSET Mutexes]
    /\ Doomed \subseteq Threads
    /\ Disciplined \in BOOLEAN

VARIABLES
    word,        \* user memory: the mutex words
    flag,        \* user memory: the has-waiter flags at the condition variable keys
    held,        \* the mutexes each thread's program believes it holds
    pc,          \* where each thread is
    seen,        \* WaitForAddress's handle argument, then owner_thread
    nextValue,   \* Wait's next_value
    sched,       \* the thread inside a split scheduler-locked section
    k,           \* the KThread fields of KThreadLockInfo, and call arguments
    state,       \* ThreadState
    timer,       \* the threads with a registered hardware timer task
    result,      \* m_wait_result
    signal,      \* Signal's locals: cv_key, count, num_waiters and the iterator
    terminating, \* m_termination_requested
    handles,     \* the threads that have an open handle
    crashed      \* a null owner was dereferenced

userVars == <<word, flag, held>>
callVars == <<pc, seen, sched, signal, nextValue>>
waitVars == <<state, timer, result>>
lifeVars == <<terminating, handles, crashed>>
vars     == <<userVars, callVars, k, waitVars, lifeVars>>

Tag(t, w) == [owner |-> t, wait |-> w]
Free      == Tag(NoThread, FALSE)
NoSignal  == [key |-> 0, count |-> 0, num |-> 0, it |-> NoThread]

Results == {"Success", "TimedOut", "TerminationRequested", "InvalidState"}

TypeOK ==
    /\ word \in [Mutexes -> [owner : Threads \cup {NoThread}, wait : BOOLEAN]]
    /\ flag \in [Keys -> {0, 1}]
    /\ held \in [Threads -> SUBSET Mutexes]
    /\ pc \in [Threads -> {"user", "locking", "arbitrateLock", "lockWait",
                           "release", "cvWait", "signalling", "exited", "gone"}]
    /\ seen \in [Threads -> Threads \cup {NoThread}]
    /\ sched \in Threads \cup {NoThread}
    /\ nextValue \in [owner : Threads \cup {NoThread}, wait : BOOLEAN]
    /\ k.base \in [Threads -> 0..LowestThreadPriority]
    /\ k.priority \in [Threads -> 0..LowestThreadPriority]
    /\ k.addr \in [Threads -> Mutexes]
    /\ k.cvKey \in [Threads -> Keys]
    /\ \A t \in Threads, m \in Mutexes : IsInjective(k.waiters[t][m])
    /\ IsInjective(k.tree) /\ Range(k.tree) \subseteq Threads
    /\ state \in [Threads -> {"Runnable", "Waiting", "Terminated"}]
    /\ timer \subseteq Threads
    /\ result \in [Threads -> Results]
    /\ terminating \subseteq Threads /\ handles \subseteq Threads
    /\ crashed \in BOOLEAN

Init ==
    /\ word = [m \in Mutexes |-> Free]
    /\ flag = [x \in Keys |-> 0]
    /\ held = [t \in Threads |-> {}]
    /\ pc = [t \in Threads |-> "user"]
    /\ seen = [t \in Threads |-> NoThread]
    /\ nextValue = Free
    /\ sched = NoThread
    /\ k = [base |-> BasePriority, priority |-> BasePriority,
            addr |-> [t \in Threads |-> Min(Mutexes)],
            waiters |-> [t \in Threads |-> [m \in Mutexes |-> <<>>]],
            tree |-> <<>>, cvKey |-> [t \in Threads |-> Min(Keys)]]
    /\ state = [t \in Threads |-> "Runnable"]
    /\ timer = {}
    /\ result = [t \in Threads |-> "Success"]
    /\ signal = NoSignal
    /\ terminating = {}
    /\ handles = Threads
    /\ crashed = FALSE

Go(t, where) == pc' = [pc EXCEPT ![t] = where]

\* k.addr and k.cvKey also hold the arguments of a thread's call, from the call
\* on and until it returns; a thread is queued only with those values.
Calls(t, m, x, where) == Go(t, where) /\ k' = [k EXCEPT !.addr[t] = m, !.cvKey[t] = x]
Idle(j, t) == [j EXCEPT !.addr[t] = Min(Mutexes), !.cvKey[t] = Min(Keys)]
Returns(t) == Go(t, "user") /\ k' = Idle(k, t)

\* EndWait and KThreadQueue::CancelWait, for the threads W.  A timer that has
\* fired has taken its task out itself.
Woken(W, r) ==
    /\ state' = [t \in Threads |-> IF t \in W THEN "Runnable" ELSE state[t]]
    /\ result' = [t \in Threads |-> IF t \in W THEN r ELSE result[t]]
    /\ timer' = timer \ W

-----------------------------------------------------------------------------
(* User code.                                                                *)

\* One round of the lock loop: the word is ours, or free and taken, or another's
\* and marked as waited for.
LockRound(t, m) ==
    /\ IF word[m].owner \in {t, NoThread}
       THEN /\ word' = [word EXCEPT ![m] = Tag(t, @.wait)]
            /\ held' = [held EXCEPT ![t] = @ \cup {m}]
            /\ Returns(t)
            /\ UNCHANGED seen
       ELSE /\ word' = [word EXCEPT ![m] = Tag(@.owner, TRUE)]
            /\ seen' = [seen EXCEPT ![t] = word[m].owner]
            /\ Calls(t, m, Min(Keys), "arbitrateLock")
            /\ UNCHANGED held
    /\ UNCHANGED <<flag, sched, signal, nextValue, waitVars, lifeVars>>

UserLock(t, m) ==
    /\ pc[t] = "user"
    /\ m \in MutexesOf[t] \ held[t]
    /\ Disciplined => \A h \in held[t] : h < m
    /\ LockRound(t, m)

UserLockAgain(t) ==
    /\ pc[t] = "locking"
    /\ LockRound(t, k.addr[t])

UserUnlock(t, m) ==
    /\ pc[t] = "user"
    /\ m \in held[t]
    /\ ~word[m].wait
    /\ held' = [held EXCEPT ![t] = @ \ {m}]
    /\ word' = [word EXCEPT ![m] = Free]
    /\ UNCHANGED <<flag, callVars, k, waitVars, lifeVars>>

-----------------------------------------------------------------------------
(* ArbitrateLock: WaitForAddress.                                            *)

\* Without a wait: to the lock loop, or with an error that makes it give up.
LockAgain(t) == Go(t, "locking") /\ UNCHANGED k
WaitForAddressReturns(t) ==
    /\ seen' = [seen EXCEPT ![t] = NoThread]
    /\ UNCHANGED <<userVars, sched, signal, nextValue, waitVars, lifeVars>>

\* Mutant: the word is not read again under the scheduler lock.
WaitForAddressUnchecked(t) ==
    /\ pc[t] = "arbitrateLock" /\ sched = NoThread
    /\ k' = AddWaiter(k, seen[t], t)
    /\ state' = [state EXCEPT ![t] = "Waiting"]
    /\ Go(t, "lockWait")
    /\ UNCHANGED <<userVars, seen, sched, signal, nextValue, timer, result, lifeVars>>
WaitForAddress(t) ==
    /\ pc[t] = "arbitrateLock" /\ sched = NoThread
    /\ IF t \in terminating THEN Returns(t) /\ WaitForAddressReturns(t)
       ELSE IF word[k.addr[t]] # Tag(seen[t], TRUE) THEN LockAgain(t) /\ WaitForAddressReturns(t)
       ELSE IF seen[t] \notin handles THEN Returns(t) /\ WaitForAddressReturns(t)
       ELSE /\ k' = AddWaiter(k, seen[t], t)
            /\ state' = [state EXCEPT ![t] = "Waiting"]
            /\ Go(t, "lockWait")
            /\ UNCHANGED <<userVars, seen, sched, signal, nextValue, timer, result, lifeVars>>

\* The wait is over: the reference to the owner is closed, and user code looks
\* at the word again.
WaitForAddressEnd(t) ==
    /\ pc[t] = "lockWait" /\ state[t] = "Runnable" /\ sched = NoThread
    /\ LockAgain(t) /\ WaitForAddressReturns(t)

\* The word after a hand-over.  Mutant: without the wait bit.
NextValueAlone(r) == IF r.next = NoThread THEN Free ELSE Tag(r.next, FALSE)
NextValue(r) == IF r.next = NoThread THEN Free ELSE Tag(r.next, r.hasWaiters)

\* ArbitrateUnlock, called when the word has the wait bit.
SignalToAddress(t, m) ==
    /\ pc[t] = "user" /\ sched = NoThread
    /\ m \in held[t]
    /\ word[m].wait
    /\ held' = [held EXCEPT ![t] = @ \ {m}]
    /\ LET r == RemoveUserWaiterByKey(k, t, m) IN
       /\ k' = r.k
       /\ word' = [word EXCEPT ![m] = NextValue(r)]
       /\ Woken({r.next} \ {NoThread}, "Success")
    /\ UNCHANGED <<flag, callVars, lifeVars>>

-----------------------------------------------------------------------------
(* WaitProcessWideKeyAtomic: Wait.                                           *)

\* The mutex goes to its next owner, and the flag is raised before the word says
\* so: whoever then locks the mutex to signal finds the flag.
WaitRelease(t, m, x) ==
    /\ pc[t] = "user" /\ sched = NoThread
    /\ t \in Sleepers \ terminating
    /\ m \in held[t]
    /\ Disciplined => held[t] = {m}
    /\ held' = [held EXCEPT ![t] = @ \ {m}]
    /\ LET r == RemoveUserWaiterByKey(k, t, m) IN
       /\ k' = [r.k EXCEPT !.addr[t] = m, !.cvKey[t] = x]
       /\ Woken({r.next} \ {NoThread}, "Success")
       /\ nextValue' = NextValue(r)
    /\ flag' = [flag EXCEPT ![x] = 1]
    /\ sched' = t
    /\ Go(t, "release")
    /\ UNCHANGED <<word, seen, signal, lifeVars>>

WaitPark(t, timed) ==
    /\ pc[t] = "release"
    /\ word' = [word EXCEPT ![k.addr[t]] = nextValue]
    /\ k' = TreeInsert(k, t)
    /\ state' = [state EXCEPT ![t] = "Waiting"]
    /\ timer' = IF timed THEN timer \cup {t} ELSE timer
    /\ sched' = NoThread
    /\ nextValue' = Free
    /\ Go(t, "cvWait")
    /\ UNCHANGED <<flag, held, seen, signal, result, lifeVars>>

\* A timeout of zero releases the mutex and returns.
WaitPoll(t) ==
    /\ pc[t] = "release"
    /\ word' = [word EXCEPT ![k.addr[t]] = nextValue]
    /\ sched' = NoThread
    /\ nextValue' = Free
    /\ Go(t, "locking")
    /\ UNCHANGED <<flag, held, seen, signal, k, waitVars, lifeVars>>

\* Wait returns: a signalled thread has been given the mutex, one that timed out
\* locks it again, and one whose mutex died with its owner goes without.
WaitEnd(t) ==
    /\ pc[t] = "cvWait" /\ state[t] = "Runnable" /\ sched = NoThread
    /\ held' = IF result[t] = "Success" THEN [held EXCEPT ![t] = @ \cup {k.addr[t]}] ELSE held
    /\ result' = [result EXCEPT ![t] = "Success"]
    /\ IF result[t] = "TimedOut" THEN LockAgain(t) ELSE Returns(t)
    /\ UNCHANGED <<word, flag, seen, sched, signal, nextValue, state, timer, lifeVars>>

-----------------------------------------------------------------------------
(* SignalProcessWideKey: Signal.                                             *)

\* nfind_key({cv_key, -1}), and the successor erase returns.
FirstOfKey(x) ==
    LET later == SelectSeq(k.tree, LAMBDA u : k.cvKey[u] >= x)
    IN  IF later = <<>> THEN NoThread ELSE Head(later)
Successor(t) ==
    LET i == CHOOSE j \in DOMAIN k.tree : k.tree[j] = t
    IN  IF i = Len(k.tree) THEN NoThread ELSE k.tree[i + 1]

SignalBegin(t, x, count) ==
    /\ pc[t] = "user" /\ sched = NoThread
    /\ t \in Signallers
    /\ flag[x] # 0
    /\ signal' = [key |-> x, count |-> count, num |-> 0, it |-> FirstOfKey(x)]
    /\ sched' = t
    /\ Go(t, "signalling")
    /\ UNCHANGED <<userVars, seen, nextValue, k, waitVars, lifeVars>>

MoreToSignal ==
    /\ signal.it # NoThread
    /\ signal.count = 0 \/ signal.num < signal.count
    /\ k.cvKey[signal.it] = signal.key

\* A free word gets the thread's tag, another one the wait bit.
UpdateLockAtomic(m, own) ==
    word' = [word EXCEPT ![m] = IF @ = Free THEN own ELSE Tag(@.owner, TRUE)]

\* SignalImpl: the thread is given a free mutex, or queued on the owner of a held
\* one, if the tag names a thread.
SignalImpl(u) ==
    LET m     == k.addr[u]
        owner == word[m].owner
        k1    == TreeErase(k, u)
    IN  /\ UpdateLockAtomic(m, Tag(u, FALSE))
        /\ IF owner = NoThread THEN k' = k1 /\ Woken({u}, "Success")
           ELSE IF owner \in handles THEN k' = AddWaiter(k1, owner, u) /\ UNCHANGED waitVars
           ELSE k' = k1 /\ Woken({u}, "InvalidState")

SignalNext(t) ==
    /\ pc[t] = "signalling"
    /\ MoreToSignal
    /\ SignalImpl(signal.it)
    /\ signal' = [signal EXCEPT !.it = Successor(signal.it), !.num = @ + 1]
    /\ UNCHANGED <<flag, held, pc, seen, sched, nextValue, lifeVars>>

ClearFlag ==
    IF signal.it = NoThread \/ k.cvKey[signal.it] # signal.key
    THEN [flag EXCEPT ![signal.key] = 0] ELSE flag

SignalEnd(t) ==
    /\ pc[t] = "signalling"
    /\ ~MoreToSignal
    /\ flag' = ClearFlag
    /\ signal' = NoSignal
    /\ sched' = NoThread
    /\ Go(t, "user")
    /\ UNCHANGED <<word, held, seen, nextValue, k, waitVars, lifeVars>>

-----------------------------------------------------------------------------
(* Other threads, and the timer.                                             *)

\* The CancelWait of the two wait queues: leave the owner's list or the tree.
Cancelled(j, t) ==
    LET o  == GetLockOwner(j, t)
        j1 == IF o = NoThread THEN j ELSE RemoveWaiter(j, o, t)
    IN  IF InTree(j1, t) THEN TreeErase(j1, t) ELSE j1

OnTimer(t) ==
    /\ sched = NoThread
    /\ t \in timer
    /\ k' = Cancelled(k, t)
    /\ Woken({t}, "TimedOut")
    /\ UNCHANGED <<userVars, callVars, lifeVars>>

SetThreadPriority(t, p) ==
    /\ sched = NoThread
    /\ state[t] # "Terminated"
    /\ k.base[t] # p
    /\ k' = SetBasePriority(k, t, p)
    /\ UNCHANGED <<userVars, callVars, waitVars, lifeVars>>

RequestTerminate(t) ==
    /\ sched = NoThread
    /\ t \notin terminating
    /\ terminating' = terminating \cup {t}
    /\ LET k1 == IncreaseBasePriority(k, t, TerminatingThreadPriority) IN
       IF state[t] = "Waiting"
       THEN k' = Cancelled(k1, t) /\ Woken({t}, "TerminationRequested")
       ELSE k' = k1 /\ UNCHANGED waitVars
    /\ UNCHANGED <<userVars, callVars, handles, crashed>>

\* A terminating thread exits when it is next in user mode, whatever it holds.
Exit(t) ==
    /\ t \in terminating
    /\ pc[t] \in {"user", "locking"}
    /\ state' = [state EXCEPT ![t] = "Terminated"]
    /\ Go(t, "exited")
    /\ UNCHANGED <<userVars, seen, sched, signal, nextValue, k, timer, result, lifeVars>>

CloseHandle(t) ==
    /\ pc[t] = "exited"
    /\ t \in handles
    /\ handles' = handles \ {t}
    /\ UNCHANGED <<userVars, callVars, k, waitVars, terminating, crashed>>

\* The last reference to a thread is gone: no handle, and no thread in
\* WaitForAddress that opened it.  The waiters that are left are cancelled after
\* their lock info has been taken away, which only the condition variable's wait
\* queue is prepared for; WaitForAddress's calls the owner it does not have.
HasReferences(t) == t \in handles \/ \E u \in Threads : pc[u] = "lockWait" /\ seen[u] = t

Finalize(t) ==
    /\ sched = NoThread
    /\ pc[t] = "exited"
    /\ ~HasReferences(t)
    /\ LET W == UNION {Range(k.waiters[t][m]) : m \in Mutexes} IN
       IF \E u \in W : pc[u] = "lockWait"
       THEN crashed' = TRUE /\ UNCHANGED <<pc, k, waitVars>>
       ELSE /\ k' = [k EXCEPT !.waiters[t] = [m \in Mutexes |-> <<>>]]
            /\ Woken(W, "InvalidState")
            /\ Go(t, "gone")
            /\ UNCHANGED crashed
    /\ UNCHANGED <<userVars, seen, sched, signal, nextValue, terminating, handles>>

-----------------------------------------------------------------------------

Call(t) ==
    \/ \E m \in Mutexes : UserLock(t, m) \/ \E x \in Keys : WaitRelease(t, m, x)
    \/ \E x \in Keys, count \in Counts : SignalBegin(t, x, count)

Unlock(t, m) == UserUnlock(t, m) \/ SignalToAddress(t, m)

Step(t) ==
    \/ UserLockAgain(t) \/ WaitForAddress(t) \/ WaitForAddressEnd(t)
    \/ (\E timed \in BOOLEAN : WaitPark(t, timed)) \/ WaitPoll(t) \/ WaitEnd(t)
    \/ SignalNext(t) \/ SignalEnd(t)

Next ==
    \E t \in Threads :
        \/ Call(t) \/ Step(t) \/ OnTimer(t)
        \/ \E m \in Mutexes : Unlock(t, m)
        \/ \E p \in NewPriorities : SetThreadPriority(t, p)

\* Threads are also terminated, and the objects of dead ones destroyed.
NextWithTermination ==
    /\ ~crashed
    /\ \/ Next
       \/ \E t \in Doomed : RequestTerminate(t) \/ Exit(t) \/ CloseHandle(t) \/ Finalize(t)

Spec == Init /\ [][Next]_vars
SpecWithTermination == Init /\ [][NextWithTermination]_vars

\* Threads that run get on with their calls, and unlock what they have locked.
Fairness ==
    \A t \in Threads : WF_vars(Step(t)) /\ \A m \in Mutexes : SF_vars(Unlock(t, m))
FairSpec == Spec /\ Fairness

-----------------------------------------------------------------------------

\* Mutual exclusion: a thread whose lock, or condition variable wait, has
\* returned owns the mutex word until it gives it up.
HolderOwnsWord == \A t \in Threads : \A m \in held[t] : word[m].owner = t

\* No orphans (SignalToAddress's comment): a thread asleep for a mutex is in the
\* list of the thread the word names, with the wait bit set, so that the unlock
\* comes to the kernel and finds it.
WaitersAreOnOwner ==
    sched = NoThread =>
        \A t \in Threads : state[t] = "Waiting" /\ ~InTree(k, t) =>
            /\ GetLockOwner(k, t) # NoThread
            /\ word[k.addr[t]] = Tag(GetLockOwner(k, t), TRUE)

\* The mutex word is the truth: who holds it is named by it, and who waits for it is
\* found through it.
WordIsTrue == HolderOwnsWord /\ WaitersAreOnOwner


\* Between calls every thread has exactly the priority it should inherit, along
\* chains of owners too, although most calls only restore it conditionally.
PriorityIsInherited ==
    \A t \in Threads : pc[t] # "gone" => k.priority[t] = InheritedPriority(k, t)

\* RestorePriority takes queued threads out and back in: the queues stay sorted
\* and without duplicates, and the next owner is the most urgent waiter.
QueuesAreSorted ==
    /\ TypeOK
    /\ \A t \in Threads, m \in Mutexes : \A i \in 1..(Len(k.waiters[t][m]) - 1) :
           k.priority[k.waiters[t][m][i]] <= k.priority[k.waiters[t][m][i + 1]]
    /\ \A i \in 1..(Len(k.tree) - 1) : TreeRank(k)[k.tree[i]] <= TreeRank(k)[k.tree[i + 1]]

\* Inheritance, and the queues it keeps in order, through every way a wait can end.
InheritanceIsRight == PriorityIsInherited /\ QueuesAreSorted

MostUrgent == {t \in Threads : \A u \in Threads : BasePriority[t] <= BasePriority[u]}

\* A thread asleep for a mutex, in ArbitrateLock or signalled in a wait, is
\* woken, unless more urgent threads keep passing it: the queues are served by
\* priority and, among equals, first come first served.
LockWaiterIsWoken ==
    \A t \in MostUrgent : (state[t] = "Waiting" /\ ~InTree(k, t)) ~> (state[t] = "Runnable")
=============================================================================

----------------------------- MODULE KResourceLimit -----------------------------
(* KResourceLimit, one resource, with the KLightConditionVariable on which        *)
(* Reserve waits for room.  The light lock is the atomic lock that KLightLock is   *)
(* shown to implement: what a thread does between two waits is one step, from the  *)
(* acquisition of the lock to its release.  Every wait has a timeout, as all       *)
(* callers in the kernel give one.                                                 *)
EXTENDS Integers, FiniteSets, Functions

CONSTANTS Threads, NoThread,
          Amounts,   \* what is reserved and released
          Doomed,    \* the threads that are terminated
          Limits     \* the values SetLimitValue is called with

ASSUME ResourceAssumption ==
    /\ IsFiniteSet(Threads) /\ NoThread \notin Threads
    /\ Doomed \subseteq Threads
    /\ Amounts \subseteq Nat /\ Limits \subseteq Nat

VARIABLES
    limit, current, hint, peak,  \* the entries of m_limit_values, m_current_values, ...
    waiterCount,     \* m_waiter_count
    owner,           \* of m_lock
    waitList,        \* m_wait_list of m_cond_var
    pc,              \* of each thread: "user", "asleep" in the wait, "spin" (see Spin)
    amount,          \* the value of its Reserve
    expired,         \* the threads whose timeout has passed
    terminating,
    held, heldHint,  \* what each thread has reserved, and its share of the hints
    raised           \* the sleepers since whose last look the limit was raised

valueVars == <<limit, current, hint, peak>>
heldVars  == <<held, heldHint>>
vars == <<valueVars, waiterCount, owner, waitList, pc, amount, expired, terminating, heldVars, raised>>

TypeOK ==
    /\ limit \in Int /\ current \in Int /\ hint \in Int /\ peak \in Int
    /\ waiterCount \in Int
    /\ owner \in Threads \cup {NoThread}
    /\ waitList \subseteq Threads
    /\ pc \in [Threads -> {"user", "asleep", "spin"}]
    /\ amount \in [Threads -> Amounts \cup {0}]
    /\ expired \subseteq Threads /\ terminating \subseteq Threads /\ raised \subseteq Threads
    /\ held \in [Threads -> Int] /\ heldHint \in [Threads -> Int]

Init ==
    /\ limit \in Limits /\ current = 0 /\ hint = 0 /\ peak = 0
    /\ waiterCount = 0
    /\ owner = NoThread
    /\ waitList = {}
    /\ pc = [t \in Threads |-> "user"]
    /\ amount = [t \in Threads |-> 0]
    /\ expired = {} /\ terminating = {} /\ raised = {}
    /\ held = [t \in Threads |-> 0] /\ heldHint = [t \in Threads |-> 0]

-----------------------------------------------------------------------------
(* Reserve.                                                                  *)

\* The tests of a round.  A reservation of zero fails, as one that overflows would.
\* Mutant: the hints are compared instead of the values.
FitsHint(v) == v > 0 /\ hint + v <= limit
Fits(v)     == v > 0 /\ current + v <= limit
MayWait(t, v) == v > 0 /\ hint + v <= limit /\ t \notin expired

Return(t) ==
    /\ pc' = [pc EXCEPT ![t] = "user"]
    /\ amount' = [amount EXCEPT ![t] = 0]
    /\ expired' = expired \ {t}
    /\ owner' = NoThread

Take(t, v) ==
    /\ current' = current + v
    /\ hint' = hint + v
    /\ peak' = IF current + v > peak THEN current + v ELSE peak
    /\ held' = [held EXCEPT ![t] = @ + v]
    /\ heldHint' = [heldHint EXCEPT ![t] = @ + v]
    /\ UNCHANGED limit

\* KLightConditionVariable::Wait: unlocks and sleeps, or, when the thread is
\* terminating, returns at once with the lock still held.
Wait(t, v) ==
    /\ amount' = [amount EXCEPT ![t] = v]
    /\ IF t \in terminating
       THEN pc' = [pc EXCEPT ![t] = "spin"] /\ owner' = t /\ UNCHANGED waitList
       ELSE /\ pc' = [pc EXCEPT ![t] = "asleep"]
            /\ owner' = NoThread
            /\ waitList' = waitList \cup {t}
    /\ UNCHANGED expired

\* One round of the loop with the lock; n is m_waiter_count without this thread.
Round(t, v, n) ==
    \/ /\ Fits(v)
       /\ Take(t, v) /\ Return(t)
       /\ waiterCount' = n /\ UNCHANGED waitList
    \/ /\ ~Fits(v) /\ MayWait(t, v)
       /\ Wait(t, v)
       /\ waiterCount' = IF t \in terminating THEN n ELSE n + 1
       /\ UNCHANGED <<valueVars, heldVars>>
    \/ /\ ~Fits(v) /\ ~MayWait(t, v)
       /\ Return(t)
       /\ waiterCount' = n /\ UNCHANGED <<waitList, valueVars, heldVars>>

\* A call that finds the hints at the limit returns false at once, and changes nothing.
Reserve(t, v) ==
    /\ pc[t] = "user" /\ owner = NoThread
    /\ hint < limit
    /\ Round(t, v, waiterCount)
    /\ raised' = raised \ {t}
    /\ UNCHANGED terminating

\* The end of the wait: the lock again, and the next round.
Wake(t) ==
    /\ pc[t] = "asleep" /\ t \notin waitList /\ owner = NoThread
    /\ Round(t, amount[t], waiterCount - 1)
    /\ raised' = raised \ {t}
    /\ UNCHANGED terminating

\* A terminating thread goes round with the lock held, so that nothing it waits for
\* can happen, until its timeout.
Spin(t) ==
    /\ pc[t] = "spin" /\ ~MayWait(t, amount[t])
    /\ Return(t)
    /\ UNCHANGED <<valueVars, waiterCount, waitList, terminating, heldVars, raised>>

-----------------------------------------------------------------------------
(* What changes the values, and what ends a wait.                            *)

\* KLightConditionVariable::Broadcast.
\* Mutant: nobody is woken.
NoBroadcast == waitList' = waitList
Broadcast   == waitList' = {}

\* A thread gives back what it has reserved; the hint may go before the value.
Release(t, v, h) ==
    /\ pc[t] = "user" /\ owner = NoThread
    /\ v <= held[t] /\ h <= heldHint[t] /\ heldHint[t] - h <= held[t] - v
    /\ current' = current - v /\ hint' = hint - h
    /\ held' = [held EXCEPT ![t] = @ - v] /\ heldHint' = [heldHint EXCEPT ![t] = @ - h]
    /\ IF waiterCount # 0 THEN Broadcast ELSE UNCHANGED waitList
    /\ UNCHANGED <<limit, peak, waiterCount, owner, pc, amount, expired, terminating, raised>>

\* Waiters are not woken, though there may be room for them now.
SetLimitValue(l) ==
    /\ owner = NoThread
    /\ current <= l
    /\ limit' = l /\ peak' = current
    /\ raised' = IF l > limit THEN {t \in Threads : pc[t] = "asleep"} ELSE raised
    /\ UNCHANGED <<current, hint, waiterCount, owner, waitList, pc, amount, expired, terminating, heldVars>>

\* The timeout passes, and later the timer ends the wait.
Expire(t) ==
    /\ pc[t] # "user" /\ t \notin expired
    /\ expired' = expired \cup {t}
    /\ UNCHANGED <<valueVars, waiterCount, owner, waitList, pc, amount, terminating, heldVars, raised>>

\* Mutant: the timer leaves the thread in the wait list.
OnTimerLeft(t) == t \in waitList /\ t \in expired /\ UNCHANGED vars
OnTimer(t) ==
    /\ t \in waitList /\ t \in expired
    /\ waitList' = waitList \ {t}
    /\ UNCHANGED <<valueVars, waiterCount, owner, pc, amount, expired, terminating, heldVars, raised>>

RequestTerminate(t) ==
    /\ t \notin terminating
    /\ terminating' = terminating \cup {t}
    /\ waitList' = waitList \ {t}
    /\ UNCHANGED <<valueVars, waiterCount, owner, pc, amount, expired, heldVars, raised>>

Next ==
    \/ \E t \in Threads :
           \/ \E v \in Amounts : Reserve(t, v)
           \/ \E v, h \in Amounts : Release(t, v, h)
           \/ Wake(t) \/ Spin(t) \/ Expire(t) \/ OnTimer(t)
           \/ t \in Doomed /\ RequestTerminate(t)
    \/ \E l \in Limits : SetLimitValue(l)

Spec == Init /\ [][Next]_vars

\* Time passes, and woken threads get the lock, for which they compete.
FairSpec ==
    /\ Spec
    /\ \A t \in Threads : SF_vars(Wake(t)) /\ WF_vars(Spin(t)) /\ WF_vars(Expire(t)) /\ WF_vars(OnTimer(t))

-----------------------------------------------------------------------------

\* "m_current_values <= m_limit_values", as every operation asserts, although limits
\* are lowered while values are in use; the peak lies in between.
NeverOverLimit == current <= peak /\ peak <= limit

\* The books balance: the values are what the threads hold, and the hints what they
\* have not announced to release; in particular "m_current_hints <= m_current_values".
BooksBalance ==
    /\ current = SumFunction(held) /\ hint = SumFunction(heldHint)
    /\ 0 <= hint /\ hint <= current

\* The values are right: they add up, and never pass the limit.
BooksAreRight == NeverOverLimit /\ BooksBalance

\* m_waiter_count, which decides whether Release wakes anybody, is the number of
\* threads in the wait, woken ones that do not have the lock yet included.
WaitersAreCounted == waiterCount = Cardinality({t \in Threads : pc[t] = "asleep"})

\* No lost wake-up: a thread sleeps beside room for its reservation only when the
\* room came from SetLimitValue.
NoForgottenWaiter == \A t \in waitList : ~Fits(amount[t]) \/ t \in raised

\* Release knows of every waiter, and leaves none asleep beside room for it.
WaitersAreServed == WaitersAreCounted /\ NoForgottenWaiter

\* Between two steps the lock is held just by the thread that spins in Reserve.
OnlySpinnersHoldTheLock ==
    \A t \in Threads : pc[t] = "spin" <=> owner = t

\* Every Reserve returns.
ReserveReturns == \A t \in Threads : pc[t] # "user" ~> pc[t] = "user"

\* The inductive invariant of the proofs.
IInv ==
    /\ TypeOK /\ NeverOverLimit /\ WaitersAreCounted /\ NoForgottenWaiter /\ OnlySpinnersHoldTheLock
    /\ \A t \in waitList : pc[t] = "asleep"
=============================================================================

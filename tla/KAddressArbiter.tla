---------------------------- MODULE KAddressArbiter ----------------------------
(* KAddressArbiter: threads sleep on an address while the word there has, or   *)
(* is below, a value, and are woken by signals that may also change the word.  *)
(* Words are user memory: user code stores to them without the scheduler lock, *)
(* so a wait is two steps, the look at the word and the entry into the tree,   *)
(* with `sched` held in between.  A signal changes the word in one atomic      *)
(* operation, and threads it wakes run only after the section: it is one step. *)
EXTENDS Integers, Sequences, FiniteSets, FiniteSetsExt, SequencesExt

CONSTANTS Threads, NoThread,
          Addresses, NoAddress,
          Priority,   \* of each thread; smaller is more urgent
          Width,      \* bits of a word, 32 in the code
          WaitTypes,  \* the ArbitrationTypes in use
          WaitValues, \* the values waits compare with
          Doomed,     \* the threads that are terminated
          Counts      \* the counts signals are called with; 0 stands for "all"

ASSUME ArbiterAssumption ==
    /\ NoThread \notin Threads
    /\ NoAddress \notin Addresses
    /\ Priority \in [Threads -> Nat]
    /\ Width \in Nat \ {0}
    /\ WaitTypes \subseteq {"WaitIfLessThan", "DecrementAndWaitIfLessThan", "WaitIfEqual"}
    /\ WaitValues \subseteq Int
    /\ Doomed \subseteq Threads
    /\ Counts \subseteq Nat

VARIABLES
    word,        \* user memory
    owed,        \* the address a thread has stored to and not signalled yet
    tree,        \* m_tree: the waiting threads by address and priority
    addr, value, \* of each thread's wait: m_condvar_key, and what it compares with
    waitType,
    state,       \* ThreadState
    timer,       \* the threads with a registered timer task
    pc,          \* user, in a wait call before or after the tree insertion
    sched,       \* the thread inside a split scheduler-locked section
    terminating,
    passedOver   \* history: waiters a call left asleep when it changed their word

userVars == <<word, owed>>
argVars  == <<addr, value, waitType>>
vars     == <<userVars, tree, argVars, state, timer, pc, sched, terminating, passedOver>>

\* s32 arithmetic.
Words   == -(2 ^ (Width - 1)) .. 2 ^ (Width - 1) - 1
Wrap(n) == ((n + 2 ^ (Width - 1)) % 2 ^ Width) - 2 ^ (Width - 1)

TypeOK ==
    /\ word \in [Addresses -> Words]
    /\ owed \in [Threads -> Addresses \cup {NoAddress}]
    /\ tree \in Seq(Threads)
    /\ addr \in [Threads -> Addresses \cup {NoAddress}]
    /\ value \in [Threads -> Words]
    /\ waitType \in [Threads -> WaitTypes \cup {"none"}]
    /\ state \in [Threads -> {"Runnable", "Waiting"}]
    /\ timer \subseteq Threads
    /\ pc \in [Threads -> {"user", "parking", "wait"}]
    /\ sched \in Threads \cup {NoThread}
    /\ terminating \subseteq Threads
    /\ passedOver \subseteq Threads

Init ==
    /\ word = [a \in Addresses |-> 0]
    /\ owed = [t \in Threads |-> NoAddress]
    /\ tree = <<>>
    /\ addr = [t \in Threads |-> NoAddress]
    /\ value = [t \in Threads |-> 0]
    /\ waitType = [t \in Threads |-> "none"]
    /\ state = [t \in Threads |-> "Runnable"]
    /\ timer = {}
    /\ pc = [t \in Threads |-> "user"]
    /\ sched = NoThread
    /\ terminating = {}
    /\ passedOver = {}

-----------------------------------------------------------------------------
(* The tree.                                                                 *)

\* The waiters of an address, most urgent first, in order of arrival among
\* equals; addresses do not meet in the tree, so their order is left open.
WaitersOf(a) == SelectSeq(tree, LAMBDA t : addr[t] = a)

Insert(t) ==
    SelectSeq(tree, LAMBDA u : Priority[u] <= Priority[t]) \o <<t>>
        \o SelectSeq(tree, LAMBDA u : Priority[u] > Priority[t])

\* Ends the waits of the threads W: out of the tree, runnable, no timer.
\* Mutant: the timer task is forgotten.
EndWaitKeepingTimer(W) ==
    /\ tree' = SelectSeq(tree, LAMBDA t : t \notin W)
    /\ state' = [t \in Threads |-> IF t \in W THEN "Runnable" ELSE state[t]]
    /\ UNCHANGED timer
EndWait(W) ==
    /\ tree' = SelectSeq(tree, LAMBDA t : t \notin W)
    /\ state' = [t \in Threads |-> IF t \in W THEN "Runnable" ELSE state[t]]
    /\ timer' = timer \ W

\* The loop common to the signals wakes the first `count` waiters, or all.
\* Mutant: one when all are asked for.
WokenFirst(a, count) == LET w == WaitersOf(a) IN {w[i] : i \in 1..Min({1, Len(w)})}
Woken(a, count) ==
    LET w == WaitersOf(a)
        n == IF count = 0 THEN Len(w) ELSE Min({count, Len(w)})
    IN  {w[i] : i \in 1..n}

\* The condition a wait is for, of the word it read.
Waits(type, w, v) == IF type = "WaitIfEqual" THEN w = v ELSE w < v

\* The history of a call that changes the word at a: the threads that wait there,
\* or are about to, for what the word had until then.
PassOver(a) ==
    passedOver' = {t \in Threads :
        /\ state'[t] = "Waiting" \/ pc'[t] = "parking"
        /\ \/ t \in passedOver
           \/ /\ addr'[t] = a
              /\ Waits(waitType'[t], word[a], value'[t]) /\ ~Waits(waitType'[t], word'[a], value'[t])}

-----------------------------------------------------------------------------
(* User code, and the calls.                                                 *)

\* A store that may make waiters' conditions false; its thread signals it next,
\* and is not terminated before it has.
UserStore(t, a, v) ==
    /\ pc[t] = "user" /\ owed[t] = NoAddress
    /\ t \notin terminating
    /\ word[a] # v
    /\ word' = [word EXCEPT ![a] = v]
    /\ owed' = [owed EXCEPT ![t] = a]
    /\ UNCHANGED <<tree, argVars, state, timer, pc, sched, terminating, passedOver>>

Signal(t, a, count) ==
    /\ pc[t] = "user" /\ sched = NoThread
    /\ owed[t] = NoAddress \/ (owed[t] = a /\ count = 0)
    /\ EndWait(Woken(a, count))
    /\ passedOver' = passedOver \ Woken(a, count)
    /\ owed' = [owed EXCEPT ![t] = NoAddress]
    /\ UNCHANGED <<word, argVars, pc, sched, terminating>>

\* Loops over the exclusive monitor, each one atomic operation.  When UpdateIfEqual
\* does not find v the call returns ResultInvalidState, and nothing happens.
UpdateIfEqual(a, v, new) == word[a] = v /\ word' = [word EXCEPT ![a] = new]
DecrementIfLessThan(a, v) == word' = IF word[a] < v THEN [word EXCEPT ![a] = Wrap(@ - 1)] ELSE word

SignalAndIncrementIfEqual(t, a, v, count) ==
    /\ pc[t] = "user" /\ sched = NoThread
    /\ owed[t] = NoAddress
    /\ UpdateIfEqual(a, v, Wrap(v + 1))
    /\ EndWait(Woken(a, count))
    /\ UNCHANGED <<owed, argVars, pc, sched, terminating>>
    /\ PassOver(a)

\* The value for n waiters: the look-ahead counts the waiters behind the first,
\* and stops one past `count`.
\* Mutant: the first waiter is counted too.
NewValueCountingFirst(v, n, count) ==
    IF n = 0 THEN Wrap(v + 1)
    ELSE IF count = 0 THEN Wrap(v - 2)
    ELSE IF Min({n, count + 1}) < count THEN Wrap(v - 1) ELSE v
NewValue(v, n, count) ==
    IF n = 0 THEN Wrap(v + 1)
    ELSE IF count = 0 THEN Wrap(v - 2)
    ELSE IF Min({n - 1, count + 1}) < count THEN Wrap(v - 1) ELSE v

SignalAndModifyByWaitingCountIfEqual(t, a, v, count) ==
    /\ pc[t] = "user" /\ sched = NoThread
    /\ owed[t] = NoAddress
    /\ UpdateIfEqual(a, v, NewValue(v, Len(WaitersOf(a)), count))
    /\ EndWait(Woken(a, count))
    /\ UNCHANGED <<owed, argVars, pc, sched, terminating>>
    /\ PassOver(a)

\* WaitIfLessThan and WaitIfEqual, up to the tree: read the word, or decrement it
\* if it is small enough; return unless the condition holds, or at once when the
\* timeout is zero (also then with the word decremented).
\* Mutant: the look at the word is skipped.
WaitUnread(t, type, a, v) ==
    /\ pc[t] = "user" /\ sched = NoThread /\ t \notin terminating
    /\ owed[t] = NoAddress
    /\ addr' = [addr EXCEPT ![t] = a]
    /\ value' = [value EXCEPT ![t] = v]
    /\ waitType' = [waitType EXCEPT ![t] = type]
    /\ pc' = [pc EXCEPT ![t] = "parking"]
    /\ sched' = t
    /\ UNCHANGED <<userVars, tree, state, timer, terminating, passedOver>>
Wait(t, type, a, v) ==
    /\ pc[t] = "user" /\ sched = NoThread /\ t \notin terminating
    /\ owed[t] = NoAddress
    /\ Waits(type, word[a], v)
    /\ IF type = "DecrementAndWaitIfLessThan" THEN DecrementIfLessThan(a, v) ELSE UNCHANGED word
    /\ addr' = [addr EXCEPT ![t] = a]
    /\ value' = [value EXCEPT ![t] = v]
    /\ waitType' = [waitType EXCEPT ![t] = type]
    /\ pc' = [pc EXCEPT ![t] = "parking"]
    /\ sched' = t
    /\ UNCHANGED <<owed, tree, state, timer, terminating>>
    /\ PassOver(a)

Idle(t) ==
    /\ pc' = [pc EXCEPT ![t] = "user"]
    /\ addr' = [addr EXCEPT ![t] = NoAddress]
    /\ value' = [value EXCEPT ![t] = 0]
    /\ waitType' = [waitType EXCEPT ![t] = "none"]
    /\ passedOver' = passedOver \ {t}

WaitPoll(t) ==
    /\ pc[t] = "parking"
    /\ sched' = NoThread
    /\ Idle(t)
    /\ UNCHANGED <<userVars, tree, state, timer, terminating>>

WaitPark(t, timed) ==
    /\ pc[t] = "parking"
    /\ tree' = Insert(t)
    /\ state' = [state EXCEPT ![t] = "Waiting"]
    /\ timer' = IF timed THEN timer \cup {t} ELSE timer
    /\ pc' = [pc EXCEPT ![t] = "wait"]
    /\ sched' = NoThread
    /\ UNCHANGED <<userVars, argVars, terminating, passedOver>>

WaitReturn(t) ==
    /\ pc[t] = "wait" /\ state[t] = "Runnable" /\ sched = NoThread
    /\ Idle(t)
    /\ UNCHANGED <<userVars, tree, state, timer, sched, terminating>>

\* A wait is cancelled by the timer or by a termination request.
CancelWait(t) == EndWait({t}) /\ passedOver' = passedOver \ {t}

OnTimer(t) ==
    /\ sched = NoThread
    /\ t \in timer
    /\ IF state[t] = "Waiting" THEN CancelWait(t) ELSE timer' = timer \ {t} /\ UNCHANGED <<tree, state, passedOver>>
    /\ UNCHANGED <<userVars, argVars, pc, sched, terminating>>

RequestTerminate(t) ==
    /\ sched = NoThread
    /\ t \notin terminating /\ owed[t] = NoAddress
    /\ terminating' = terminating \cup {t}
    /\ IF state[t] = "Waiting" THEN CancelWait(t) ELSE UNCHANGED <<tree, state, timer, passedOver>>
    /\ UNCHANGED <<userVars, argVars, pc, sched>>

Next ==
    \E t \in Threads :
        \/ \E a \in Addresses, v \in Words :
               \/ UserStore(t, a, v)
               \/ v \in WaitValues /\ \E type \in WaitTypes : Wait(t, type, a, v)
               \/ \E count \in Counts : \/ SignalAndIncrementIfEqual(t, a, v, count)
                                        \/ SignalAndModifyByWaitingCountIfEqual(t, a, v, count)
        \/ \E a \in Addresses, count \in Counts : Signal(t, a, count)
        \/ WaitPoll(t) \/ (\E timed \in BOOLEAN : WaitPark(t, timed)) \/ WaitReturn(t)
        \/ OnTimer(t) \/ (t \in Doomed /\ RequestTerminate(t))

Spec == Init /\ [][Next]_vars

\* A thread that has stored signals, and gets the scheduler lock for it: strongly
\* fair, since others take the lock in between.  Calls in the kernel finish.
Fairness ==
    \A t \in Threads :
        /\ SF_vars(\E a \in Addresses, count \in Counts : owed[t] = a /\ Signal(t, a, count))
        /\ WF_vars(WaitPoll(t) \/ \E timed \in BOOLEAN : WaitPark(t, timed))
FairSpec == Spec /\ Fairness

-----------------------------------------------------------------------------

\* The tree holds exactly the threads that wait, each once: a wait ended by a
\* signal, the timer or a termination leaves nothing for another to find.
TreeIsTheWaiters ==
    /\ IsInjective(tree)
    /\ Range(tree) = {t \in Threads : state[t] = "Waiting"}

\* Nothing is left behind by a wait for a later one to trip over: the tree is right,
\* and a timer task outlives no wait; it would end a later one before its time.
WellFormed == TypeOK /\ TreeIsTheWaiters /\ \A t \in timer : state[t] = "Waiting"

\* No lost wake-up: a thread sleeps on a word that user code changed from what it
\* waits for only while the signal to all is still to come.  A call that changes
\* the word itself, and wakes some or none, may leave others asleep.
SleepsWhileConditionHolds ==
    \A t \in Threads : state[t] = "Waiting" /\ t \notin passedOver =>
        \/ Waits(waitType[t], word[addr[t]], value[t])
        \/ \E u \in Threads : owed[u] = addr[t]

\* A signal passes over no waiter of the address that is more urgent than one it
\* wakes.
MostUrgentFirst ==
    [][\A t \in Threads, a \in Addresses, count \in Counts : Signal(t, a, count) =>
         \A u, w \in Range(WaitersOf(a)) :
             state'[u] = "Runnable" /\ state'[w] = "Waiting" => Priority[u] <= Priority[w]]_vars

\* SignalAndModifyByWaitingCountIfEqual with a count leaves the word alone if and
\* only if waiters are left behind; that is how user code knows.
CountTellsWhoIsLeft ==
    [][\A t \in Threads, a \in Addresses, v \in Words, count \in Counts \ {0} :
         SignalAndModifyByWaitingCountIfEqual(t, a, v, count) =>
             ((word'[a] = v) <=> (\E u \in Range(WaitersOf(a)) : state'[u] = "Waiting"))]_vars

\* A counted signal wakes whom it should, and tells whom it leaves.
SignalIsExact == MostUrgentFirst /\ CountTellsWhoIsLeft

\* A thread asleep on a word that no longer has what it waits for is woken, unless
\* a call has passed it over.
ConditionGoneIsNoticed ==
    \A t \in Threads :
        (state[t] = "Waiting" /\ ~Waits(waitType[t], word[addr[t]], value[t])) ~>
            (\/ state[t] = "Runnable" \/ t \in passedOver
             \/ Waits(waitType[t], word[addr[t]], value[t]))
=============================================================================

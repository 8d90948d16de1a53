--------------------------- MODULE KThreadLockInfo ---------------------------
(* Priority inheritance in KThread: the lock infos a thread keeps for the user *)
(* mutexes it owns, each a tree of waiters ordered by priority, and the        *)
(* priority it inherits from them.  The functions run under the scheduler lock *)
(* and are given here as operators from one record of KThread fields to the    *)
(* next:                                                                       *)
(*   base, priority  m_base_priority and m_priority (smaller is more urgent)   *)
(*   addr            m_address_key, the mutex a waiting thread wants           *)
(*   waiters         m_held_lock_info_list: per owner and mutex, the waiters   *)
(*                   in tree order; no entry is the same as an empty one       *)
(*   tree, cvKey     the process's condition variable tree and m_condvar_key   *)
(* A red-black tree whose comparison never answers "equal" keeps arrival order *)
(* among equals, so a tree is a sorted sequence.                               *)
EXTENDS Naturals, Sequences, FiniteSets, FiniteSetsExt, SequencesExt

CONSTANTS Threads, NoThread

\* RB_INSERT: t goes behind the elements that do not compare greater.
\* Mutants: in front of its equals; at the end, whatever its priority.
InsertBeforeEquals(s, t, rank) ==
    SelectSeq(s, LAMBDA u : rank[u] < rank[t]) \o <<t>> \o SelectSeq(s, LAMBDA u : rank[u] >= rank[t])
InsertLast(s, t, rank) == Append(s, t)
Insert(s, t, rank) ==
    SelectSeq(s, LAMBDA u : rank[u] <= rank[t]) \o <<t>> \o SelectSeq(s, LAMBDA u : rank[u] > rank[t])

\* ConditionVariableComparator orders the tree by key, then by priority.
LowestThreadPriority == 63
TreeRank(k) == [t \in Threads |-> k.cvKey[t] * (LowestThreadPriority + 1) + k.priority[t]]

InTree(k, t) == t \in Range(k.tree)

TreeInsert(k, t) == [k EXCEPT !.tree = Insert(@, t, TreeRank(k))]
TreeErase(k, t) == [k EXCEPT !.tree = Remove(@, t)]

\* GetLockOwner: the owner of the lock info the thread waits in, if any.
GetLockOwner(k, t) ==
    LET owners == {o \in Threads : t \in Range(k.waiters[o][k.addr[t]])}
    IN  IF owners = {} THEN NoThread ELSE CHOOSE o \in owners : TRUE

AddWaiterImpl(k, o, t) ==
    [k EXCEPT !.waiters[o][k.addr[t]] = Insert(@, t, k.priority)]

RemoveWaiterImpl(k, o, t) == [k EXCEPT !.waiters[o][k.addr[t]] = Remove(@, t)]

\* The priority a thread ought to have: its own, or its most urgent waiter's.
InheritedPriority(k, t) ==
    Min({k.base[t]} \cup
        {k.priority[Head(k.waiters[t][m])] : m \in {x \in DOMAIN k.waiters[t] : k.waiters[t][x] # <<>>}})

\* The body of RestorePriority's loop: a thread that is queued somewhere is
\* taken out, given its new priority and queued again.
ChangePriority(k, t, o, p) ==
    LET k1 == IF o # NoThread THEN RemoveWaiterImpl(k, o, t) ELSE k
        k2 == IF InTree(k, t) THEN TreeErase(k1, t) ELSE k1
        k3 == [k2 EXCEPT !.priority[t] = p]
        k4 == IF InTree(k, t) THEN TreeInsert(k3, t) ELSE k3
    IN  IF o # NoThread THEN AddWaiterImpl(k4, o, t) ELSE k4

\* One turn of the loop; r.thread is the loop variable.
RestoreStep(r) ==
    LET t == r.thread
        k == r.k
    IN  IF t = NoThread THEN r
        ELSE LET p == InheritedPriority(k, t)
                 o == GetLockOwner(k, t)
             IN  IF p = k.priority[t]
                 THEN [r EXCEPT !.thread = NoThread]
                 ELSE [thread |-> o, k |-> ChangePriority(k, t, o, p)]

\* Each turn moves to the owner of the lock the last thread waits for, so two
\* rounds over the threads see the loop end, in a circle of waits too.
\* Mutant: the inheritance stops at the first owner.
Turns == 2 * Cardinality(Threads)
RestoreOne(k, t) == RestoreStep([thread |-> t, k |-> k]).k
RestorePriority(k, t) ==
    FoldLeft(LAMBDA r, i : RestoreStep(r), [thread |-> t, k |-> k], [i \in 1..Turns |-> i]).k

AddWaiter(k, o, t) ==
    LET k1 == AddWaiterImpl(k, o, t)
    IN  IF k1.priority[t] < k1.priority[o] THEN RestorePriority(k1, o) ELSE k1

RemoveWaiter(k, o, t) ==
    LET k1 == RemoveWaiterImpl(k, o, t)
    IN  IF k1.priority[o] = k1.priority[t] /\ k1.priority[o] < k1.base[o]
        THEN RestorePriority(k1, o) ELSE k1

\* RemoveUserWaiterByKey: the most urgent waiter is the next owner and takes
\* over the rest of the list.
RemoveUserWaiterByKey(k, o, m) ==
    IF k.waiters[o][m] = <<>>
    THEN [next |-> NoThread, hasWaiters |-> FALSE, k |-> k]
    ELSE LET n    == Head(k.waiters[o][m])
             rest == Tail(k.waiters[o][m])
             k1   == [k EXCEPT !.waiters = [@ EXCEPT ![o][m] = <<>>, ![n][m] = rest]]
         IN  [next |-> n, hasWaiters |-> rest # <<>>,
              k |-> IF k1.priority[o] = k1.priority[n] /\ k1.priority[o] < k1.base[o]
                    THEN RestorePriority(k1, o) ELSE k1]

SetBasePriority(k, t, p) == RestorePriority([k EXCEPT !.base[t] = p], t)

IncreaseBasePriority(k, t, p) == IF k.base[t] > p THEN SetBasePriority(k, t, p) ELSE k
=============================================================================

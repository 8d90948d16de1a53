------------------------ MODULE MCKConditionVariable -------------------------
(* Small instances of KConditionVariable.                                    *)
EXTENDS KConditionVariable

CONSTANTS a, b, c, d

\* Three threads, each of a priority of its own, or all of the same.
Three           == {a, b, c}
ThreePriorities == a :> 40 @@ b :> 44 @@ c :> 48
EqualPriorities == [t \in Three |-> 44]
AllMutexes      == [t \in Three |-> Mutexes]

\* The thread c takes mutex 2 alone.  Chains of all three threads, and circles of the
\* other two, remain.
LastTakesTwo    == [AllMutexes EXCEPT ![c] = {2}]

\* A thread c that may hold one mutex while it waits with the other; two waiters
\* that use mutex 1, and a signaller.
Four            == {a, b, c, d}
FourPriorities  == a :> 40 @@ b :> 44 @@ c :> 48 @@ d :> 50
NestedMutexes   == a :> {1} @@ b :> {1} @@ c :> {1, 2} @@ d :> {}
=============================================================================

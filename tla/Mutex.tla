-------------------------------- MODULE Mutex --------------------------------
(* What a kernel lock promises: a thread that Lock() has returned to is in the *)
(* set of holders of that lock until it calls Unlock(), and no lock has two    *)
(* holders.  KLightLock implements this specification.                         *)
CONSTANTS Threads, Locks

VARIABLE held       \* held[t]: the locks thread t is between Lock() and Unlock() of

Init == held = [t \in Threads |-> {}]

Acquire(t, l) ==
    /\ \A u \in Threads : l \notin held[u]
    /\ held' = [held EXCEPT ![t] = @ \cup {l}]

Release(t, l) ==
    /\ l \in held[t]
    /\ held' = [held EXCEPT ![t] = @ \ {l}]

Next == \E t \in Threads, l \in Locks : Acquire(t, l) \/ Release(t, l)

Spec == Init /\ [][Next]_held
==============================================================================

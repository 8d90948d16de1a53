-------------------------- MODULE KLightLock_proofs --------------------------
(* KLightLock excludes, orphans no sleeper, counts its waiters, and implements *)
(* Mutex, for every set of threads, of locks and of suspend types.             *)
EXTENDS KLightLock, FiniteSetTheorems, TLAPS

-----------------------------------------------------------------------------
(* The inductive invariant.                                                  *)

\* t is the rightful owner of l: Lock() has returned, or will return without
\* another look at the tag, and the tag has not been rewritten by t's Unlock().
Owns(t, l) ==
    \/ l \in held[t]
    \/ pc[t] \in {"unlockSlow", "store"} /\ arg[t] = l
    \/ pc[t] = "wait" /\ arg[t] = l /\ state[t] = "Runnable"

OwnerIsTagged == \A t \in Threads, l \in Locks : Owns(t, l) => tag[l].owner = t

\* The program counters agree with the other variables.
ControlInv ==
    /\ \A t \in Threads : pc[t] # "out" => arg[t] \in Locks \ held[t]
    /\ \A t \in Threads : pc[t] = "store" <=> sched = t
    /\ \A t \in Threads : pc[t] = "lockSlow" => seen[t] \in Threads
    /\ \A t \in Threads : state[t] = "Waiting" => pc[t] = "wait"
    /\ \A t \in Threads : lockOwner[t] # NoThread => state[t] = "Waiting"

\* A tag without an owner is the free tag.
TagInv ==
    /\ \A l \in Locks : tag[l].owner = NoThread => tag[l] = Free
    /\ \A t \in Threads : nextTag[t].owner = NoThread => nextTag[t] = Free

Storing(l) == sched \in Threads /\ arg[sched] = l

\* Every sleeper is in the list of the owner, or of the next owner, or is the
\* next owner.
QueueInv ==
    \A w \in Threads : state[w] = "Waiting" =>
        \/ /\ lockOwner[w] \in Threads
           /\ ~Storing(arg[w])
           /\ tag[arg[w]] = Tag(lockOwner[w], TRUE)
        \/ /\ lockOwner[w] \in Threads
           /\ Storing(arg[w])
           /\ nextTag[sched] = Tag(lockOwner[w], TRUE)
        \/ /\ lockOwner[w] = NoThread
           /\ Storing(arg[w])
           /\ nextTag[sched].owner = w

\* The thread an unlock is about to wake sleeps on that lock.
NextInv ==
    \A t \in Threads : pc[t] = "store" /\ nextTag[t].owner # NoThread =>
        LET n == nextTag[t].owner
        IN  n # t /\ state[n] = "Waiting" /\ arg[n] = arg[t] /\ lockOwner[n] = NoThread

IInv ==
    /\ TypeOK
    /\ OwnerIsTagged
    /\ ControlInv
    /\ TagInv
    /\ QueueInv
    /\ NextInv
    /\ KernelWaitersCounted

-----------------------------------------------------------------------------
(* Counting waiters.                                                         *)

\* The threads in the waiter lists of t.
ListOf(t) == {w \in Threads : lockOwner[w] = t}

\* Sets of threads are finite, so the waiter lists can be counted.
LEMMA FiniteThreads ==
    \A S \in SUBSET Threads : IsFiniteSet(S) /\ Cardinality(S) \in Nat
BY FS_Subset, FS_CardinalityType, LightLockAssumption

\* The size of what is left of a set of threads.
LEMMA CardinalityWithout ==
    ASSUME NEW S \in SUBSET Threads, NEW T \in SUBSET S
    PROVE  Cardinality(S \ T) = Cardinality(S) - Cardinality(T)
<1>1. S = (S \ T) \cup T /\ (S \ T) \cap T = {}
  OBVIOUS
<1>2. IsFiniteSet(S \ T) /\ IsFiniteSet(T)
  BY FiniteThreads
<1>3. Cardinality(S) = Cardinality(S \ T) + Cardinality(T) - Cardinality({})
  BY <1>1, <1>2, FS_Union
<1>. QED  BY <1>3, FS_EmptySet, FiniteThreads

\* The size of the union of two disjoint sets of threads.
LEMMA CardinalityTogether ==
    ASSUME NEW S \in SUBSET Threads, NEW T \in SUBSET Threads, S \cap T = {}
    PROVE  Cardinality(S \cup T) = Cardinality(S) + Cardinality(T)
<1>1. Cardinality(S \cup T) = Cardinality(S) + Cardinality(T) - Cardinality({})
  BY FS_Union, FiniteThreads
<1>. QED  BY <1>1, FS_EmptySet, FiniteThreads

\* The invariant holds when no lock has been touched.
LEMMA InitIInv == Init => IInv
<1>. SUFFICES ASSUME Init PROVE IInv
  OBVIOUS
<1>. USE LightLockAssumption DEF Init, Free, Tag
<1>1. TypeOK
  BY DEF TypeOK
<1>2. OwnerIsTagged /\ ControlInv /\ TagInv /\ QueueInv /\ NextInv
  BY DEF OwnerIsTagged, Owns, ControlInv, TagInv, QueueInv, NextInv
<1>3. KernelWaitersCounted
  <2>1. \A t \in Threads : {w \in Threads : lockOwner[w] = t} = {}
    OBVIOUS
  <2>. QED  BY ZenonT(30), <2>1, FS_EmptySet DEF KernelWaitersCounted
<1>. QED  BY <1>1, <1>2, <1>3 DEF IInv
-----------------------------------------------------------------------------
(* Every step preserves the invariant: one lemma per kind of step.           *)

\* The steps that leave the waiter lists alone do not disturb the counts.
LEMMA CountsUnchanged ==
    IInv /\ UNCHANGED <<lockOwner, numKernelWaiters>> => KernelWaitersCounted'
BY DEF IInv, KernelWaitersCounted

\* The queues are intact after a step that leaves the waiter lists, the
\* arguments of the sleepers and of the storing thread, and the tags the
\* sleepers rely on alone.
LEMMA QueueKept ==
    ASSUME QueueInv, UNCHANGED <<state, lockOwner, sched, nextTag>>,
           \A u \in Threads : u = sched \/ state[u] = "Waiting" => arg'[u] = arg[u],
           \A w, o \in Threads : state[w] = "Waiting" /\ tag[arg[w]] = Tag(o, TRUE)
                                     => tag'[arg[w]] = Tag(o, TRUE)
    PROVE  QueueInv'
<1>1. SUFFICES ASSUME NEW w \in Threads, state[w] = "Waiting" PROVE QueueInv!(w)'
  BY ZenonT(30) DEF QueueInv
<1>2. arg'[w] = arg[w] /\ (Storing(arg[w])' <=> Storing(arg[w]))
  BY <1>1 DEF Storing
<1>. QED  BY ZenonT(30), <1>1, <1>2 DEF QueueInv

\* RequestSuspend and Resume only change the suspension variables.
LEMMA SuspensionKeepsIInv ==
    ASSUME IInv, NEW t \in Threads, NEW type \in SuspendTypes,
           RequestSuspend(t, type) \/ Resume(t, type)
    PROVE  IInv'
<1>0. TypeOK /\ OwnerIsTagged /\ ControlInv /\ TagInv /\ QueueInv /\ NextInv
  BY DEF IInv
<1>1. UNCHANGED <<tag, sched, pc, arg, seen, nextTag, held, lockOwner, numKernelWaiters,
                  state, suspendAllowed, terminating>>
  BY DEF RequestSuspend, Resume, lockVars, waitVars
<1>2. suspendRequest' \in [Threads -> SUBSET SuspendTypes]
  <2>1. \/ suspendRequest' = [suspendRequest EXCEPT ![t] = @ \cup {type}]
        \/ suspendRequest' = [suspendRequest EXCEPT ![t] = @ \ {type}]
    BY DEF RequestSuspend, Resume
  <2>2. suspendRequest \in [Threads -> SUBSET SuspendTypes]
    BY <1>0 DEF TypeOK
  <2>. QED  BY <2>1, <2>2
<1>3. suspended' \in [Threads -> SUBSET SuspendTypes]
  <2>1. \/ suspended' = suspended
        \/ suspended' = [suspended EXCEPT ![t] = suspendAllowed[t] \cap suspendRequest'[t]]
    BY DEF RequestSuspend, Resume, TrySuspend
  <2>2. /\ suspended \in [Threads -> SUBSET SuspendTypes]
        /\ suspendAllowed \in [Threads -> SUBSET SuspendTypes]
    BY <1>0 DEF TypeOK
  <2>. QED  BY <1>2, <2>1, <2>2
<1>4. TypeOK'
  BY <1>0, <1>1, <1>2, <1>3 DEF TypeOK
<1>5. (OwnerIsTagged /\ ControlInv /\ TagInv)'
  BY ZenonT(30), <1>0, <1>1 DEF OwnerIsTagged, Owns, ControlInv, TagInv, Free, Tag
<1>6. QueueInv' /\ NextInv'
  BY ZenonT(30), <1>0, <1>1, QueueKept DEF NextInv
<1>. QED  BY <1>1, <1>4, <1>5, <1>6, CountsUnchanged DEF IInv

\* A call of Lock() takes a lock the thread does not hold.
LEMMA CallLockKeepsIInv ==
    ASSUME IInv, NEW t \in Threads, NEW l \in Locks, CallLock(t, l)
    PROVE  IInv'
<1>0. TypeOK /\ OwnerIsTagged /\ ControlInv /\ TagInv /\ QueueInv /\ NextInv
  BY DEF IInv
<1>1. UNCHANGED <<tag, sched, seen, nextTag, held, lockOwner, numKernelWaiters, state,
                  suspended, suspendRequest, suspendAllowed, terminating>>
  BY DEF CallLock, waitVars, suspendVars
<1>2. /\ pc[t] = "out" /\ pc' = [pc EXCEPT ![t] = "lock"]
      /\ arg' = [arg EXCEPT ![t] = l]
  BY DEF CallLock
<1>3. l \notin held[t]
  BY <1>0, LightLockAssumption DEF CallLock, TypeOK
<1>4. TypeOK'
  BY <1>0, <1>1, <1>2 DEF TypeOK
<1>5. ControlInv'
  BY <1>0, <1>1, <1>2, <1>3 DEF ControlInv, TypeOK
<1>6. OwnerIsTagged'
  BY <1>0, <1>1, <1>2 DEF OwnerIsTagged, Owns, TypeOK
<1>7. TagInv'
  BY ZenonT(30), <1>0, <1>1 DEF TagInv, Free, Tag
<1>8. \A u \in Threads : u = sched \/ state[u] = "Waiting" => u # t /\ arg'[u] = arg[u]
  BY <1>0, <1>2 DEF ControlInv, TypeOK
<1>9. QueueInv'
  BY ZenonT(30), <1>0, <1>1, <1>8, QueueKept
<1>10. NextInv'
  BY <1>0, <1>1, <1>2, <1>8 DEF NextInv, ControlInv, TypeOK
<1>. QED  BY <1>1, <1>4, <1>5, <1>6, <1>7, <1>9, <1>10, CountsUnchanged DEF IInv

\* Nobody sleeps on a lock whose wait bit is clear, or which is free.
LEMMA QuietLock ==
    ASSUME QueueInv, NEW l \in Locks, tag[l].wait = FALSE, ~Storing(l)
    PROVE  \A w \in Threads : state[w] = "Waiting" => arg[w] # l
<1>1. SUFFICES ASSUME NEW w \in Threads, state[w] = "Waiting", arg[w] = l PROVE FALSE
  OBVIOUS
<1>2. tag[l] = Tag(lockOwner[w], TRUE)
  BY ZenonT(30), <1>1 DEF QueueInv
<1>. QED  BY <1>2 DEF Tag

\* Lock's compare-exchange: a free lock has no owner and no sleepers, and the
\* wait bit does not change who owns a taken one.
LEMMA LockKeepsIInv ==
    ASSUME IInv, NEW t \in Threads, Lock(t)
    PROVE  IInv'
<1>. DEFINE l == arg[t]
<1>0. TypeOK /\ OwnerIsTagged /\ ControlInv /\ TagInv /\ QueueInv /\ NextInv
  BY DEF IInv
<1>1. UNCHANGED <<sched, nextTag, lockOwner, numKernelWaiters, state,
                  suspended, suspendRequest, suspendAllowed, terminating>>
  BY DEF Lock, waitVars, suspendVars
<1>2. pc[t] = "lock" /\ l \in Locks /\ l \notin held[t]
  BY <1>0 DEF Lock, ControlInv
<1>3. CASE tag[l] = Free
  <2>1. /\ tag' = [tag EXCEPT ![l] = Tag(t, FALSE)]
        /\ held' = [held EXCEPT ![t] = @ \cup {l}]
        /\ pc' = [pc EXCEPT ![t] = "out"]
        /\ arg' = [arg EXCEPT ![t] = NoLock]
        /\ seen' = seen
    BY ZenonT(30), <1>3 DEF Lock
  <2>2. tag[l].owner = NoThread /\ tag[l].wait = FALSE
    BY <1>3 DEF Free, Tag
  <2>3. \A u \in Threads : ~Owns(u, l)
    BY ZenonT(30), <1>0, <1>2, <2>2, LightLockAssumption DEF OwnerIsTagged
  <2>4. ~Storing(l)
    BY <2>3, <1>0 DEF Storing, ControlInv, Owns
  <2>5. \A w \in Threads : state[w] = "Waiting" => arg[w] # l
    BY ZenonT(30), <1>0, <1>2, <2>2, <2>4, QuietLock
  <2>6. TypeOK'
    BY <1>0, <1>1, <1>2, <2>1 DEF TypeOK, Tag
  <2>7. OwnerIsTagged'
    BY <1>0, <1>1, <1>2, <2>1, <2>3 DEF OwnerIsTagged, Owns, Tag, TypeOK
  <2>8. ControlInv'
    BY <1>0, <1>1, <1>2, <2>1 DEF ControlInv, TypeOK
  <2>9. TagInv'
    BY ZenonT(30), <1>0, <1>1, <1>2, <2>1, LightLockAssumption DEF TagInv, Free, Tag, TypeOK
  <2>10. \A u \in Threads : u = sched \/ state[u] = "Waiting" => u # t /\ arg'[u] = arg[u]
    BY <1>0, <1>2, <2>1 DEF ControlInv, TypeOK
  <2>11. \A w \in Threads : state[w] = "Waiting" => tag'[arg[w]] = tag[arg[w]]
    BY ZenonT(30), <1>0, <1>2, <2>1, <2>5 DEF TypeOK, ControlInv
  <2>12. QueueInv'
    BY ZenonT(30), <1>0, <1>1, <2>10, <2>11, QueueKept
  <2>13. NextInv'
    BY <1>0, <1>1, <2>1, <2>10 DEF NextInv, ControlInv, TypeOK
  <2>. QED  BY <1>1, <2>6, <2>7, <2>8, <2>9, <2>12, <2>13, CountsUnchanged DEF IInv
<1>4. CASE tag[l] # Free
  <2>1. /\ tag' = [tag EXCEPT ![l] = Tag(tag[l].owner, TRUE)]
        /\ seen' = [seen EXCEPT ![t] = tag[l].owner]
        /\ pc' = [pc EXCEPT ![t] = "lockSlow"]
        /\ held' = held /\ arg' = arg
    BY ZenonT(30), <1>4 DEF Lock
  <2>2. tag[l].owner \in Threads
    BY <1>0, <1>2, <1>4 DEF TagInv, TypeOK
  <2>3. /\ tag' \in [Locks -> [owner : Threads \cup {NoThread}, wait : BOOLEAN]]
        /\ \A k \in Locks : tag'[k].owner = tag[k].owner
        /\ \A k \in Locks \ {l} : tag'[k] = tag[k]
    BY <1>0, <1>2, <2>1 DEF TypeOK, Tag
  <2>4. TypeOK'
    BY ZenonT(30), <1>0, <1>1, <1>2, <2>1, <2>2, <2>3 DEF TypeOK
  <2>5. OwnerIsTagged'
    <3>1. \A u \in Threads, k \in Locks : Owns(u, k)' => Owns(u, k)
      BY <1>0, <1>1, <1>2, <2>1 DEF Owns, TypeOK
    <3>. QED  BY <1>0, <2>3, <3>1 DEF OwnerIsTagged
  <2>6. ControlInv'
    BY <1>0, <1>1, <1>2, <2>1, <2>2 DEF ControlInv, TypeOK
  <2>7. TagInv'
    BY <1>0, <1>1, <1>2, <2>2, <2>3, LightLockAssumption DEF TagInv
  <2>8. \A w \in Threads, o \in Threads : state[w] = "Waiting" /\ tag[arg[w]] = Tag(o, TRUE)
                               => tag'[arg[w]] = Tag(o, TRUE)
    <3>1. SUFFICES ASSUME NEW w \in Threads, NEW o \in Threads,
                          state[w] = "Waiting", tag[arg[w]] = Tag(o, TRUE)
                   PROVE  tag'[arg[w]] = Tag(o, TRUE)
      OBVIOUS
    <3>2. arg[w] \in Locks
      BY <1>0, <3>1 DEF ControlInv
    <3>3. CASE arg[w] = l
      <4>1. tag[l].owner = o
        BY <3>1, <3>3 DEF Tag
      <4>. QED  BY <1>0, <1>2, <2>1, <3>3, <4>1 DEF TypeOK
    <3>4. CASE arg[w] # l
      BY <1>0, <1>2, <2>1, <3>1, <3>2, <3>4 DEF TypeOK
    <3>. QED  BY ZenonT(30), <3>3, <3>4
  <2>9. QueueInv'
    BY ZenonT(30), <1>0, <1>1, <2>1, <2>8, QueueKept
  <2>10. NextInv'
    BY <1>0, <1>1, <2>1 DEF NextInv, ControlInv, TypeOK
  <2>. QED  BY <1>1, <2>4, <2>5, <2>6, <2>7, <2>9, <2>10, CountsUnchanged DEF IInv
<1>. QED  BY <1>3, <1>4

\* Going round Lock's loop changes nothing others rely on.
LEMMA LockSlowPathRetryKeepsIInv ==
    ASSUME IInv, NEW t \in Threads, LockSlowPathRetry(t)
    PROVE  IInv'
<1>0. TypeOK /\ OwnerIsTagged /\ ControlInv /\ TagInv /\ QueueInv /\ NextInv
  BY DEF IInv
<1>1. UNCHANGED <<tag, sched, arg, nextTag, held, lockOwner, numKernelWaiters, state,
                  suspended, suspendRequest, suspendAllowed, terminating>>
  BY DEF LockSlowPathRetry, waitVars, suspendVars
<1>2. /\ pc[t] = "lockSlow" /\ pc' = [pc EXCEPT ![t] = "lock"]
      /\ seen' = [seen EXCEPT ![t] = NoThread]
  BY DEF LockSlowPathRetry
<1>3. TypeOK'
  BY <1>0, <1>1, <1>2 DEF TypeOK
<1>4. OwnerIsTagged'
  BY <1>0, <1>1, <1>2 DEF OwnerIsTagged, Owns, TypeOK
<1>5. ControlInv'
  BY <1>0, <1>1, <1>2 DEF ControlInv, TypeOK
<1>6. TagInv' /\ QueueInv'
  BY ZenonT(30), <1>0, <1>1, QueueKept DEF TagInv
<1>7. NextInv'
  BY <1>0, <1>1, <1>2 DEF NextInv, TypeOK
<1>. QED  BY <1>1, <1>3, <1>4, <1>5, <1>6, <1>7, CountsUnchanged DEF IInv

\* A woken thread already owns the lock it returns with.
LEMMA LockReturnKeepsIInv ==
    ASSUME IInv, NEW t \in Threads, LockReturn(t)
    PROVE  IInv'
<1>0. TypeOK /\ OwnerIsTagged /\ ControlInv /\ TagInv /\ QueueInv /\ NextInv
  BY DEF IInv
<1>1. UNCHANGED <<tag, sched, seen, nextTag, lockOwner, numKernelWaiters, state,
                  suspended, suspendRequest, suspendAllowed, terminating>>
  BY DEF LockReturn, waitVars, suspendVars
<1>2. /\ pc[t] = "wait" /\ state[t] = "Runnable" /\ arg[t] \in Locks
      /\ held' = [held EXCEPT ![t] = @ \cup {arg[t]}]
      /\ pc' = [pc EXCEPT ![t] = "out"]
      /\ arg' = [arg EXCEPT ![t] = NoLock]
  BY <1>0 DEF LockReturn, ControlInv
<1>3. TypeOK'
  BY <1>0, <1>1, <1>2 DEF TypeOK
<1>4. OwnerIsTagged'
  BY <1>0, <1>1, <1>2 DEF OwnerIsTagged, Owns, TypeOK
<1>5. ControlInv'
  BY <1>0, <1>1, <1>2 DEF ControlInv, TypeOK
<1>6. TagInv'
  BY ZenonT(30), <1>0, <1>1 DEF TagInv, Free, Tag
<1>7. \A u \in Threads : u = sched \/ state[u] = "Waiting" => u # t /\ arg'[u] = arg[u]
  BY <1>0, <1>2 DEF ControlInv, TypeOK
<1>8. QueueInv'
  BY ZenonT(30), <1>0, <1>1, <1>7, QueueKept
<1>9. NextInv'
  BY SMTT(30), <1>0, <1>1, <1>2, <1>7 DEF NextInv, ControlInv, TypeOK
<1>. QED  BY <1>1, <1>3, <1>4, <1>5, <1>6, <1>8, <1>9, CountsUnchanged DEF IInv

\* Unlock's compare-exchange: a tag without the wait bit has no sleepers, so it
\* may be freed; with the bit, the owner stays until the slow path's store.
LEMMA UnlockKeepsIInv ==
    ASSUME IInv, NEW t \in Threads, NEW l \in Locks, Unlock(t, l)
    PROVE  IInv'
<1>0. TypeOK /\ OwnerIsTagged /\ ControlInv /\ TagInv /\ QueueInv /\ NextInv
  BY DEF IInv
<1>1. UNCHANGED <<sched, seen, nextTag, lockOwner, numKernelWaiters, state,
                  suspended, suspendRequest, suspendAllowed, terminating>>
  BY DEF Unlock, waitVars, suspendVars
<1>2. pc[t] = "out" /\ l \in held[t] /\ held' = [held EXCEPT ![t] = @ \ {l}]
  BY DEF Unlock
<1>3. tag[l].owner = t /\ \A u \in Threads : Owns(u, l) => u = t
  BY <1>0, <1>2 DEF OwnerIsTagged, Owns
<1>4. ~Storing(l)
  BY <1>0, <1>2, <1>3 DEF Storing, ControlInv, Owns
<1>5. CASE tag[l] = Tag(t, FALSE)
  <2>1. tag' = [tag EXCEPT ![l] = Free] /\ pc' = pc /\ arg' = arg
    BY <1>5 DEF Unlock
  <2>2. \A w \in Threads : state[w] = "Waiting" => arg[w] # l
    <3>1. tag[l].wait = FALSE
      BY <1>5 DEF Tag
    <3>. QED  BY ZenonT(30), <1>0, <1>4, <3>1, QuietLock
  <2>3. TypeOK'
    BY <1>0, <1>1, <1>2, <2>1 DEF TypeOK, Free, Tag
  <2>4. OwnerIsTagged'
    <3>1. SUFFICES ASSUME NEW u \in Threads, NEW k \in Locks, Owns(u, k)' PROVE tag'[k].owner = u
      BY DEF OwnerIsTagged
    <3>2. Owns(u, k)
      BY <1>0, <1>1, <1>2, <2>1, <3>1 DEF Owns, TypeOK
    <3>3. k # l
      BY <1>0, <1>2, <1>3, <2>1, <3>1, <3>2 DEF Owns, TypeOK
    <3>. QED  BY <1>0, <2>1, <3>2, <3>3 DEF OwnerIsTagged, TypeOK
  <2>5. ControlInv'
    BY <1>0, <1>1, <1>2, <2>1 DEF ControlInv, TypeOK
  <2>6. TagInv'
    BY <1>0, <1>1, <2>1 DEF TagInv, TypeOK
  <2>7. \A w \in Threads : state[w] = "Waiting" => tag'[arg[w]] = tag[arg[w]]
    BY <1>0, <2>1, <2>2 DEF TypeOK, ControlInv
  <2>8. QueueInv'
    BY ZenonT(30), <1>0, <1>1, <2>1, <2>7, QueueKept
  <2>9. NextInv'
    BY ZenonT(30), <1>0, <1>1, <2>1 DEF NextInv
  <2>. QED  BY <1>1, <2>3, <2>4, <2>5, <2>6, <2>8, <2>9, CountsUnchanged DEF IInv
<1>6. CASE tag[l] # Tag(t, FALSE)
  <2>1. /\ pc' = [pc EXCEPT ![t] = "unlockSlow"]
        /\ arg' = [arg EXCEPT ![t] = l]
        /\ tag' = tag
    BY <1>6 DEF Unlock
  <2>2. TypeOK'
    BY <1>0, <1>1, <1>2, <2>1 DEF TypeOK
  <2>3. OwnerIsTagged'
    BY <1>0, <1>1, <1>2, <1>3, <2>1 DEF OwnerIsTagged, Owns, TypeOK
  <2>4. ControlInv'
    BY <1>0, <1>1, <1>2, <2>1 DEF ControlInv, TypeOK
  <2>5. TagInv'
    BY <1>0, <1>1, <2>1 DEF TagInv
  <2>6. \A u \in Threads : u = sched \/ state[u] = "Waiting" => u # t /\ arg'[u] = arg[u]
    BY <1>0, <1>2, <2>1 DEF ControlInv, TypeOK
  <2>7. QueueInv'
    BY ZenonT(30), <1>0, <1>1, <2>1, <2>6, QueueKept
  <2>8. NextInv'
    BY SMTT(30), <1>0, <1>1, <1>2, <2>1, <2>6 DEF NextInv, ControlInv, TypeOK
  <2>. QED  BY <1>1, <2>2, <2>3, <2>4, <2>5, <2>7, <2>8, CountsUnchanged DEF IInv
<1>. QED  BY ZenonT(30), <1>5, <1>6

\* A new sleeper joins the list of the thread the tag names, and is counted.
LEMMA LockSlowPathKeepsIInv ==
    ASSUME IInv, NEW t \in Threads, LockSlowPath(t)
    PROVE  IInv'
<1>0. /\ TypeOK /\ OwnerIsTagged /\ ControlInv /\ TagInv /\ QueueInv /\ NextInv
      /\ KernelWaitersCounted
  BY DEF IInv
<1>11. PICK owner \in Threads : owner = seen[t]
  BY <1>0 DEF LockSlowPath, ControlInv
<1>1. UNCHANGED <<tag, sched, arg, nextTag, held, suspendRequest, suspendAllowed, terminating>>
  BY DEF LockSlowPath
<1>2. /\ pc[t] = "lockSlow" /\ sched = NoThread /\ owner \in Threads /\ arg[t] \in Locks
      /\ tag[arg[t]] = Tag(owner, TRUE)
      /\ lockOwner' = [lockOwner EXCEPT ![t] = owner]
      /\ numKernelWaiters' = [numKernelWaiters EXCEPT ![owner] = @ + 1]
      /\ state' = [state EXCEPT ![t] = "Waiting"]
      /\ pc' = [pc EXCEPT ![t] = "wait"]
      /\ seen' = [seen EXCEPT ![t] = NoThread]
  BY <1>0, <1>11 DEF LockSlowPath, ControlInv
<1>3. suspended' \in [Threads -> SUBSET SuspendTypes]
  <2>1. suspended' = suspended \/ suspended' = [suspended EXCEPT ![owner] = {}]
    BY <1>11 DEF LockSlowPath, ContinueIfHasKernelWaiters
  <2>. QED  BY <1>0, <2>1 DEF TypeOK
<1>4. TypeOK'
  <2>1. numKernelWaiters' \in [Threads -> Nat]
    BY <1>0, <1>2 DEF TypeOK
  <2>. QED  BY <1>0, <1>1, <1>2, <1>3, <2>1 DEF TypeOK
<1>5. OwnerIsTagged'
  <2>1. \A u \in Threads, k \in Locks : Owns(u, k)' => Owns(u, k)
    BY <1>0, <1>1, <1>2 DEF Owns, TypeOK
  <2>. QED  BY <1>0, <1>1, <2>1 DEF OwnerIsTagged
<1>6. ControlInv'
  BY <1>0, <1>1, <1>2 DEF ControlInv, TypeOK
<1>7. TagInv'
  BY <1>0, <1>1 DEF TagInv
<1>8. QueueInv'
  <2>1. SUFFICES ASSUME NEW w \in Threads, state'[w] = "Waiting" PROVE QueueInv!(w)'
    BY ZenonT(30) DEF QueueInv
  <2>2. sched \notin Threads
    BY <1>2, LightLockAssumption
  <2>3. CASE w = t
    BY ZenonT(30), <1>0, <1>1, <1>2, <2>2, <2>3 DEF Storing, TypeOK
  <2>4. CASE w # t
    <3>1. state[w] = "Waiting" /\ lockOwner'[w] = lockOwner[w]
      BY <1>0, <1>2, <2>1, <2>4 DEF TypeOK
    <3>2. /\ lockOwner[w] \in Threads
          /\ tag[arg[w]] = Tag(lockOwner[w], TRUE)
      BY ZenonT(30), <1>0, <2>2, <3>1 DEF QueueInv, Storing
    <3>. QED  BY ZenonT(30), <1>1, <2>2, <3>1, <3>2 DEF Storing
  <2>. QED  BY ZenonT(30), <2>3, <2>4
<1>9. NextInv'
  BY SMTT(30), <1>0, <1>1, <1>2, LightLockAssumption DEF NextInv, ControlInv, TypeOK
<1>10. KernelWaitersCounted'
  <2>1. lockOwner[t] = NoThread
    BY <1>0, <1>2 DEF ControlInv
  <2>2. ListOf(owner)' = ListOf(owner) \cup {t} /\ t \notin ListOf(owner)
    BY <1>0, <1>2, <2>1, LightLockAssumption DEF ListOf, TypeOK
  <2>3. Cardinality(ListOf(owner)') = Cardinality(ListOf(owner)) + 1
    BY ZenonT(30), <2>2, FiniteThreads, FS_AddElement DEF ListOf
  <2>4. \A u \in Threads \ {owner} : ListOf(u)' = ListOf(u)
    BY <1>0, <1>2, <2>1, LightLockAssumption DEF ListOf, TypeOK
  <2>5. \A u \in Threads : numKernelWaiters[u] = Cardinality(ListOf(u))
    BY <1>0 DEF KernelWaitersCounted, ListOf
  <2>6. \A u \in Threads : numKernelWaiters'[u] = Cardinality(ListOf(u)')
    BY <1>0, <1>2, <2>3, <2>4, <2>5 DEF TypeOK
  <2>. QED  BY ZenonT(30), <2>6 DEF KernelWaitersCounted, ListOf
<1>. QED  BY <1>4, <1>5, <1>6, <1>7, <1>8, <1>9, <1>10 DEF IInv

\* The store of the next tag makes the woken thread the owner, and its list the
\* one the tag points at.
LEMMA UnlockStoreKeepsIInv ==
    ASSUME IInv, NEW t \in Threads, UnlockStore(t)
    PROVE  IInv'
<1>. DEFINE l == arg[t]
            n == nextTag[t].owner
<1>0. TypeOK /\ OwnerIsTagged /\ ControlInv /\ TagInv /\ QueueInv /\ NextInv
  BY DEF IInv
<1>1. UNCHANGED <<seen, held, lockOwner, numKernelWaiters, suspendRequest, suspendAllowed,
                  terminating>>
  BY DEF UnlockStore
<1>2. /\ pc[t] = "store" /\ sched = t /\ l \in Locks
      /\ state' = IF n = NoThread THEN state ELSE [state EXCEPT ![n] = "Runnable"]
      /\ tag' = [tag EXCEPT ![l] = nextTag[t]]
      /\ sched' = NoThread
      /\ pc' = [pc EXCEPT ![t] = "out"]
      /\ arg' = [arg EXCEPT ![t] = NoLock]
      /\ nextTag' = [nextTag EXCEPT ![t] = Free]
  BY <1>0 DEF UnlockStore, ControlInv
<1>3. /\ nextTag[t] \in [owner : Threads \cup {NoThread}, wait : BOOLEAN]
      /\ n \in Threads \cup {NoThread}
      /\ n # NoThread => n # t /\ state[n] = "Waiting" /\ arg[n] = l /\ lockOwner[n] = NoThread
      /\ n # NoThread => pc[n] = "wait"
  BY <1>0, <1>2 DEF TypeOK, NextInv, ControlInv
<1>4. suspended' \in [Threads -> SUBSET SuspendTypes]
  <2>1. \A u \in Threads : GetSuspendFlags(u) \in SUBSET SuspendTypes
    BY <1>0 DEF GetSuspendFlags, TypeOK
  <2>. DEFINE bits == IF n = NoThread THEN suspended
                      ELSE ContinueIfHasKernelWaiters(suspended, n, numKernelWaiters[n])
  <2>2. suspended' = SuspendAgain(bits, t)
    BY DEF UnlockStore
  <2>3. bits \in [Threads -> SUBSET SuspendTypes]
    BY <1>0, <1>3 DEF TypeOK, ContinueIfHasKernelWaiters
  <2>4. suspended' = bits \/ suspended' = [bits EXCEPT ![t] = GetSuspendFlags(t)]
    BY <2>2 DEF SuspendAgain, TrySuspend
  <2>. QED  BY <2>1, <2>3, <2>4
<1>5. TypeOK'
  BY ZenonT(30), <1>0, <1>1, <1>2, <1>3, <1>4 DEF TypeOK, Free, Tag
<1>6. OwnerIsTagged'
  <2>1. SUFFICES ASSUME NEW u \in Threads, NEW k \in Locks, Owns(u, k)' PROVE tag'[k].owner = u
    BY DEF OwnerIsTagged
  <2>2. CASE u = n /\ k = l
    BY <1>0, <1>2, <2>2 DEF TypeOK
  <2>3. CASE ~(u = n /\ k = l)
    <3>1. Owns(u, k) /\ ~(u = t /\ k = l /\ l \notin held[t])
      BY SMTT(30), <1>0, <1>1, <1>2, <1>3, <2>1, <2>3 DEF Owns, TypeOK
    <3>2. k # l
      BY SMTT(30), <1>0, <1>2, <2>1, <3>1 DEF OwnerIsTagged, Owns, ControlInv
    <3>. QED  BY <1>0, <1>2, <3>1, <3>2 DEF OwnerIsTagged, TypeOK
  <2>. QED  BY <2>2, <2>3
<1>7. ControlInv'
  BY SMTT(30), <1>0, <1>1, <1>2, <1>3, LightLockAssumption DEF ControlInv, TypeOK
<1>8. TagInv'
  BY ZenonT(30), <1>0, <1>2 DEF TagInv, TypeOK, Free, Tag
<1>9. QueueInv'
  <2>1. SUFFICES ASSUME NEW w \in Threads, state'[w] = "Waiting" PROVE QueueInv!(w)'
    BY ZenonT(30) DEF QueueInv
  <2>2. sched' \notin Threads
    BY <1>2, LightLockAssumption
  <2>3. w # n /\ w # t /\ state[w] = "Waiting" /\ arg[w] \in Locks /\ arg'[w] = arg[w]
    <3>1. w # n /\ state[w] = "Waiting"
      <4>1. CASE n = NoThread
        BY <1>2, <2>1, <4>1, LightLockAssumption
      <4>2. CASE n # NoThread
        BY <1>0, <1>2, <2>1, <4>2 DEF TypeOK
      <4>. QED  BY <4>1, <4>2
    <3>. QED  BY <1>0, <1>2, <3>1 DEF TypeOK, ControlInv
  <2>4. lockOwner[w] \in Threads /\ tag'[arg[w]] = Tag(lockOwner[w], TRUE)
    <3>1. CASE arg[w] = l
      BY ZenonT(30), <1>0, <1>2, <2>3, <3>1 DEF QueueInv, Storing, TypeOK
    <3>2. CASE arg[w] # l
      BY ZenonT(30), <1>0, <1>2, <2>3, <3>2 DEF QueueInv, Storing, TypeOK
    <3>. QED  BY ZenonT(30), <3>1, <3>2
  <2>. QED  BY ZenonT(30), <1>1, <2>2, <2>3, <2>4 DEF Storing
<1>10. NextInv'
  BY <1>7, <1>2, LightLockAssumption DEF NextInv, ControlInv
<1>. QED  BY <1>1, <1>5, <1>6, <1>7, <1>8, <1>9, <1>10, CountsUnchanged DEF IInv

\* RemoveKernelWaiterByKey moves the whole list to the next owner, and its count.
LEMMA UnlockSlowPathKeepsIInv ==
    ASSUME IInv, NEW t \in Threads, UnlockSlowPath(t)
    PROVE  IInv'
<1>0. /\ TypeOK /\ OwnerIsTagged /\ ControlInv /\ TagInv /\ QueueInv /\ NextInv
      /\ KernelWaitersCounted
  BY DEF IInv
<1>1. UNCHANGED <<tag, arg, seen, held, state, suspended, suspendRequest, suspendAllowed,
                  terminating>>
  BY DEF UnlockSlowPath, suspendVars
<1>2. PICK l \in Locks : l = arg[t]
  BY <1>0 DEF UnlockSlowPath, ControlInv
<1>3. PICK W \in SUBSET Threads : W = Waiters(t, l)
  BY ZenonT(30) DEF Waiters
<1>4. /\ pc[t] = "unlockSlow" /\ sched = NoThread /\ sched' = t
      /\ pc' = [pc EXCEPT ![t] = "store"]
  BY DEF UnlockSlowPath
<1>5. tag[l].owner = t
  BY <1>0, <1>2, <1>4 DEF OwnerIsTagged, Owns
<1>6. \A w \in Threads : state[w] = "Waiting" =>
          /\ lockOwner[w] \in Threads
          /\ tag[arg[w]] = Tag(lockOwner[w], TRUE)
  BY ZenonT(30), <1>0, <1>4, LightLockAssumption DEF QueueInv, Storing
<1>7. \A w \in Threads : state[w] = "Waiting" /\ arg[w] = l => w \in W
  <2>1. \A o : tag[l] = Tag(o, TRUE) => o = t
    BY <1>5 DEF Tag
  <2>. QED  BY ZenonT(30), <1>3, <1>6, <2>1 DEF Waiters
<1>8. \A w \in W : state[w] = "Waiting" /\ arg[w] = l /\ lockOwner[w] = t /\ pc[w] = "wait"
  BY <1>0, <1>3, LightLockAssumption DEF Waiters, ControlInv
<1>9. OwnerIsTagged'
  <2>1. \A u \in Threads, k \in Locks : Owns(u, k)' => Owns(u, k)
    BY <1>0, <1>1, <1>4 DEF Owns, TypeOK
  <2>. QED  BY <1>0, <1>1, <2>1 DEF OwnerIsTagged
<1>10. \A u \in Threads : pc[u] # "store"
  BY <1>0, <1>4, LightLockAssumption DEF ControlInv
<1>11. CASE W = {}
  <2>1. /\ nextTag' = [nextTag EXCEPT ![t] = Free]
        /\ lockOwner' = lockOwner /\ numKernelWaiters' = numKernelWaiters
    BY <1>2, <1>3, <1>11 DEF UnlockSlowPath
  <2>2. TypeOK'
    BY <1>0, <1>1, <1>4, <2>1 DEF TypeOK, Free, Tag
  <2>3. ControlInv'
    BY <1>0, <1>1, <1>4, <1>10, <2>1 DEF ControlInv, TypeOK
  <2>4. TagInv'
    BY <1>0, <1>1, <2>1 DEF TagInv, TypeOK
  <2>5. QueueInv'
    <3>1. SUFFICES ASSUME NEW w \in Threads, state[w] = "Waiting" PROVE QueueInv!(w)'
      BY ZenonT(30), <1>1 DEF QueueInv
    <3>2. ~Storing(arg[w])'
      BY <1>1, <1>2, <1>4, <1>7, <1>11, <3>1 DEF Storing
    <3>. QED  BY ZenonT(30), <1>1, <1>6, <2>1, <3>1, <3>2
  <2>6. NextInv'
    <3>1. nextTag'[t].owner = NoThread
      BY <1>0, <2>1 DEF TypeOK, Free, Tag
    <3>2. \A u \in Threads : pc'[u] = "store" => u = t
      BY <1>0, <1>4, <1>10 DEF TypeOK
    <3>. QED  BY <3>1, <3>2 DEF NextInv
  <2>. QED  BY <1>9, <2>1, <2>2, <2>3, <2>4, <2>5, <2>6, CountsUnchanged DEF IInv
<1>12. CASE W # {}
  <2>1. PICK n \in W :
            /\ nextTag' = [nextTag EXCEPT ![t] = NextTag(n, W)]
            /\ lockOwner' = [w \in Threads |-> IF w = n THEN NoThread
                                               ELSE IF w \in W THEN n ELSE lockOwner[w]]
            /\ numKernelWaiters' = PassedKernelWaiters(t, n, W)
    BY <1>2, <1>3, <1>12 DEF UnlockSlowPath
  <2>2. n \in Threads /\ n # t
    BY ZenonT(30), <1>4, <1>8
  <2>3. /\ nextTag'[t].owner = n
        /\ nextTag'[t] \in [owner : Threads \cup {NoThread}, wait : BOOLEAN]
        /\ \A w \in W \ {n} : nextTag'[t] = Tag(n, TRUE)
    <3>1. nextTag'[t] = Tag(n, W # {n})
      BY <1>0, <2>1 DEF TypeOK, NextTag
    <3>2. (W # {n}) \in BOOLEAN /\ \A w \in W \ {n} : (W # {n}) = TRUE
      OBVIOUS
    <3>3. nextTag'[t] \in [owner : Threads \cup {NoThread}, wait : BOOLEAN]
      BY SMTT(30), <2>2, <3>1, <3>2 DEF Tag
    <3>4. nextTag'[t].owner = n
      BY SMTT(30), <3>1 DEF Tag
    <3>. QED  BY ZenonT(30), <3>1, <3>2, <3>3, <3>4
  <2>4. KernelWaitersCounted'
    <3>1. \A u \in Threads : numKernelWaiters[u] = Cardinality(ListOf(u))
      BY ZenonT(30), <1>0 DEF KernelWaitersCounted, ListOf
    <3>2. ListOf(t) \in SUBSET Threads /\ ListOf(n) \in SUBSET Threads
      BY DEF ListOf
    <3>3. W \subseteq ListOf(t) /\ ListOf(n) \cap (W \ {n}) = {} /\ n \notin ListOf(n)
      BY <1>3, <1>8, <2>1, <2>2 DEF ListOf, Waiters
    <3>4. ListOf(t)' = ListOf(t) \ W
      BY <2>1, <2>2, <3>3, LightLockAssumption DEF ListOf
    <3>5. ListOf(n)' = ListOf(n) \cup (W \ {n})
      BY <2>1, <2>2, <3>3, LightLockAssumption DEF ListOf
    <3>6. \A u \in Threads \ {t, n} : ListOf(u)' = ListOf(u)
      BY <1>8, <2>1, <2>2, LightLockAssumption DEF ListOf
    <3>7. Cardinality(W \ {n}) = Cardinality(W) - 1
      BY <2>1, FS_RemoveElement, FiniteThreads
    <3>8. Cardinality(ListOf(t)') = Cardinality(ListOf(t)) - Cardinality(W)
      BY <3>2, <3>3, <3>4, CardinalityWithout
    <3>9. Cardinality(ListOf(n)') = Cardinality(ListOf(n)) + (Cardinality(W) - 1)
      BY <3>2, <3>3, <3>5, <3>7, CardinalityTogether
    <3>10. /\ numKernelWaiters'[t] = numKernelWaiters[t] - Cardinality(W)
           /\ numKernelWaiters'[n] = numKernelWaiters[n] + (Cardinality(W) - 1)
           /\ \A u \in Threads \ {t, n} : numKernelWaiters'[u] = numKernelWaiters[u]
      BY <1>0, <2>1, <2>2 DEF TypeOK, PassedKernelWaiters
    <3>11. \A u \in Threads : numKernelWaiters'[u] = Cardinality(ListOf(u)')
      BY <2>2, <3>1, <3>6, <3>8, <3>9, <3>10
    <3>. QED  BY ZenonT(30), <3>11 DEF KernelWaitersCounted, ListOf
  <2>5. TypeOK'
    <3>1. numKernelWaiters' \in [Threads -> Nat]
      <4>1. DOMAIN numKernelWaiters' = Threads /\ numKernelWaiters' = [u \in Threads |-> numKernelWaiters'[u]]
        BY ZenonT(30), <1>0, <2>1 DEF TypeOK, PassedKernelWaiters
      <4>2. \A u \in Threads : numKernelWaiters'[u] \in Nat
        <5>1. \A u \in Threads : Cardinality(ListOf(u)') \in Nat
          BY FiniteThreads DEF ListOf
        <5>. QED  BY ZenonT(30), <2>4, <5>1 DEF KernelWaitersCounted, ListOf
      <4>. QED  BY <4>1, <4>2
    <3>2. nextTag' \in [Threads -> [owner : Threads \cup {NoThread}, wait : BOOLEAN]]
      BY <1>0, <2>1, <2>3 DEF TypeOK
    <3>3. lockOwner' \in [Threads -> Threads \cup {NoThread}]
      BY <1>0, <2>1, <2>2 DEF TypeOK
    <3>. QED  BY ZenonT(30), <1>0, <1>1, <1>4, <3>1, <3>2, <3>3 DEF TypeOK
  <2>6. ControlInv'
    BY SMTT(30), <1>0, <1>1, <1>4, <1>8, <1>10, <2>1 DEF ControlInv, TypeOK
  <2>7. TagInv'
    BY <1>0, <1>1, <2>1, <2>2, <2>3, LightLockAssumption DEF TagInv, TypeOK
  <2>8. QueueInv'
    <3>1. SUFFICES ASSUME NEW w \in Threads, state[w] = "Waiting" PROVE QueueInv!(w)'
      BY ZenonT(30), <1>1 DEF QueueInv
    <3>2. Storing(arg[w])' <=> arg[w] = l
      BY <1>1, <1>2, <1>4 DEF Storing
    <3>3. CASE w = n
      BY ZenonT(30), <1>1, <1>4, <1>8, <2>1, <2>3, <3>2, <3>3
    <3>4. CASE w \in W \ {n}
      <4>1. lockOwner'[w] = n
        BY <2>1, <3>4
      <4>. QED  BY ZenonT(30), <1>1, <1>4, <1>8, <2>2, <2>3, <3>2, <3>4, <4>1
    <3>5. CASE w \notin W
      <4>1. lockOwner'[w] = lockOwner[w] /\ arg[w] # l
        BY <1>7, <2>1, <3>1, <3>5
      <4>. QED  BY ZenonT(30), <1>1, <1>6, <3>1, <3>2, <4>1
    <3>. QED  BY ZenonT(30), <3>3, <3>4, <3>5
  <2>9. NextInv'
    <3>1. \A u \in Threads : pc'[u] = "store" => u = t
      BY <1>0, <1>4, <1>10 DEF TypeOK
    <3>2. lockOwner'[n] = NoThread
      BY <2>1, <2>2
    <3>. QED  BY <1>1, <1>2, <1>8, <2>2, <2>3, <3>1, <3>2 DEF NextInv
  <2>. QED  BY <1>9, <2>4, <2>5, <2>6, <2>7, <2>8, <2>9 DEF IInv
<1>. QED  BY <1>11, <1>12

\* Every step preserves the invariant.
LEMMA NextIInv == IInv /\ [Next]_vars => IInv'
<1>. SUFFICES ASSUME IInv, [Next]_vars PROVE IInv'
  OBVIOUS
<1>1. CASE UNCHANGED vars
  <2>1. UNCHANGED <<tag, sched, pc, arg, seen, nextTag, held, lockOwner, numKernelWaiters, state,
                    suspended, suspendRequest, suspendAllowed, terminating>>
    BY <1>1 DEF vars, lockVars, waitVars, suspendVars
  <2>2. TypeOK'
    BY <2>1 DEF IInv, TypeOK
  <2>3. OwnerIsTagged' /\ ControlInv' /\ TagInv'
    BY <2>1 DEF IInv, OwnerIsTagged, Owns, ControlInv, TagInv
  <2>4. QueueInv' /\ NextInv'
    BY ZenonT(30), <2>1, QueueKept DEF IInv, NextInv
  <2>. QED  BY <2>1, <2>2, <2>3, <2>4, CountsUnchanged DEF IInv
<1>2. ASSUME NEW t \in Threads, NEW l \in Locks, CallLock(t, l) PROVE IInv'
  BY <1>2, CallLockKeepsIInv
<1>3. ASSUME NEW t \in Threads, Step(t) PROVE IInv'
  BY <1>3, LockKeepsIInv, LockSlowPathRetryKeepsIInv, LockSlowPathKeepsIInv,
     LockReturnKeepsIInv, UnlockKeepsIInv, UnlockSlowPathKeepsIInv, UnlockStoreKeepsIInv
     DEF Step
<1>4. ASSUME NEW t \in Threads, NEW type \in SuspendTypes,
             RequestSuspend(t, type) \/ Resume(t, type)
      PROVE  IInv'
  BY <1>4, SuspensionKeepsIInv
<1>. QED  BY <1>1, <1>2, <1>3, <1>4 DEF Next

\* The invariant always holds.
THEOREM InductiveInvariant == Spec => []IInv
BY InitIInv, NextIInv, PTL DEF Spec

-----------------------------------------------------------------------------
(* What follows from it.                                                     *)

\* Every variable keeps its type; the count of kernel waiters is never negative.
THEOREM TypeCorrect == Spec => []TypeOK
<1>1. IInv => TypeOK
  BY DEF IInv
<1>. QED  BY <1>1, InductiveInvariant, PTL

\* A thread that Lock() has returned to owns the lock until it calls Unlock():
\* the assertion IsLockedByCurrentThread of KLightLock's users.
THEOREM HolderOwnsTheLock == Spec => []IsLockedByHolder
<1>1. IInv => IsLockedByHolder
  BY DEF IInv, TypeOK, OwnerIsTagged, Owns, IsLockedByHolder
<1>. QED  BY <1>1, InductiveInvariant, PTL

\* A thread asleep in LockSlowPath is in the list that an Unlock() will look at.
THEOREM NoSleeperIsOrphaned == Spec => []SleepersAreQueuedOnOwner
<1>1. IInv => SleepersAreQueuedOnOwner
  <2>. SUFFICES ASSUME IInv, NEW t \in Threads, state[t] = "Waiting"
                PROVE  SleepersAreQueuedOnOwner!(t)!2
    BY ZenonT(30) DEF SleepersAreQueuedOnOwner
  <2>1. \A l : Storing(l) => sched # NoThread /\ arg[sched] = l
    BY LightLockAssumption DEF Storing
  <2>. QED  BY ZenonT(30), <2>1 DEF IInv, QueueInv
<1>. QED  BY <1>1, InductiveInvariant, PTL

\* m_num_kernel_waiters is the length of the waiter lists.
THEOREM WaitersAreCounted == Spec => []KernelWaitersCounted
<1>1. IInv => KernelWaitersCounted
  BY DEF IInv
<1>. QED  BY <1>1, InductiveInvariant, PTL

\* An owner knows all that wait for its locks: they are in its lists, and counted,
\* so that Unlock() and the suspension of threads find them.
THEOREM WaitersStayKnown == Spec => []WaitersAreKnown
<1>1. TypeOK /\ SleepersAreQueuedOnOwner /\ KernelWaitersCounted => WaitersAreKnown
  BY DEF WaitersAreKnown
<1>. QED  BY <1>1, TypeCorrect, NoSleeperIsOrphaned, WaitersAreCounted, PTL

\* KLightLock implements the mutual exclusion of Mutex: Lock() returns only
\* when no thread is between Lock() and Unlock().
THEOREM ImplementsMutex == Spec => MutexSpec
<1>1. Init => Abstract!Init
  BY DEF Init, Abstract!Init
<1>2. IInv /\ [Next]_vars => [Abstract!Next]_held
  <2>. SUFFICES ASSUME IInv, [Next]_vars, held' # held PROVE Abstract!Next
    OBVIOUS
  <2>1. ASSUME NEW t \in Threads, NEW l \in Locks, tag[l].owner \in {t, NoThread}, l \notin held[t]
        PROVE  \A u \in Threads : l \notin held[u]
    BY <2>1, LightLockAssumption DEF IInv, OwnerIsTagged, Owns
  <2>2. ASSUME NEW t \in Threads, NEW l \in Locks, Unlock(t, l) PROVE Abstract!Next
    BY ZenonT(30), <2>2 DEF Unlock, Abstract!Next, Abstract!Release
  <2>3. ASSUME NEW t \in Threads, Lock(t) PROVE Abstract!Next
    <3>1. arg[t] \in Locks \ held[t]
      BY <2>3 DEF Lock, IInv, ControlInv
    <3>2. tag[arg[t]] = Free /\ held' = [held EXCEPT ![t] = @ \cup {arg[t]}]
      BY ZenonT(30), <2>3 DEF Lock
    <3>3. \A u \in Threads : arg[t] \notin held[u]
      BY <2>1, <3>1, <3>2 DEF Free, Tag
    <3>. QED  BY ZenonT(30), <3>1, <3>2, <3>3 DEF Abstract!Next, Abstract!Acquire
  <2>4. ASSUME NEW t \in Threads, LockReturn(t) PROVE Abstract!Next
    <3>1. /\ arg[t] \in Locks \ held[t] /\ tag[arg[t]].owner = t
          /\ held' = [held EXCEPT ![t] = @ \cup {arg[t]}]
      BY <2>4 DEF LockReturn, IInv, ControlInv, OwnerIsTagged, Owns
    <3>2. \A u \in Threads : arg[t] \notin held[u]
      BY <2>1, <3>1
    <3>. QED  BY ZenonT(30), <3>1, <3>2 DEF Abstract!Next, Abstract!Acquire
  <2>. QED
    BY ZenonT(30), <2>2, <2>3, <2>4 DEF Next, Step, CallLock, LockSlowPathRetry, LockSlowPath,
       UnlockSlowPath, UnlockStore, RequestSuspend, Resume, vars, lockVars
<1>. QED  BY <1>1, <1>2, InductiveInvariant, PTL DEF Spec, MutexSpec, Abstract!Spec
=============================================================================

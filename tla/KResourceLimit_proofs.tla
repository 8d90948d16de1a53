-------------------------- MODULE KResourceLimit_proofs --------------------------
(* Proofs about KResourceLimit, for any number of threads, amounts and limits.      *)
EXTENDS KResourceLimit, FiniteSetTheorems, TLAPS

Asleep == {t \in Threads : pc[t] = "asleep"}

(* What is reserved is a number.                                                   *)
LEMMA AmountsAreNumbers == \A v \in Amounts \cup {0} : v \in Int
<1>1. \A v \in Amounts : v \in Nat
  BY ResourceAssumption
<1>2. QED
  BY <1>1

(* Putting a thread to sleep, or waking it, changes the count of sleepers by one.   *)
LEMMA AsleepCounts ==
    ASSUME pc \in [Threads -> {"user", "asleep", "spin"}]
    PROVE  /\ IsFiniteSet(Asleep) /\ Cardinality(Asleep) \in Nat
           /\ Cardinality(Asleep) = 0 <=> Asleep = {}
           /\ \A t \in Threads :
                /\ Cardinality(Asleep \ {t}) \in Nat
                /\ Cardinality(Asleep \ {t}) = Cardinality(Asleep) - (IF t \in Asleep THEN 1 ELSE 0)
                /\ Cardinality((Asleep \ {t}) \cup {t}) = Cardinality(Asleep \ {t}) + 1
<1>1. IsFiniteSet(Asleep)
  <2>1. Asleep \subseteq Threads
    BY DEF Asleep
  <2>2. QED
    BY <2>1, FS_Subset, ResourceAssumption
<1>2. Cardinality(Asleep) \in Nat /\ (Cardinality(Asleep) = 0 <=> Asleep = {})
  BY <1>1, FS_CardinalityType, FS_EmptySet
<1>3. ASSUME NEW t \in Threads
      PROVE  /\ Cardinality(Asleep \ {t}) \in Nat
             /\ Cardinality(Asleep \ {t}) = Cardinality(Asleep) - (IF t \in Asleep THEN 1 ELSE 0)
             /\ Cardinality((Asleep \ {t}) \cup {t}) = Cardinality(Asleep \ {t}) + 1
  <2>1. /\ IsFiniteSet(Asleep \ {t})
        /\ Cardinality(Asleep \ {t}) = IF t \in Asleep THEN Cardinality(Asleep) - 1 ELSE Cardinality(Asleep)
    BY <1>1, FS_RemoveElement
  <2>2. Cardinality(Asleep \ {t}) \in Nat
    BY <2>1, FS_CardinalityType
  <2>3. Cardinality((Asleep \ {t}) \cup {t}) = Cardinality(Asleep \ {t}) + 1
    <3>1. t \notin Asleep \ {t}
      OBVIOUS
    <3>2. QED
      BY <2>1, <3>1, FS_AddElement
  <2>4. QED
    BY <1>2, <2>1, <2>2, <2>3
<1>4. QED
  BY <1>1, <1>2, <1>3

(* Initially nobody sleeps and nothing is reserved.                                 *)
LEMMA InitIInv == Init => IInv
<1>1. SUFFICES ASSUME Init PROVE IInv
  OBVIOUS
<1>2. TypeOK
  BY <1>1, ResourceAssumption DEF Init, TypeOK
<1>3. WaitersAreCounted
  <2>1. {t \in Threads : pc[t] = "asleep"} = {}
    BY <1>1 DEF Init
  <2>2. QED
    BY <1>1, <2>1, FS_EmptySet DEF Init, WaitersAreCounted
<1>4. NeverOverLimit
  BY <1>1, ResourceAssumption DEF Init, NeverOverLimit
<1>5. NoForgottenWaiter /\ OnlySpinnersHoldTheLock /\ \A t \in waitList : pc[t] = "asleep"
  BY <1>1, ResourceAssumption DEF Init, NoForgottenWaiter, OnlySpinnersHoldTheLock
<1>6. QED
  BY <1>2, <1>3, <1>4, <1>5 DEF IInv

(* A round of Reserve, made with the lock by a thread that is not counted in n,     *)
(* preserves the invariant, whichever way it ends.                                  *)
LEMMA RoundIInv ==
    ASSUME IInv,
           NEW t \in Threads, NEW v \in Amounts \cup {0}, NEW n \in Int,
           owner = NoThread, t \notin waitList,
           n = Cardinality(Asleep \ {t}),
           Round(t, v, n), raised' = raised \ {t}, terminating' = terminating
    PROVE  IInv'
<1>0. /\ TypeOK /\ NeverOverLimit /\ NoForgottenWaiter /\ OnlySpinnersHoldTheLock
      /\ \A s \in waitList : pc[s] = "asleep"
      /\ v \in Nat
  BY ResourceAssumption DEF IInv
<1>c. Cardinality((Asleep \ {t}) \cup {t}) = n + 1
  BY <1>0, AsleepCounts DEF TypeOK
<1>n. \A s \in Threads : pc[s] # "spin"
  BY <1>0, ResourceAssumption DEF OnlySpinnersHoldTheLock
<1>1. ASSUME Return(t), waiterCount' = n, waitList' = waitList, limit' = limit,
             current' \in Int, hint' \in Int, peak' \in Int,
             held' \in [Threads -> Int], heldHint' \in [Threads -> Int],
             current <= current', current' <= peak', peak' <= limit
      PROVE  IInv'
  <2>1. TypeOK'
    BY <1>0, <1>1 DEF TypeOK, Return
  <2>2. NeverOverLimit'
    BY <1>1 DEF NeverOverLimit
  <2>3. WaitersAreCounted'
    <3>1. {s \in Threads : pc'[s] = "asleep"} = Asleep \ {t}
      BY <1>0, <1>1 DEF TypeOK, Return, Asleep
    <3>2. QED
      BY <1>1, <3>1 DEF WaitersAreCounted
  <2>4. NoForgottenWaiter'
    <3>1. SUFFICES ASSUME NEW s \in waitList, s \notin raised'
                   PROVE  ~Fits(amount[s])'
      BY <1>1 DEF NoForgottenWaiter
    <3>2. s # t /\ s \in Threads /\ s \notin raised /\ amount'[s] = amount[s] /\ amount[s] \in Int
      <4>1. s # t /\ s \in Threads /\ s \notin raised
        BY <1>0, <3>1 DEF TypeOK
      <4>2. amount'[s] = amount[s] /\ amount[s] \in Amounts \cup {0}
        BY <1>0, <1>1, <4>1 DEF TypeOK, Return
      <4>3. amount[s] \in Int
        BY <4>2, AmountsAreNumbers
      <4>4. QED
        BY <4>1, <4>2, <4>3
    <3>3. ~Fits(amount[s])
      BY <1>0, <3>2 DEF NoForgottenWaiter
    <3>4. QED
      BY <1>0, <1>1, <3>2, <3>3 DEF Fits, TypeOK
  <2>5. OnlySpinnersHoldTheLock'
    BY <1>0, <1>1, <1>n, ResourceAssumption DEF OnlySpinnersHoldTheLock, Return, TypeOK
  <2>6. \A s \in waitList' : pc'[s] = "asleep"
    BY <1>0, <1>1 DEF Return, TypeOK
  <2>7. QED
    BY <2>1, <2>2, <2>3, <2>4, <2>5, <2>6 DEF IInv
<1>2. CASE Fits(v) /\ Take(t, v) /\ Return(t) /\ waiterCount' = n /\ UNCHANGED waitList
  <2>1. current' \in Int /\ hint' \in Int /\ peak' \in Int /\ limit' = limit
    BY <1>0, <1>2 DEF Take, TypeOK
  <2>2. held' \in [Threads -> Int] /\ heldHint' \in [Threads -> Int]
    BY <1>0, <1>2 DEF Take, TypeOK
  <2>3. current <= current' /\ current' <= peak' /\ peak' <= limit
    BY <1>0, <1>2 DEF Take, TypeOK, Fits, NeverOverLimit
  <2>4. QED
    BY <1>1, <1>2, <2>1, <2>2, <2>3
<1>3. CASE /\ ~Fits(v) /\ Return(t) /\ waiterCount' = n
           /\ UNCHANGED <<waitList, valueVars, heldVars>>
  BY <1>0, <1>1, <1>3 DEF valueVars, heldVars, TypeOK, NeverOverLimit
<1>4. CASE /\ ~Fits(v) /\ Wait(t, v)
           /\ waiterCount' = (IF t \in terminating THEN n ELSE n + 1)
           /\ UNCHANGED <<valueVars, heldVars>>
  <2>0. UNCHANGED <<limit, current, hint, peak, held, heldHint>>
    BY <1>4 DEF valueVars, heldVars
  <2>1. TypeOK'
    BY <1>0, <1>4, <2>0 DEF TypeOK, Wait
  <2>2. NeverOverLimit'
    BY <1>0, <2>0 DEF NeverOverLimit
  <2>3. WaitersAreCounted'
    <3>1. CASE t \in terminating
      <4>1. {s \in Threads : pc'[s] = "asleep"} = Asleep \ {t}
        BY <1>0, <1>4, <3>1 DEF TypeOK, Wait, Asleep
      <4>2. QED
        BY <1>4, <3>1, <4>1 DEF WaitersAreCounted
    <3>2. CASE t \notin terminating
      <4>1. {s \in Threads : pc'[s] = "asleep"} = (Asleep \ {t}) \cup {t}
        BY <1>0, <1>4, <3>2 DEF TypeOK, Wait, Asleep
      <4>2. QED
        BY <1>4, <1>c, <3>2, <4>1 DEF WaitersAreCounted
    <3>3. QED
      BY <3>1, <3>2
  <2>4. NoForgottenWaiter'
    <3>1. SUFFICES ASSUME NEW s \in waitList', s \notin raised'
                   PROVE  ~Fits(amount[s])'
      BY DEF NoForgottenWaiter
    <3>2. CASE s = t
      BY <1>0, <1>4, <2>0, <3>2 DEF Wait, Fits, TypeOK
    <3>3. CASE s # t
      <4>1. s \in waitList /\ s \notin raised /\ amount'[s] = amount[s]
        BY <1>0, <1>4, <3>1, <3>3 DEF Wait, TypeOK
      <4>2. QED
        BY <1>0, <2>0, <4>1 DEF NoForgottenWaiter, Fits
    <3>4. QED
      BY <3>2, <3>3
  <2>5. OnlySpinnersHoldTheLock'
    BY <1>0, <1>4, <1>n, ResourceAssumption DEF OnlySpinnersHoldTheLock, Wait, TypeOK
  <2>6. \A s \in waitList' : pc'[s] = "asleep"
    BY <1>0, <1>4 DEF Wait, TypeOK
  <2>7. QED
    BY <2>1, <2>2, <2>3, <2>4, <2>5, <2>6 DEF IInv
<1>5. QED
  BY <1>2, <1>3, <1>4 DEF Round

(* Every step preserves the invariant.                                              *)
LEMMA NextIInv == IInv /\ [Next]_vars => IInv'
<1> SUFFICES ASSUME IInv, [Next]_vars PROVE IInv'
  OBVIOUS
<1>0. /\ TypeOK /\ NeverOverLimit /\ NoForgottenWaiter /\ OnlySpinnersHoldTheLock
      /\ WaitersAreCounted /\ \A s \in waitList : pc[s] = "asleep"
  BY DEF IInv
<1>c. waiterCount = Cardinality(Asleep)
  BY <1>0 DEF WaitersAreCounted, Asleep
<1>1. ASSUME NEW t \in Threads, NEW v \in Amounts, Reserve(t, v) PROVE IInv'
  <2>1. t \notin waitList /\ t \notin Asleep
    BY <1>0, <1>1 DEF Reserve, Asleep
  <2>2. waiterCount = Cardinality(Asleep \ {t}) /\ waiterCount \in Int
    BY <1>0, <1>c, <2>1, AsleepCounts DEF TypeOK
  <2>3. /\ owner = NoThread /\ Round(t, v, waiterCount)
        /\ raised' = raised \ {t} /\ terminating' = terminating
    BY <1>1 DEF Reserve
  <2>4. QED
    BY <2>1, <2>2, <2>3, RoundIInv
<1>2. ASSUME NEW t \in Threads, Wake(t) PROVE IInv'
  <2>1. t \notin waitList /\ t \in Asleep
    BY <1>2 DEF Wake, Asleep
  <2>2. waiterCount - 1 = Cardinality(Asleep \ {t}) /\ waiterCount - 1 \in Int
    BY <1>0, <1>c, <2>1, AsleepCounts DEF TypeOK
  <2>3. /\ owner = NoThread /\ Round(t, amount[t], waiterCount - 1)
        /\ raised' = raised \ {t} /\ terminating' = terminating
    BY <1>2 DEF Wake
  <2>4. amount[t] \in Amounts \cup {0}
    BY <1>0 DEF TypeOK
  <2>5. QED
    BY <2>1, <2>2, <2>3, <2>4, RoundIInv
<1>3. ASSUME NEW t \in Threads, Spin(t) PROVE IInv'
  <2>0. /\ UNCHANGED <<limit, current, hint, peak, held, heldHint, waiterCount, waitList, terminating, raised>>
        /\ pc[t] = "spin" /\ owner = t /\ t \notin waitList
    BY <1>0, <1>3 DEF Spin, valueVars, heldVars, OnlySpinnersHoldTheLock
  <2>1. TypeOK'
    BY <1>0, <1>3, <2>0 DEF TypeOK, Spin, Return
  <2>2. NeverOverLimit'
    BY <1>0, <2>0 DEF NeverOverLimit
  <2>3. WaitersAreCounted'
    <3>1. {s \in Threads : pc'[s] = "asleep"} = {s \in Threads : pc[s] = "asleep"}
      BY <1>0, <1>3, <2>0 DEF TypeOK, Spin, Return
    <3>2. QED
      BY <1>0, <2>0, <3>1 DEF WaitersAreCounted
  <2>4. NoForgottenWaiter'
    <3>1. \A s \in waitList : amount'[s] = amount[s]
      BY <1>0, <1>3, <2>0 DEF TypeOK, Spin, Return
    <3>2. QED
      BY <1>0, <2>0, <3>1 DEF NoForgottenWaiter, Fits
  <2>5. OnlySpinnersHoldTheLock'
    BY <1>0, <1>3, <2>0, ResourceAssumption DEF OnlySpinnersHoldTheLock, Spin, Return, TypeOK
  <2>6. \A s \in waitList' : pc'[s] = "asleep"
    BY <1>0, <1>3, <2>0 DEF Spin, Return, TypeOK
  <2>7. QED
    BY <2>1, <2>2, <2>3, <2>4, <2>5, <2>6 DEF IInv
<1>4. ASSUME NEW t \in Threads, NEW v \in Amounts, NEW h \in Amounts, Release(t, v, h) PROVE IInv'
  <2>0. /\ UNCHANGED <<limit, peak, waiterCount, owner, pc, amount, expired, terminating, raised>>
        /\ current' = current - v /\ v \in Nat /\ h \in Nat
    BY <1>4, ResourceAssumption DEF Release
  <2>1. TypeOK'
    <3>1. current' \in Int /\ hint' \in Int /\ waitList' \subseteq Threads
      BY <1>0, <1>4, <2>0 DEF TypeOK, Release, Broadcast
    <3>2. held' \in [Threads -> Int] /\ heldHint' \in [Threads -> Int]
      BY <1>0, <1>4, <2>0 DEF TypeOK, Release
    <3>3. QED
      BY <1>0, <2>0, <3>1, <3>2 DEF TypeOK
  <2>2. NeverOverLimit'
    BY <1>0, <2>0 DEF NeverOverLimit, TypeOK
  <2>3. WaitersAreCounted'
    BY <1>0, <2>0 DEF WaitersAreCounted
  <2>4. waitList' = {}
    <3>1. waiterCount = 0 => Asleep = {}
      BY <1>0, <1>c, AsleepCounts DEF TypeOK
    <3>2. waiterCount = 0 => waitList = {}
      BY <1>0, <3>1 DEF TypeOK, Asleep
    <3>3. QED
      BY <1>4, <3>2 DEF Release, Broadcast
  <2>5. NoForgottenWaiter' /\ \A s \in waitList' : pc'[s] = "asleep"
    BY <2>4 DEF NoForgottenWaiter
  <2>6. OnlySpinnersHoldTheLock'
    BY <1>0, <2>0 DEF OnlySpinnersHoldTheLock
  <2>7. QED
    BY <2>1, <2>2, <2>3, <2>5, <2>6 DEF IInv
<1>5. ASSUME NEW l \in Limits, SetLimitValue(l) PROVE IInv'
  <2>0. /\ UNCHANGED <<current, hint, waiterCount, owner, waitList, pc, amount, expired, terminating, held, heldHint>>
        /\ l \in Nat /\ current <= l /\ limit' = l /\ peak' = current
        /\ raised' = IF l > limit THEN Asleep ELSE raised
    BY <1>5, ResourceAssumption DEF SetLimitValue, heldVars, Asleep
  <2>1. TypeOK'
    BY <1>0, <2>0 DEF TypeOK, Asleep
  <2>2. NeverOverLimit'
    BY <1>0, <2>0 DEF NeverOverLimit, TypeOK
  <2>3. WaitersAreCounted' /\ OnlySpinnersHoldTheLock' /\ \A s \in waitList' : pc'[s] = "asleep"
    BY <1>0, <2>0 DEF WaitersAreCounted, OnlySpinnersHoldTheLock
  <2>4. NoForgottenWaiter'
    <3>1. SUFFICES ASSUME NEW s \in waitList, s \notin raised' PROVE ~Fits(amount[s])'
      BY <2>0 DEF NoForgottenWaiter
    <3>2. s \in Asleep /\ amount[s] \in Amounts \cup {0}
      BY <1>0, <3>1 DEF Asleep, TypeOK
    <3>3. ~(l > limit) /\ s \notin raised /\ amount[s] \in Int
      BY <2>0, <3>1, <3>2, AmountsAreNumbers
    <3>4. ~Fits(amount[s])
      BY <1>0, <3>3 DEF NoForgottenWaiter
    <3>5. QED
      BY <1>0, <2>0, <3>3, <3>4 DEF Fits, TypeOK
  <2>5. QED
    BY <2>1, <2>2, <2>3, <2>4 DEF IInv
<1>6. ASSUME UNCHANGED <<limit, current, hint, peak, waiterCount, owner, pc, amount, held, heldHint, raised>>,
             waitList' \subseteq waitList, expired' \subseteq Threads, terminating' \subseteq Threads
      PROVE  IInv'
  <2>1. TypeOK'
    BY <1>0, <1>6 DEF TypeOK
  <2>2. NeverOverLimit' /\ WaitersAreCounted' /\ OnlySpinnersHoldTheLock'
    BY <1>0, <1>6 DEF NeverOverLimit, WaitersAreCounted, OnlySpinnersHoldTheLock
  <2>3. NoForgottenWaiter' /\ \A s \in waitList' : pc'[s] = "asleep"
    BY <1>0, <1>6 DEF NoForgottenWaiter, Fits
  <2>4. QED
    BY <2>1, <2>2, <2>3 DEF IInv
<1>7. ASSUME NEW t \in Threads, Expire(t) \/ OnTimer(t) \/ RequestTerminate(t) PROVE IInv'
  <2>1. /\ UNCHANGED <<limit, current, hint, peak, waiterCount, owner, pc, amount, held, heldHint, raised>>
        /\ waitList' \subseteq waitList
    BY <1>7 DEF Expire, OnTimer, RequestTerminate, valueVars, heldVars
  <2>2. expired' \subseteq Threads /\ terminating' \subseteq Threads
    BY <1>0, <1>7 DEF Expire, OnTimer, RequestTerminate, TypeOK
  <2>3. QED
    BY <1>6, <2>1, <2>2
<1>8. CASE UNCHANGED vars
  BY <1>0, <1>6, <1>8 DEF vars, valueVars, heldVars, TypeOK
<1>9. QED
  BY <1>1, <1>2, <1>3, <1>4, <1>5, <1>7, <1>8 DEF Next

(* The books of KResourceLimit and the wait of its condition variable stay          *)
(* consistent, through reservations, releases, changes of the limit, timeouts and   *)
(* terminations.                                                                    *)
THEOREM InvariantHolds == Spec => []IInv
  BY InitIInv, NextIInv, PTL DEF Spec

(* No operation of KResourceLimit leaves more in use than the limit.                *)
THEOREM LimitIsKept == Spec => []NeverOverLimit
<1>1. IInv => NeverOverLimit
  BY DEF IInv
<1>2. QED
  BY <1>1, InvariantHolds, PTL

(* The count by which Release decides to wake anybody is the number of threads in   *)
(* KLightConditionVariable::Wait.                                                   *)
THEOREM WaitersStayCounted == Spec => []WaitersAreCounted
<1>1. IInv => WaitersAreCounted
  BY DEF IInv
<1>2. QED
  BY <1>1, InvariantHolds, PTL

(* Release loses no wake-up: who sleeps in Reserve has no room, unless              *)
(* SetLimitValue made it.                                                           *)
THEOREM NoWaiterForgotten == Spec => []NoForgottenWaiter
<1>1. IInv => NoForgottenWaiter
  BY DEF IInv
<1>2. QED
  BY <1>1, InvariantHolds, PTL

(* Both: Release finds every waiter that it could serve.                            *)
THEOREM WaitersStayServed == Spec => []WaitersAreServed
<1>1. WaitersAreCounted /\ NoForgottenWaiter => WaitersAreServed
  BY DEF WaitersAreServed
<1>2. QED
  BY <1>1, WaitersStayCounted, NoWaiterForgotten, PTL
=============================================================================

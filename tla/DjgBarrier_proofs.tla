------------------------- MODULE DjgBarrier_proofs -------------------------
(* Proofs that djgthread_barrier_wait keeps its inductive invariant and    *)
(* implements Barrier, for every number of threads and every width of the  *)
(* cycle counter.                                                          *)
EXTENDS DjgBarrier, FiniteSetTheorems, TLAPS

Arrived == {t \in Threads : CallState(t) = "arrived"}

\* The thread table is finite and has NThreads entries.
LEMMA ThreadsFinite == IsFiniteSet(Threads) /\ Cardinality(Threads) = NThreads
  <1>1. 0 \in Int /\ NThreads - 1 \in Int
    BY NThreadsAssumption
  <1>2. IsFiniteSet(0 .. NThreads - 1)
        /\ Cardinality(0 .. NThreads - 1) = IF 0 > NThreads - 1 THEN 0 ELSE (NThreads - 1) - 0 + 1
    BY <1>1, FS_Interval
  <1> QED
    BY <1>2, NThreadsAssumption DEF Threads

\* The next value of the cycle counter differs from the present one, even
\* where the int wraps round.
LEMMA CycleMoves ==
  ASSUME NEW x \in 0 .. CycleMod - 1
  PROVE  (x + 1) % CycleMod \in 0 .. CycleMod - 1 /\ (x + 1) % CycleMod # x
  <1>1. CASE x + 1 < CycleMod
    <2>1. (x + 1) % CycleMod = x + 1
      BY <1>1, CycleModAssumption
    <2> QED
      BY <2>1, <1>1, CycleModAssumption
  <1>2. CASE x + 1 = CycleMod
    <2>1. (x + 1) % CycleMod = 0
      BY <1>2, CycleModAssumption
    <2> QED
      BY <2>1, <1>2, CycleModAssumption
  <1> QED
    BY <1>1, <1>2, CycleModAssumption

\* The initial state satisfies the inductive invariant.
LEMMA InitIInv == Init => IInv
  <1> SUFFICES ASSUME Init PROVE IInv
    OBVIOUS
  <1> USE NThreadsAssumption, BarrierAssumption, CycleModAssumption, NoCondAssumption
  <1>1. TypeOK
    BY DEF Init, SyncInit, TypeOK, SyncTypeOK, Threads, Labels, WaitLabels, BcastLabels, BcastSection, Customers
  <1>2. MutexInv
    BY DEF Init, MutexInv, Inside, BcastLabels, BcastSection
  <1>3. LabelInv
    BY DEF Init, SyncInit, LabelInv, WaitLabels, BcastLabels, BcastSection
  <1>4. CountIsArrivals
    <2>1. {t \in Threads : CallState(t) = "arrived"} = {}
      BY DEF Init, CallState
    <2> QED
      BY <2>1, FS_EmptySet DEF Init, CountIsArrivals
  <1>5. NoLostWakeup
    BY DEF Init, NoLostWakeup
  <1> QED
    BY <1>1, <1>2, <1>3, <1>4, <1>5 DEF IInv
-----------------------------------------------------------------------------
\* A step that leaves every call in its state keeps the arrival count.
LEMMA SameArrivals ==
  ASSUME CountIsArrivals, n' = n, \A t \in Threads : CallState(t)' = CallState(t)
  PROVE  CountIsArrivals'
  <1>1. {t \in Threads : CallState(t) = "arrived"}' = {t \in Threads : CallState(t) = "arrived"}
    OBVIOUS
  <1> QED
    BY <1>1 DEF CountIsArrivals

\* The callers of the barrier that are neither entering nor leaving the
\* abstract barrier keep their abstract state.
LEMMA QuietSteps ==
  ASSUME IInv, NEW t \in Threads,
         \/ Call(t) \/ BarrierLock(t) \/ LoopAgain(t) \/ LoopDone(t)
         \/ BarrierCondWait(t) \/ BarrierBroadcast(t)
  PROVE  \A u \in Threads : CallState(u)' = CallState(u)
  <1> USE DEF IInv, TypeOK, SyncTypeOK, CallState, Goto, local
  <1>1. CASE Call(t)
    BY <1>1 DEF Call
  <1>2. CASE BarrierLock(t)
    BY <1>2 DEF BarrierLock, Lock
  <1>3. CASE LoopAgain(t)
    BY <1>3 DEF LoopAgain
  <1>4. CASE LoopDone(t)
    BY <1>4 DEF LoopDone
  <1>5. CASE BarrierCondWait(t)
    BY <1>5 DEF BarrierCondWait, CondWait, CondPublish, CondUnlock, CondWake, CondLock, Lock, Unlock
  <1>6. CASE BarrierBroadcast(t)
    BY <1>6 DEF BarrierBroadcast, Broadcast, BcastAcquire, BcastSkip, BcastFound, BcastClear, BcastRelease
  <1> QED
    BY <1>1, <1>2, <1>3, <1>4, <1>5, <1>6

\* The early and the last arrival, and the arrival count they find.
LEMMA EarlyArrival ==
  ASSUME IInv, NEW t \in Threads, EnterEarly(t)
  PROVE  /\ Arrived' = Arrived \cup {t}
         /\ t \notin Arrived
         /\ CountIsArrivals'
         /\ \E u \in Threads \ {t} : CallState(u) # "arrived"
  <1>1. Arrived' = Arrived \cup {t} /\ t \notin Arrived
    BY DEF Arrived, IInv, TypeOK, SyncTypeOK, CallState, EnterEarly, Goto
  <1>2. IsFiniteSet(Arrived)
    BY ThreadsFinite, FS_Subset DEF Arrived
  <1>3. Cardinality(Arrived) = n
    BY DEF Arrived, IInv, CountIsArrivals
  <1>4. Cardinality(Arrived \cup {t}) = n + 1 /\ IsFiniteSet(Arrived \cup {t})
    BY <1>1, <1>2, <1>3, FS_AddElement
  <1>5. CountIsArrivals'
    BY <1>1, <1>4 DEF CountIsArrivals, Arrived, EnterEarly
  <1>6. Arrived \cup {t} # Threads
    <2>1. n + 1 # NThreads
      BY NThreadsAssumption DEF IInv, TypeOK, EnterEarly, Customers
    <2>2. Cardinality(Arrived \cup {t}) # Cardinality(Threads)
      BY <1>4, <2>1, ThreadsFinite
    <2> QED
      BY <2>2, Zenon
  <1> QED
    BY <1>1, <1>5, <1>6 DEF Arrived

LEMMA LastArrival ==
  ASSUME IInv, NEW t \in Threads, EnterLast(t)
  PROVE  /\ \A u \in Threads \ {t} : CallState(u) = "arrived"
         /\ \A u \in Threads \ {t} : CallState(u)' = "released"
         /\ CallState(t) = "outside" /\ CallState(t)' = "serial"
         /\ CountIsArrivals'
  <1>1. t \notin Arrived /\ CallState(t) = "outside"
    BY DEF Arrived, CallState, EnterLast, Goto
  <1>2. IsFiniteSet(Arrived)
    BY ThreadsFinite, FS_Subset DEF Arrived
  <1>3. Cardinality(Arrived) = n
    BY DEF Arrived, IInv, CountIsArrivals
  <1>4. Cardinality(Arrived \cup {t}) = n + 1
    BY <1>1, <1>2, <1>3, FS_AddElement
  <1>5. n + 1 = NThreads
    BY NThreadsAssumption DEF IInv, TypeOK, EnterLast, Customers
  <1>6. Arrived \cup {t} = Threads
    BY <1>4, <1>5, ThreadsFinite, FS_Subset DEF Arrived
  <1>7. \A u \in Threads \ {t} : CallState(u) = "arrived"
    BY <1>6 DEF Arrived
  <1>8. cycle' # cycle
    BY CycleMoves DEF IInv, TypeOK, EnterLast
  <1>9. \A u \in Threads \ {t} : CallState(u)' = "released"
    BY <1>7, <1>8 DEF CallState, IInv, TypeOK, EnterLast, Goto
  <1>10. CallState(t)' = "serial"
    BY DEF CallState, IInv, TypeOK, EnterLast, Goto
  <1>11. Arrived' = {}
    BY <1>9, <1>10 DEF Arrived
  <1> QED
    BY <1>1, <1>7, <1>9, <1>10, <1>11, FS_EmptySet DEF CountIsArrivals, Arrived, EnterLast
-----------------------------------------------------------------------------
\* Every step of every thread keeps the types.
LEMMA StepTypeOK ==
  ASSUME IInv, [Next]_vars
  PROVE  TypeOK'
  <1> USE NThreadsAssumption, BarrierAssumption, CycleModAssumption
      DEF TypeOK, SyncTypeOK, Labels, WaitLabels, BcastLabels, BcastSection, Customers, Goto, local
  <1>a. TypeOK
    BY DEF IInv
  <1>0. CASE UNCHANGED vars
    BY <1>a, <1>0 DEF vars
  <1>n. CASE Next
    <2> PICK t \in Threads : Call(t) \/ Step(t)
      BY <1>n DEF Next
    <2>1. CASE Call(t)
      BY <1>a, <2>1 DEF Call
    <2>2. CASE BarrierLock(t)
      BY <1>a, <2>2 DEF BarrierLock, Lock, MM_ACQUIRE
    <2>3. CASE EnterEarly(t)
      BY <1>a, <2>3 DEF EnterEarly
    <2>4. CASE EnterLast(t)
      BY <1>a, <2>4, CycleMoves DEF EnterLast
    <2>5. CASE LoopAgain(t) \/ LoopDone(t)
      BY <1>a, <2>5 DEF LoopAgain, LoopDone
    <2>6. CASE BarrierUnlock(t)
      BY <1>a, <2>6 DEF BarrierUnlock, Unlock, MM_RELEASE
    <2>7. CASE BarrierCondWait(t)
      BY <1>a, <2>7 DEF BarrierCondWait, CondWait, CondPublish, CondUnlock, CondWake, CondLock,
                        Lock, Unlock, MM_ACQUIRE, MM_RELEASE
    <2>8. CASE BarrierBroadcast(t)
      <3>1. CASE BcastAcquire(t)
        BY <1>a, <2>8, <3>1 DEF BarrierBroadcast, BcastAcquire, MM_ACQUIRE
      <3>2. CASE BcastSkip(t, C)
        BY <1>a, <2>8, <3>2 DEF BarrierBroadcast, BcastSkip
      <3>3. CASE BcastFound(t, C)
        BY <1>a, <2>8, <3>3 DEF BarrierBroadcast, BcastFound
      <3>4. CASE BcastClear(t)
        <4>1. scan[t] < NThreads
          BY <3>4 DEF IInv, LabelInv, BcastClear
        <4>2. scan[t] + 1 \in 0 .. NThreads
          BY <1>a, <4>1
        <4>3. scan' \in [Threads -> 0 .. NThreads]
          BY <1>a, <3>4, <4>2 DEF BcastClear
        <4>4. waiting' \in [Threads -> Conds \cup {NoCond}]
          BY <1>a, <3>4 DEF BcastClear
        <4> QED
          BY <1>a, <2>8, <3>4, <4>3, <4>4 DEF BarrierBroadcast, BcastClear
      <3>5. CASE BcastRelease(t, "b_unlock")
        BY <1>a, <2>8, <3>5 DEF BarrierBroadcast, BcastRelease, MM_RELEASE
      <3> QED
        BY <2>8, <3>1, <3>2, <3>3, <3>4, <3>5 DEF BarrierBroadcast, Broadcast
    <2> QED
      BY <2>1, <2>2, <2>3, <2>4, <2>5, <2>6, <2>7, <2>8 DEF Step
  <1> QED
    BY <1>0, <1>n

\* Every step keeps the two mutexes exclusive.
LEMMA StepMutexInv ==
  ASSUME IInv, NEW t \in Threads, Call(t) \/ Step(t)
  PROVE  MutexInv'
  <1> USE BarrierAssumption, BcastMutexAssumption
      DEF MutexInv, Inside, BcastLabels, BcastSection, Goto, local
  <1>a. MutexInv /\ pc \in [Threads -> Labels] /\ mutex \in [{M, BcastMutex} -> {0, 1}]
    BY DEF IInv, TypeOK, SyncTypeOK
  <1>b. M # BcastMutex
    OBVIOUS
  <1>1. CASE Call(t)
    BY <1>a, <1>1 DEF Call
  <1>2. CASE BarrierLock(t)
    BY <1>a, <1>b, <1>2 DEF BarrierLock, Lock, MM_ACQUIRE
  <1>3. CASE EnterEarly(t) \/ EnterLast(t)
    BY <1>a, <1>3 DEF EnterEarly, EnterLast
  <1>5. CASE LoopAgain(t) \/ LoopDone(t)
    BY <1>a, <1>5 DEF LoopAgain, LoopDone
  <1>6. CASE BarrierUnlock(t)
    BY <1>a, <1>b, <1>6 DEF BarrierUnlock, Unlock, MM_RELEASE
  <1>7. CASE BarrierCondWait(t)
    BY <1>a, <1>b, <1>7 DEF BarrierCondWait, CondWait, CondPublish, CondUnlock, CondWake, CondLock,
                      Lock, Unlock, MM_ACQUIRE, MM_RELEASE
  <1>8. CASE BarrierBroadcast(t)
    BY <1>a, <1>b, <1>8 DEF BarrierBroadcast, Broadcast, BcastAcquire, BcastSkip, BcastFound, BcastClear,
                      BcastRelease, MM_ACQUIRE, MM_RELEASE
  <1> QED
    BY <1>1, <1>2, <1>3, <1>5, <1>6, <1>7, <1>8 DEF Step

\* Every step keeps what the labels say about the threads' variables.
LEMMA StepLabelInv ==
  ASSUME IInv, NEW t \in Threads, Call(t) \/ Step(t)
  PROVE  LabelInv'
  <1> USE BarrierAssumption, NoCondAssumption
      DEF LabelInv, WaitLabels, BcastLabels, BcastSection, Goto, local
  <1>a. /\ LabelInv
        /\ pc \in [Threads -> Labels]
        /\ waiting \in [Threads -> {C, NoCond}]
        /\ scan \in [Threads -> 0 .. NThreads]
        /\ rc \in [Threads -> BOOLEAN]
        /\ myCycle \in [Threads -> 0 .. CycleMod - 1]
    BY DEF IInv, TypeOK, SyncTypeOK
  <1>b. \A u \in Threads : pc[t] \in Inside /\ pc[u] \in Inside => t = u
    BY DEF IInv, MutexInv
  <1>c. NoCond # C
    OBVIOUS
  <1>1. CASE Call(t)
    BY <1>a, <1>1 DEF Call
  <1>2. CASE BarrierLock(t)
    BY <1>a, <1>2 DEF BarrierLock, Lock
  <1>3. CASE EnterEarly(t)
    BY <1>a, <1>3 DEF EnterEarly
  <1>4. CASE EnterLast(t)
    <2>1. \A u \in Threads \ {t} : pc[u] \notin Inside
      BY <1>b, <1>4 DEF EnterLast, Inside
    <2> QED
      BY <1>a, <1>4, <2>1 DEF EnterLast, Inside
  <1>5. CASE LoopAgain(t)
    BY <1>a, <1>5 DEF LoopAgain
  <1>6. CASE LoopDone(t)
    BY <1>a, <1>6 DEF LoopDone
  <1>7. CASE BarrierUnlock(t)
    BY <1>a, <1>7 DEF BarrierUnlock, Unlock
  <1>8. CASE BarrierCondWait(t)
    <2>1. CASE CondPublish(t, C)
      BY <1>a, <1>8, <2>1 DEF BarrierCondWait, CondPublish
    <2>2. CASE CondUnlock(t, M)
      BY <1>a, <1>8, <2>2 DEF BarrierCondWait, CondUnlock, Unlock
    <2>3. CASE CondWake(t, C)
      BY <1>a, <1>8, <2>3 DEF BarrierCondWait, CondWake
    <2>4. CASE CondLock(t, M, "b_loop")
      BY <1>a, <1>8, <2>4 DEF BarrierCondWait, CondLock, Lock
    <2> QED
      BY <1>8, <2>1, <2>2, <2>3, <2>4 DEF BarrierCondWait, CondWait
  <1>9. CASE BarrierBroadcast(t)
    <2>1. CASE BcastAcquire(t)
      BY <1>a, <1>9, <2>1 DEF BarrierBroadcast, BcastAcquire
    <2>2. CASE BcastSkip(t, C)
      BY <1>a, <1>9, <2>2 DEF BarrierBroadcast, BcastSkip
    <2>3. CASE BcastFound(t, C)
      BY <1>a, <1>9, <2>3 DEF BarrierBroadcast, BcastFound
    <2>4. CASE BcastClear(t)
      <3>1. \A u \in Threads \ {t} : pc[u] # "bc_clear"
        BY <1>b, <2>4 DEF BcastClear, Inside
      <3>2. \A u \in Threads : waiting'[u] = C => waiting[u] = C
        BY <1>a, <1>c, <2>4 DEF BcastClear
      <3> QED
        BY <1>a, <1>9, <2>4, <3>1, <3>2 DEF BarrierBroadcast, BcastClear
    <2>5. CASE BcastRelease(t, "b_unlock")
      BY <1>a, <1>9, <2>5 DEF BarrierBroadcast, BcastRelease
    <2> QED
      BY <1>9, <2>1, <2>2, <2>3, <2>4, <2>5 DEF BarrierBroadcast, Broadcast
  <1> QED
    BY <1>1, <1>2, <1>3, <1>4, <1>5, <1>6, <1>7, <1>8, <1>9 DEF Step

\* Every step keeps the arrival count.
LEMMA StepCount ==
  ASSUME IInv, NEW t \in Threads, Call(t) \/ Step(t)
  PROVE  CountIsArrivals'
  <1>1. CASE Call(t) \/ BarrierLock(t) \/ LoopAgain(t) \/ LoopDone(t)
             \/ BarrierCondWait(t) \/ BarrierBroadcast(t)
    <2>1. n' = n
      BY <1>1 DEF Call, BarrierLock, LoopAgain, LoopDone, BarrierCondWait, BarrierBroadcast, local
    <2> QED
      BY <1>1, <2>1, QuietSteps, SameArrivals DEF IInv
  <1>2. CASE EnterEarly(t)
    BY <1>2, EarlyArrival
  <1>3. CASE EnterLast(t)
    BY <1>3, LastArrival
  <1>4. CASE BarrierUnlock(t)
    <2>1. Arrived' = Arrived
      BY <1>4 DEF Arrived, CallState, BarrierUnlock, Unlock, Goto, local, IInv, TypeOK, LabelInv
    <2> QED
      BY <1>4, <2>1 DEF CountIsArrivals, Arrived, IInv, BarrierUnlock, local
  <1> QED
    BY <1>1, <1>2, <1>3, <1>4 DEF Step

\* Every step keeps the promise that a sleeper of a past cycle is ahead of a
\* broadcast in progress.
LEMMA StepNoLostWakeup ==
  ASSUME IInv, NEW t \in Threads, Call(t) \/ Step(t)
  PROVE  NoLostWakeup'
  <1> DEFINE Stuck(u) == pc[u] \in {"cw_unlock", "cw_spin"} /\ waiting[u] = C /\ myCycle[u] # cycle
             Ahead(b, u) == pc[b] = "bc_acquire" \/ (pc[b] \in BcastSection /\ scan[b] <= u)
  <1> SUFFICES ASSUME NEW u \in Threads, Stuck(u)'
               PROVE  \E b \in Threads : Ahead(b, u)'
    BY DEF NoLostWakeup
  <1> USE BarrierAssumption, NoCondAssumption DEF Goto, local, BcastSection
  <1>a. /\ pc \in [Threads -> Labels]
        /\ waiting \in [Threads -> {C, NoCond}]
        /\ scan \in [Threads -> 0 .. NThreads]
        /\ myCycle \in [Threads -> 0 .. CycleMod - 1]
    BY DEF IInv, TypeOK, SyncTypeOK
  <1>b. Stuck(u) => \E b \in Threads : Ahead(b, u)
    BY DEF IInv, NoLostWakeup
  <1>c. \A b \in Threads : pc[t] \in Inside /\ pc[b] \in Inside => t = b
    BY DEF IInv, MutexInv
  <1>d. u \in Int
    BY NThreadsAssumption DEF Threads
  <1>1. CASE Call(t)
    BY <1>a, <1>b, <1>1 DEF Call
  <1>2. CASE BarrierLock(t)
    BY <1>a, <1>b, <1>2 DEF BarrierLock, Lock
  <1>3. CASE EnterEarly(t)
    BY <1>a, <1>b, <1>3 DEF EnterEarly
  <1>4. CASE EnterLast(t)
    BY <1>a, <1>4 DEF EnterLast
  <1>5. CASE LoopAgain(t) \/ LoopDone(t)
    BY <1>a, <1>b, <1>5 DEF LoopAgain, LoopDone
  <1>6. CASE BarrierUnlock(t)
    BY <1>a, <1>b, <1>6 DEF BarrierUnlock, Unlock
  <1>7. CASE BarrierCondWait(t)
    <2>1. CASE CondPublish(t, C)
      <3>1. u # t
        BY <1>7, <2>1 DEF CondPublish, BarrierCondWait, IInv, LabelInv
      <3> QED
        BY <1>a, <1>b, <1>7, <2>1, <3>1 DEF CondPublish, BarrierCondWait
    <2>2. CASE CondUnlock(t, M)
      BY <1>a, <1>b, <1>7, <2>2 DEF CondUnlock, Unlock, BarrierCondWait
    <2>3. CASE CondWake(t, C) \/ CondLock(t, M, "b_loop")
      BY <1>a, <1>b, <1>7, <2>3 DEF CondWake, CondLock, Lock, BarrierCondWait
    <2> QED
      BY <1>7, <2>1, <2>2, <2>3 DEF BarrierCondWait, CondWait
  <1>8. CASE BarrierBroadcast(t)
    \* The only thread inside is the broadcaster t.
    <2>1. Stuck(u) => Ahead(t, u)
      BY <1>b, <1>c, <1>8 DEF Inside, BcastLabels, BarrierBroadcast, Broadcast, BcastAcquire,
                             BcastSkip, BcastFound, BcastClear, BcastRelease
    <2>2. CASE BcastAcquire(t)
      <3>1. scan'[t] = 0 /\ pc'[t] = "bc_test"
        BY <1>a, <2>2 DEF BcastAcquire
      <3> QED
        BY <3>1, NThreadsAssumption DEF Threads
    <2>3. CASE BcastSkip(t, C)
      BY <1>a, <1>d, <1>8, <2>1, <2>3 DEF BcastSkip, BarrierBroadcast
    <2>4. CASE BcastFound(t, C)
      BY <1>a, <1>8, <2>1, <2>4 DEF BcastFound, BarrierBroadcast
    <2>5. CASE BcastClear(t)
      <3>1. Stuck(u) /\ u # scan[t]
        BY <1>a, <1>8, <2>5 DEF BcastClear, BarrierBroadcast
      <3> QED
        BY <1>a, <1>d, <2>1, <2>5, <3>1 DEF BcastClear
    <2>6. CASE BcastRelease(t, "b_unlock")
      <3>1. Stuck(u)
        BY <1>a, <1>8, <2>6 DEF BcastRelease, BarrierBroadcast
      <3> QED
        BY <1>a, <1>d, <2>1, <2>6, <3>1, NThreadsAssumption DEF BcastRelease, Threads
    <2> QED
      BY <1>8, <2>2, <2>3, <2>4, <2>5, <2>6 DEF BarrierBroadcast, Broadcast
  <1> QED
    BY <1>1, <1>2, <1>3, <1>4, <1>5, <1>6, <1>7, <1>8 DEF Step

-----------------------------------------------------------------------------
\* The inductive invariant holds throughout every run of the barrier.
THEOREM Invariance == Spec => []IInv
  <1>1. Init => IInv
    BY InitIInv
  <1>2. IInv /\ [Next]_vars => IInv'
    <2> SUFFICES ASSUME IInv, [Next]_vars PROVE IInv'
      OBVIOUS
    <2>1. CASE UNCHANGED vars
      <3>1. TypeOK'
        BY StepTypeOK
      <3>2. MutexInv' /\ LabelInv' /\ NoLostWakeup'
        BY <2>1 DEF vars, IInv, MutexInv, LabelInv, NoLostWakeup
      <3>3. CountIsArrivals'
        BY <2>1, SameArrivals DEF vars, IInv, CallState
      <3> QED
        BY <3>1, <3>2, <3>3 DEF IInv
    <2>2. CASE Next
      <3> PICK t \in Threads : Call(t) \/ Step(t)
        BY <2>2 DEF Next
      <3> QED
        BY StepTypeOK, StepMutexInv, StepLabelInv, StepCount, StepNoLostWakeup DEF IInv
    <2> QED
      BY <2>1, <2>2
  <1> QED
    BY <1>1, <1>2, PTL DEF Spec

\* The counters and labels of djgthread_barrier_wait keep their types; in
\* particular barrier->n stays below the number of customers.
THEOREM TypeCorrect == Spec => []TypeOK
  <1>1. IInv => TypeOK
    BY DEF IInv
  <1> QED
    BY <1>1, Invariance, PTL

\* However many threads there are, djgthread_cond_broadcast leaves none of
\* the threads of a finished cycle asleep.
THEOREM WakeupsAreNotLost == Spec => []NoLostWakeup
  <1>1. IInv => NoLostWakeup
    BY DEF IInv
  <1> QED
    BY <1>1, Invariance, PTL

\* barrier->n is the number of calls waiting in the current cycle.
THEOREM CountIsExact == Spec => []CountIsArrivals
  <1>1. IInv => CountIsArrivals
    BY DEF IInv
  <1> QED
    BY <1>1, Invariance, PTL

\* djgthread_barrier_wait implements the abstract barrier for every number
\* of threads, and a cycle counter of two values is enough.
THEOREM Refinement == Spec => ImplementsBarrier
  <1> DEFINE pos == [t \in Threads |-> CallState(t)]
  <1>1. Init => Abstract!Init
    BY DEF Init, Abstract!Init, CallState
  <1>2. IInv /\ [Next]_vars => [Abstract!Next]_pos
    <2> SUFFICES ASSUME IInv, [Next]_vars PROVE [Abstract!Next]_pos
      OBVIOUS
    <2>1. CASE UNCHANGED vars
      BY <2>1 DEF vars, CallState
    <2>2. CASE Next
      <3> PICK t \in Threads : Call(t) \/ Step(t)
        BY <2>2 DEF Next
      <3>1. CASE Call(t) \/ BarrierLock(t) \/ LoopAgain(t) \/ LoopDone(t)
                 \/ BarrierCondWait(t) \/ BarrierBroadcast(t)
        <4>1. \A u \in Threads : CallState(u)' = CallState(u)
          BY <3>1, QuietSteps
        <4> QED
          BY <4>1
      <3>2. CASE EnterEarly(t)
        <4>1. CallState(t) = "outside" /\ CallState(t)' = "arrived"
          BY <3>2 DEF EnterEarly, Goto, CallState, IInv, TypeOK
        <4>2. \A u \in Threads \ {t} : CallState(u)' = CallState(u)
          BY <3>2 DEF EnterEarly, Goto, CallState, IInv, TypeOK
        <4>3. \E u \in Threads \ {t} : CallState(u) # "arrived"
          BY <3>2, EarlyArrival
        <4>4. pos' = [pos EXCEPT ![t] = "arrived"]
          BY <4>1, <4>2
        <4>5. Abstract!Arrive(t)
          BY <4>1, <4>3, <4>4 DEF Abstract!Arrive
        <4> QED
          BY <4>5 DEF Abstract!Next
      <3>3. CASE EnterLast(t)
        <4>1. /\ \A u \in Threads \ {t} : CallState(u) = "arrived" /\ CallState(u)' = "released"
              /\ CallState(t) = "outside" /\ CallState(t)' = "serial"
          BY <3>3, LastArrival
        <4>2. Abstract!ArriveLast(t)
          BY <4>1 DEF Abstract!ArriveLast
        <4> QED
          BY <4>2 DEF Abstract!Next
      <3>4. CASE BarrierUnlock(t)
        <4>1. CallState(t) \in {"released", "serial"}
          BY <3>4 DEF BarrierUnlock, Unlock, Goto, CallState, IInv, LabelInv
        <4>2. CallState(t)' = "outside"
          BY <3>4 DEF BarrierUnlock, Unlock, Goto, CallState, IInv, TypeOK
        <4>3. \A u \in Threads \ {t} : CallState(u)' = CallState(u)
          BY <3>4 DEF BarrierUnlock, Unlock, Goto, CallState, local, IInv, TypeOK
        <4>4. pos' = [pos EXCEPT ![t] = "outside"]
          BY <4>2, <4>3
        <4>5. Abstract!Leave(t)
          BY <4>1, <4>4 DEF Abstract!Leave
        <4> QED
          BY <4>5 DEF Abstract!Next
      <3> QED
        BY <3>1, <3>2, <3>3, <3>4 DEF Step
    <2> QED
      BY <2>1, <2>2
  <1> QED
    BY <1>1, <1>2, Invariance, PTL DEF Spec, ImplementsBarrier, Abstract!Spec
=============================================================================

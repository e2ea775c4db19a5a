-------------------------- MODULE DjgMonitor_proofs --------------------------
(* For any number of threads: the condition variables of djgthreads neither *)
(* strand a sleeper nor wake one of another condition, under a caller that  *)
(* signals after it has unlocked.                                           *)
EXTENDS DjgMonitor, TLAPS

MSection == {"m_loop", "m_unlock", "cw_publish", "cw_unlock"}

\* One thread at a time is in the sections that the two mutexes guard.
MutexInv ==
    /\ \A t \in Threads : pc[t] \in MSection => mutex[M] = 1
    /\ \A t \in Threads : pc[t] \in BcastSection => mutex[BcastMutex] = 1
    /\ \A t, u \in Threads : pc[t] \in MSection /\ pc[u] \in MSection => t = u
    /\ \A t, u \in Threads : pc[t] \in BcastSection /\ pc[u] \in BcastSection => t = u

\* A thread that is about to sleep has found its condition false, and nobody
\* can have made it true since.
SleepInv == \A t \in Threads : pc[t] = "cw_publish" => ~Holds(cv[t])

\* A thread publishes the condition of its operation, and only while it is in
\* djgthread_cond_wait.
PublishInv == \A t \in Threads :
    waiting[t] # NoCond => waiting[t] = cv[t] /\ pc[t] \in {"cw_unlock", "cw_spin"}

\* What a broadcast has found is still there when it stores.
FoundInv == \A b \in Threads :
    pc[b] = "bc_clear" => scan[b] \in Threads /\ waiting[scan[b]] = Other(cv[b])

IInv == TypeOK /\ MutexInv /\ SleepInv /\ PublishInv /\ FoundInv /\ NoStrandedWaiter

Facts == /\ M # BcastMutex /\ M \in Mutexes \cup {BcastMutex} /\ BcastMutex \in Mutexes \cup {BcastMutex}
         /\ Full \in Conds /\ Empty \in Conds /\ NoCond \notin Conds /\ Conds = {Full, Empty}
         /\ Full # Empty

LEMMA Constant == Facts
  BY MonitorAssumption, BcastMutexAssumption, NoCondAssumption DEF Facts

LEMMA OtherFacts ==
  ASSUME NEW c \in Conds
  PROVE  Other(c) \in Conds /\ Other(c) # c /\ \A d \in Conds : d = c \/ d = Other(c)
  BY Constant DEF Other, Facts

LEMMA Initially == Init => IInv
  <1> SUFFICES ASSUME Init PROVE IInv  OBVIOUS
  <1>1. TypeOK
    <2>1. 0 \in 0 .. NThreads  BY NThreadsAssumption
    <2>2. SyncTypeOK  BY <2>1, Constant DEF Init, SyncInit, SyncTypeOK, Facts
    <2>3. full \in BOOLEAN /\ cv \in [Threads -> Conds]  BY DEF Init
    <2>4. \A t \in Threads : pc[t] = "idle"  BY DEF Init
    <2>5. pc \in [Threads -> {"idle"}]  BY <2>4 DEF Init
    <2> QED  BY <2>2, <2>3, <2>5 DEF TypeOK
  <1> QED
    BY <1>1 DEF Init, SyncInit, IInv, MutexInv, SleepInv, PublishInv, FoundInv,
                NoStrandedWaiter, MSection, BcastSection, Threads

-----------------------------------------------------------------------------
(* The steps under M.                                                      *)

LEMMA StartKeeps ==
  ASSUME IInv, NEW t \in Threads, Start(t)
  PROVE  IInv'
  <1> USE DEF IInv, Start, Goto
  <1>1. TypeOK'  BY DEF TypeOK, SyncTypeOK
  <1>2. MutexInv'  BY DEF MutexInv, TypeOK, MSection, BcastSection
  <1>3. SleepInv'  BY DEF SleepInv, Holds, TypeOK
  <1>4. PublishInv'  BY DEF PublishInv, TypeOK
  <1>5. FoundInv'  BY DEF FoundInv, Other, TypeOK
  <1>6. NoStrandedWaiter'
    BY DEF NoStrandedWaiter, Reaches, Other, Holds, TypeOK, BcastSection
  <1> QED  BY <1>1, <1>2, <1>3, <1>4, <1>5, <1>6

LEMMA MonitorLockKeeps ==
  ASSUME IInv, NEW t \in Threads, MonitorLock(t)
  PROVE  IInv'
  <1> USE DEF IInv, MonitorLock, Lock, MM_ACQUIRE, Goto
  <1>1. TypeOK'  BY Constant DEF TypeOK, SyncTypeOK, Facts
  <1>2. MutexInv'  BY Constant DEF MutexInv, TypeOK, SyncTypeOK, MSection, BcastSection, Facts
  <1>3. SleepInv' /\ PublishInv' /\ FoundInv'
    BY DEF SleepInv, PublishInv, FoundInv, Holds, Other, TypeOK
  <1>4. NoStrandedWaiter'
    BY DEF NoStrandedWaiter, Reaches, Other, Holds, TypeOK, BcastSection
  <1> QED  BY <1>1, <1>2, <1>3, <1>4

LEMMA MonitorLoopKeeps ==
  ASSUME IInv, NEW t \in Threads, MonitorLoop(t)
  PROVE  IInv'
  <1> USE DEF IInv, MonitorLoop, Goto
  <1>1. TypeOK'  BY DEF TypeOK, SyncTypeOK
  <1>2. MutexInv'  BY DEF MutexInv, TypeOK, MSection, BcastSection
  <1>3. SleepInv' /\ PublishInv' /\ FoundInv'
    BY DEF SleepInv, PublishInv, FoundInv, Holds, Other, TypeOK
  <1>4. NoStrandedWaiter'
    BY DEF NoStrandedWaiter, Reaches, Other, Holds, TypeOK, BcastSection
  <1> QED  BY <1>1, <1>2, <1>3, <1>4

\* The buffer changes: the thread that changed it is to signal those for whom
\* the change is good.
LEMMA MonitorWorkKeeps ==
  ASSUME IInv, NEW t \in Threads, MonitorWork(t)
  PROVE  IInv'
  <1> USE DEF IInv, MonitorWork, Goto
  <1>1. TypeOK'  BY DEF TypeOK, SyncTypeOK
  <1>2. MutexInv'  BY DEF MutexInv, TypeOK, MSection, BcastSection
  <1>3. SleepInv'  BY DEF SleepInv, MutexInv, MSection, TypeOK
  <1>4. PublishInv' /\ FoundInv'  BY DEF PublishInv, FoundInv, Other, TypeOK
  <1>5. ASSUME NEW u \in Threads, pc'[u] \in {"cw_unlock", "cw_spin"}, waiting'[u] = cv'[u], Holds(cv[u])'
        PROVE  Reaches(t, cv[u], u)'
    <2>1. cv[u] \in Conds /\ cv[t] \in Conds /\ cv' = cv  BY DEF TypeOK
    <2>2. full \in BOOLEAN /\ full' = ~full  BY DEF TypeOK
    <2>3. ~Holds(cv[u]) /\ Holds(cv[t])
      BY <1>5, <2>1, <2>2 DEF Holds
    <2>4. cv[u] = Other(cv[t])  BY <2>1, <2>3, OtherFacts
    <2>5. pc'[t] = "m_unlock"  BY DEF TypeOK
    <2> QED  BY <2>1, <2>4, <2>5 DEF Reaches, Other
  <1>6. NoStrandedWaiter'  BY <1>5 DEF NoStrandedWaiter
  <1> QED  BY <1>1, <1>2, <1>3, <1>4, <1>6

LEMMA MonitorUnlockKeeps ==
  ASSUME IInv, NEW t \in Threads, MonitorUnlock(t)
  PROVE  IInv'
  <1> USE DEF IInv, MonitorUnlock, Unlock, MM_RELEASE, Goto
  <1>1. TypeOK'  BY Constant DEF TypeOK, SyncTypeOK, Facts
  <1>2. MutexInv'  BY Constant DEF MutexInv, TypeOK, SyncTypeOK, MSection, BcastSection, Facts
  <1>3. SleepInv' /\ PublishInv' /\ FoundInv'
    BY DEF SleepInv, PublishInv, FoundInv, Holds, Other, TypeOK
  <1>4. NoStrandedWaiter'
    BY DEF NoStrandedWaiter, Reaches, Other, Holds, TypeOK, BcastSection
  <1> QED  BY <1>1, <1>2, <1>3, <1>4

-----------------------------------------------------------------------------
(* djgthread_cond_wait.                                                    *)

\* The condition is false when the wait is published.
LEMMA PublishKeeps ==
  ASSUME IInv, NEW t \in Threads, CondPublish(t, cv[t]), UNCHANGED <<full, cv>>
  PROVE  IInv'
  <1> USE DEF IInv, CondPublish, Goto
  <1>1. TypeOK'  BY DEF TypeOK, SyncTypeOK
  <1>2. MutexInv'  BY DEF MutexInv, TypeOK, MSection, BcastSection
  <1>3. SleepInv'  BY DEF SleepInv, Holds, TypeOK
  <1>4. PublishInv'  BY DEF PublishInv, TypeOK, SyncTypeOK
  <1>5. FoundInv'
    <2>1. waiting[t] = NoCond  BY DEF PublishInv
    <2>2. \A b \in Threads : cv[b] \in Conds  BY DEF TypeOK
    <2>3. \A b \in Threads : pc[b] = "bc_clear" => scan[b] # t
      BY <2>1, <2>2, OtherFacts, Constant DEF FoundInv, Facts
    <2> QED  BY <2>3 DEF FoundInv, Other, TypeOK, SyncTypeOK
  <1>6. NoStrandedWaiter'
    <2>1. ~Holds(cv[t])'  BY DEF SleepInv, Holds
    <2>2. ASSUME NEW u \in Threads, u # t, pc'[u] \in {"cw_unlock", "cw_spin"}, waiting'[u] = cv'[u], Holds(cv[u])'
          PROVE  \E b \in Threads : Reaches(b, cv[u], u)'
      <3>1. pc[u] = pc'[u] /\ waiting[u] = cv[u] /\ Holds(cv[u])
        BY <2>2 DEF TypeOK, SyncTypeOK, Holds
      <3>2. PICK b \in Threads : Reaches(b, cv[u], u)
        BY <2>2, <3>1 DEF NoStrandedWaiter
      <3> QED  BY <3>2 DEF Reaches, Other, TypeOK, BcastSection
    <2> QED  BY <2>1, <2>2 DEF NoStrandedWaiter
  <1> QED  BY <1>1, <1>2, <1>3, <1>4, <1>5, <1>6

LEMMA UnlockKeeps ==
  ASSUME IInv, NEW t \in Threads, CondUnlock(t, M), UNCHANGED <<full, cv>>
  PROVE  IInv'
  <1> USE DEF IInv, CondUnlock, Unlock, MM_RELEASE, Goto
  <1>1. TypeOK'  BY Constant DEF TypeOK, SyncTypeOK, Facts
  <1>2. MutexInv'  BY Constant DEF MutexInv, TypeOK, SyncTypeOK, MSection, BcastSection, Facts
  <1>3. SleepInv' /\ PublishInv' /\ FoundInv'
    BY DEF SleepInv, PublishInv, FoundInv, Holds, Other, TypeOK
  <1>4. NoStrandedWaiter'
    BY DEF NoStrandedWaiter, Reaches, Other, Holds, TypeOK, BcastSection
  <1> QED  BY <1>1, <1>2, <1>3, <1>4

LEMMA WakeKeeps ==
  ASSUME IInv, NEW t \in Threads, CondWake(t, cv[t]), UNCHANGED <<full, cv>>
  PROVE  IInv'
  <1> USE DEF IInv, CondWake, Goto
  <1>1. TypeOK'  BY DEF TypeOK, SyncTypeOK
  <1>2. MutexInv'  BY DEF MutexInv, TypeOK, MSection, BcastSection
  <1>3. SleepInv' /\ PublishInv' /\ FoundInv'
    BY DEF SleepInv, PublishInv, FoundInv, Holds, Other, TypeOK
  <1>4. NoStrandedWaiter'
    BY DEF NoStrandedWaiter, Reaches, Other, Holds, TypeOK, BcastSection
  <1> QED  BY <1>1, <1>2, <1>3, <1>4

LEMMA RelockKeeps ==
  ASSUME IInv, NEW t \in Threads, CondLock(t, M, "m_loop"), UNCHANGED <<full, cv>>
  PROVE  IInv'
  <1> USE DEF IInv, CondLock, Lock, MM_ACQUIRE, Goto
  <1>1. TypeOK'  BY Constant DEF TypeOK, SyncTypeOK, Facts
  <1>2. MutexInv'  BY Constant DEF MutexInv, TypeOK, SyncTypeOK, MSection, BcastSection, Facts
  <1>3. SleepInv' /\ PublishInv' /\ FoundInv'
    BY DEF SleepInv, PublishInv, FoundInv, Holds, Other, TypeOK
  <1>4. NoStrandedWaiter'
    BY DEF NoStrandedWaiter, Reaches, Other, Holds, TypeOK, BcastSection
  <1> QED  BY <1>1, <1>2, <1>3, <1>4

-----------------------------------------------------------------------------
(* djgthread_cond_broadcast.                                               *)

LEMMA AcquireKeeps ==
  ASSUME IInv, NEW t \in Threads, BcastAcquire(t), UNCHANGED <<full, cv>>
  PROVE  IInv'
  <1> USE DEF IInv, BcastAcquire, MM_ACQUIRE, Goto
  <1>1. TypeOK'
    <2>1. 0 \in 0 .. NThreads  BY NThreadsAssumption
    <2> QED  BY <2>1, Constant DEF TypeOK, SyncTypeOK, BcastSection, Facts
  <1>2. MutexInv'  BY Constant DEF MutexInv, TypeOK, SyncTypeOK, MSection, BcastSection, Facts
  <1>3. SleepInv' /\ PublishInv' /\ FoundInv'
    BY DEF SleepInv, PublishInv, FoundInv, Holds, Other, TypeOK, SyncTypeOK
  <1>4. ASSUME NEW u \in Threads, NEW b \in Threads, Reaches(b, cv[u], u)
        PROVE  Reaches(b, cv[u], u)'
    <2>1. CASE b = t
      <3>1. scan'[t] = 0 /\ pc'[t] \in BcastSection /\ 0 <= u
        BY DEF TypeOK, SyncTypeOK, BcastSection, Threads
      <3> QED  BY <1>4, <2>1, <3>1 DEF Reaches, Other
    <2>2. CASE b # t
      BY <1>4, <2>2 DEF Reaches, Other, TypeOK, SyncTypeOK
    <2> QED  BY <2>1, <2>2
  <1>5. NoStrandedWaiter'
    BY <1>4 DEF NoStrandedWaiter, Holds, TypeOK
  <1> QED  BY <1>1, <1>2, <1>3, <1>5

\* The scan passes a thread only when that does not wait for the condition.
LEMMA SkipKeeps ==
  ASSUME IInv, NEW t \in Threads, BcastSkip(t, Other(cv[t])), UNCHANGED <<full, cv>>
  PROVE  IInv'
  <1> USE DEF IInv, BcastSkip
  <1>0. scan[t] \in 0 .. NThreads /\ scan[t] + 1 \in 0 .. NThreads
    BY NThreadsAssumption DEF TypeOK, SyncTypeOK
  <1>1. TypeOK'  BY <1>0 DEF TypeOK, SyncTypeOK
  <1>2. MutexInv'  BY DEF MutexInv
  <1>3. SleepInv' /\ PublishInv' /\ FoundInv'
    BY DEF SleepInv, PublishInv, FoundInv, Holds, Other, TypeOK, SyncTypeOK
  <1>4. ASSUME NEW u \in Threads, NEW b \in Threads, waiting[u] = cv[u], Reaches(b, cv[u], u)
        PROVE  Reaches(b, cv[u], u)'
    <2>1. CASE b = t
      <3>1. scan[t] <= u /\ Other(cv[t]) = cv[u]
        BY <1>4, <2>1 DEF Reaches
      <3>2. scan[t] # u  BY <1>4, <3>1
      <3>3. scan[t] + 1 <= u  BY <1>0, <3>1, <3>2 DEF Threads
      <3>4. scan'[t] = scan[t] + 1  BY DEF TypeOK, SyncTypeOK
      <3> QED  BY <1>4, <2>1, <3>3, <3>4 DEF Reaches, Other
    <2>2. CASE b # t
      BY <1>4, <2>2 DEF Reaches, Other, TypeOK, SyncTypeOK
    <2> QED  BY <2>1, <2>2
  <1>5. NoStrandedWaiter'
    BY <1>4 DEF NoStrandedWaiter, Holds
  <1> QED  BY <1>1, <1>2, <1>3, <1>5

LEMMA FindKeeps ==
  ASSUME IInv, NEW t \in Threads, BcastFound(t, Other(cv[t])), UNCHANGED <<full, cv>>
  PROVE  IInv'
  <1> USE DEF IInv, BcastFound, Goto
  <1>0. scan[t] \in Threads  BY NThreadsAssumption DEF TypeOK, SyncTypeOK, Threads
  <1>1. TypeOK'  BY DEF TypeOK, SyncTypeOK, BcastSection
  <1>2. MutexInv'  BY DEF MutexInv, TypeOK, MSection, BcastSection
  <1>3. SleepInv' /\ PublishInv'
    BY DEF SleepInv, PublishInv, Holds, TypeOK
  <1>4. FoundInv'  BY <1>0 DEF FoundInv, Other, TypeOK
  <1>5. NoStrandedWaiter'
    BY DEF NoStrandedWaiter, Reaches, Other, Holds, TypeOK, BcastSection
  <1> QED  BY <1>1, <1>2, <1>3, <1>4, <1>5

\* The thread that is freed waits for the condition of the broadcast, and no
\* other broadcast is between its test and its store.
LEMMA ClearKeeps ==
  ASSUME IInv, NEW t \in Threads, BcastClear(t), UNCHANGED <<full, cv>>
  PROVE  IInv'
  <1> USE DEF IInv, BcastClear, Goto
  <1>0. /\ scan[t] \in Threads /\ scan[t] + 1 \in 0 .. NThreads
        /\ waiting' = [waiting EXCEPT ![scan[t]] = NoCond]
    BY NThreadsAssumption DEF FoundInv, Threads
  <1>1. TypeOK'  BY <1>0 DEF TypeOK, SyncTypeOK, BcastSection
  <1>2. MutexInv'  BY DEF MutexInv, TypeOK, MSection, BcastSection
  <1>3. SleepInv' /\ PublishInv'
    BY <1>0 DEF SleepInv, PublishInv, Holds, TypeOK, SyncTypeOK
  <1>4. FoundInv'
    <2>1. \A b \in Threads : pc'[b] # "bc_clear"
      BY DEF MutexInv, TypeOK, BcastSection
    <2> QED  BY <2>1 DEF FoundInv
  <1>5. ASSUME NEW u \in Threads, NEW b \in Threads, u # scan[t], Reaches(b, cv[u], u)
        PROVE  Reaches(b, cv[u], u)'
    <2>1. CASE b = t
      <3>1. scan[t] <= u /\ Other(cv[t]) = cv[u]
        BY <1>5, <2>1 DEF Reaches
      <3>2. scan[t] + 1 <= u  BY <1>0, <1>5, <3>1 DEF Threads
      <3>3. scan'[t] = scan[t] + 1 /\ pc'[t] \in BcastSection
        BY DEF TypeOK, SyncTypeOK, BcastSection
      <3> QED  BY <1>5, <2>1, <3>2, <3>3 DEF Reaches, Other
    <2>2. CASE b # t
      BY <1>5, <2>2 DEF Reaches, Other, TypeOK, SyncTypeOK
    <2> QED  BY <2>1, <2>2
  <1>6. ASSUME NEW u \in Threads, pc'[u] \in {"cw_unlock", "cw_spin"}, waiting'[u] = cv'[u], Holds(cv[u])'
        PROVE  \E b \in Threads : Reaches(b, cv[u], u)'
    <2>1. u # scan[t]
      BY <1>0, <1>6, Constant DEF TypeOK, SyncTypeOK, Facts
    <2>2. pc[u] \in {"cw_unlock", "cw_spin"} /\ waiting[u] = cv[u] /\ Holds(cv[u])
      BY <1>0, <1>6, <2>1 DEF TypeOK, SyncTypeOK, Holds
    <2>3. PICK b \in Threads : Reaches(b, cv[u], u)  BY <2>2 DEF NoStrandedWaiter
    <2> QED  BY <1>5, <2>1, <2>3
  <1>7. NoStrandedWaiter'  BY <1>6 DEF NoStrandedWaiter
  <1> QED  BY <1>1, <1>2, <1>3, <1>4, <1>7

\* The scan has passed every thread.
LEMMA ReleaseKeeps ==
  ASSUME IInv, NEW t \in Threads, BcastRelease(t, "idle"), UNCHANGED <<full, cv>>
  PROVE  IInv'
  <1> USE DEF IInv, BcastRelease, MM_RELEASE, Goto
  <1>1. TypeOK'  BY Constant DEF TypeOK, SyncTypeOK, Facts
  <1>2. MutexInv'  BY Constant DEF MutexInv, TypeOK, SyncTypeOK, MSection, BcastSection, Facts
  <1>3. SleepInv' /\ PublishInv' /\ FoundInv'
    BY DEF SleepInv, PublishInv, FoundInv, Holds, Other, TypeOK
  <1>4. ASSUME NEW u \in Threads, NEW b \in Threads, Reaches(b, cv[u], u)
        PROVE  Reaches(b, cv[u], u)'
    <2>1. b # t
      BY <1>4, NThreadsAssumption DEF Reaches, Threads
    <2> QED  BY <1>4, <2>1 DEF Reaches, Other, TypeOK
  <1>5. NoStrandedWaiter'
    BY <1>4 DEF NoStrandedWaiter, Holds, TypeOK
  <1> QED  BY <1>1, <1>2, <1>3, <1>5

-----------------------------------------------------------------------------
LEMMA StutterKeeps == IInv /\ UNCHANGED vars => IInv'
  BY DEF IInv, vars, TypeOK, SyncTypeOK, MutexInv, SleepInv, PublishInv, FoundInv,
         NoStrandedWaiter, Reaches, Holds, Other

LEMMA Inductive == IInv /\ [Next]_vars => IInv'
  <1> SUFFICES ASSUME IInv, Next PROVE IInv'
    BY StutterKeeps
  <1>1. PICK t \in Threads : \/ Start(t) \/ MonitorLock(t) \/ MonitorLoop(t) \/ MonitorWork(t)
                             \/ MonitorUnlock(t) \/ MonitorWait(t) \/ MonitorSignal(t)
    BY DEF Next
  <1>2. CASE MonitorWait(t)
    BY <1>2, PublishKeeps, UnlockKeeps, WakeKeeps, RelockKeeps DEF MonitorWait, CondWait
  <1>3. CASE MonitorSignal(t)
    BY <1>3, AcquireKeeps, SkipKeeps, FindKeeps, ClearKeeps, ReleaseKeeps DEF MonitorSignal, Broadcast
  <1> QED
    BY <1>1, <1>2, <1>3, StartKeeps, MonitorLockKeeps, MonitorLoopKeeps, MonitorWorkKeeps,
       MonitorUnlockKeeps

LEMMA Invariance == Spec => []IInv
  BY Initially, Inductive, PTL DEF Spec

\* The words, scan indices and labels keep their types, for any number of
\* threads.
THEOREM MonitorTypeOK == Spec => []TypeOK
  <1>1. IInv => TypeOK  BY DEF IInv
  <1> QED  BY <1>1, Invariance, PTL

\* A sleeper whose condition has come true is still ahead of a broadcast.
THEOREM NobodyIsStranded == Spec => []NoStrandedWaiter
  <1>1. IInv => NoStrandedWaiter  BY DEF IInv
  <1> QED  BY <1>1, Invariance, PTL

\* djgthread_cond_broadcast clears the field of no thread that waits for
\* another condition.
THEOREM WakeupsAreOwn == Spec => NoForeignWakeup
  <1> DEFINE Right == \A b \in Threads : pc[b] = "bc_clear" => waiting[scan[b]] = Other(cv[b])
  <1>1. IInv => Right  BY DEF IInv, FoundInv
  <1>2. Right => [\A b \in Threads : pc[b] = "bc_clear" /\ pc'[b] # "bc_clear"
                                        => waiting[scan[b]] = Other(cv[b])]_vars
    OBVIOUS
  <1> QED  BY <1>1, <1>2, Invariance, PTL DEF NoForeignWakeup
=============================================================================

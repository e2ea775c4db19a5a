----------------------------- MODULE DjgBarrier -----------------------------
(* djgthread_barrier_wait (djgthread.c), built on the mutex, the condition *)
(* variable and the broadcast of DjgSync.  The threads are those of        *)
(* tests/barriertest.c: each calls the barrier again and again, and all of *)
(* them are its customers.                                                 *)
(*                                                                         *)
(* barrier->cycle is an int that is only incremented and compared for      *)
(* equality; CycleMod is its number of values.                             *)
EXTENDS DjgSync, FiniteSets

CONSTANTS
    M, C,       \* the mutex and the condition variable inside the barrier
    CycleMod    \* the number of values of the int barrier->cycle

ASSUME BarrierAssumption == Mutexes = {M} /\ Conds = {C}
ASSUME CycleModAssumption == CycleMod \in Nat /\ CycleMod >= 2

VARIABLES
    n,          \* barrier->n, the calls of this cycle so far
    cycle,      \* barrier->cycle
    myCycle,    \* the local variable "cycle" of each call
    rc          \* the local variable "rc": TRUE for the serial thread's code

vars == <<mutex, waiting, scan, pc, n, cycle, myCycle, rc>>
local == <<n, cycle, myCycle, rc>>

\* barrier->customers
Customers == NThreads

-----------------------------------------------------------------------------
\* djgthread_barrier_init
Init == /\ SyncInit
        /\ pc = [t \in Threads |-> "idle"]
        /\ n = 0
        /\ cycle = 0
        /\ myCycle = [t \in Threads |-> 0]
        /\ rc = [t \in Threads |-> FALSE]

Call(t) == /\ Goto(t, "idle", "b_lock")
           /\ UNCHANGED <<mutex, waiting, scan, local>>

BarrierLock(t) == /\ Lock(t, M, "b_lock", "b_enter")
                  /\ UNCHANGED local

\* ++n < customers: remember the cycle and wait for it to change.
EnterEarly(t) == /\ Goto(t, "b_enter", "b_loop")
                 /\ n + 1 < Customers
                 /\ n' = n + 1
                 /\ myCycle' = [myCycle EXCEPT ![t] = cycle]
                 /\ rc' = [rc EXCEPT ![t] = FALSE]
                 /\ UNCHANGED <<mutex, waiting, scan, cycle>>

\* A form that does not reset the count.
EnterLastNoReset(t) == /\ Goto(t, "b_enter", "bc_acquire")
                       /\ n + 1 >= Customers
                       /\ n' = n + 1
                       /\ cycle' = (cycle + 1) % CycleMod
                       /\ rc' = [rc EXCEPT ![t] = TRUE]
                       /\ UNCHANGED <<mutex, waiting, scan, myCycle>>

\* A form that does not start a new cycle.
EnterLastSameCycle(t) == /\ Goto(t, "b_enter", "bc_acquire")
                         /\ n + 1 >= Customers
                         /\ n' = 0
                         /\ rc' = [rc EXCEPT ![t] = TRUE]
                         /\ UNCHANGED <<mutex, waiting, scan, cycle, myCycle>>

\* The last thread in: reset the count, start a new cycle, wake the others.
EnterLast(t) == /\ Goto(t, "b_enter", "bc_acquire")
                /\ n + 1 >= Customers
                /\ n' = 0
                /\ cycle' = (cycle + 1) % CycleMod
                /\ rc' = [rc EXCEPT ![t] = TRUE]
                /\ UNCHANGED <<mutex, waiting, scan, myCycle>>

\* while (cycle == barrier->cycle) djgthread_cond_wait(...)
LoopAgain(t) == /\ Goto(t, "b_loop", "cw_publish")
                /\ myCycle[t] = cycle
                /\ UNCHANGED <<mutex, waiting, scan, local>>

LoopDone(t) == /\ Goto(t, "b_loop", "b_unlock")
               /\ myCycle[t] # cycle
               /\ UNCHANGED <<mutex, waiting, scan, local>>

BarrierUnlock(t) == /\ Unlock(t, M, "b_unlock", "idle")
                    /\ UNCHANGED local

BarrierCondWait(t) == /\ CondWait(t, C, M, "b_loop")
                      /\ UNCHANGED local

BarrierBroadcast(t) == /\ Broadcast(t, C, "b_unlock")
                       /\ UNCHANGED local

\* One step of djgthread_barrier_wait, its callees included.
Step(t) == \/ BarrierLock(t)
           \/ EnterEarly(t)
           \/ EnterLast(t)
           \/ LoopAgain(t)
           \/ LoopDone(t)
           \/ BarrierUnlock(t)
           \/ BarrierCondWait(t)
           \/ BarrierBroadcast(t)

Next == \E t \in Threads : Call(t) \/ Step(t)

Spec == Init /\ [][Next]_vars

\* Every core keeps executing (its spin loops included), and each thread of
\* barriertest.c calls the barrier again after it has returned.
Fairness == \A t \in Threads : WF_vars(Call(t)) /\ WF_vars(Step(t))

FairSpec == Spec /\ Fairness

-----------------------------------------------------------------------------
WaitLabels == {"b_loop", "cw_publish", "cw_unlock", "cw_spin", "cw_lock"}
BcastLabels == {"bc_acquire"} \cup BcastSection
Labels == {"idle", "b_lock", "b_enter", "b_unlock"} \cup WaitLabels \cup BcastLabels

\* The labels at which a thread owns the barrier's mutex.
Inside == {"b_enter", "b_loop", "cw_publish", "cw_unlock", "b_unlock"} \cup BcastLabels

\* What the call of thread t looks like to its caller.
CallState(t) ==
    IF pc[t] \in {"idle", "b_lock", "b_enter"} THEN "outside"
    ELSE IF rc[t] THEN "serial"
    ELSE IF myCycle[t] = cycle THEN "arrived" ELSE "released"

\* The counters, indices and labels keep their types.
TypeOK == /\ SyncTypeOK
          /\ pc \in [Threads -> Labels]
          /\ n \in 0 .. Customers - 1
          /\ cycle \in 0 .. CycleMod - 1
          /\ myCycle \in [Threads -> 0 .. CycleMod - 1]
          /\ rc \in [Threads -> BOOLEAN]

\* djgthread_cond_broadcast loses nobody: a thread that still spins in
\* djgthread_cond_wait although its cycle is over is one that a broadcast in
\* progress has yet to visit.
NoLostWakeup ==
    \A t \in Threads :
        (pc[t] \in {"cw_unlock", "cw_spin"} /\ waiting[t] = C /\ myCycle[t] # cycle)
        => \E b \in Threads : \/ pc[b] = "bc_acquire"
                              \/ pc[b] \in BcastSection /\ scan[b] <= t

\* barrier->n counts the calls that wait in the current cycle, although the
\* threads of the previous cycle may not have left cond_wait yet.
CountIsArrivals == n = Cardinality({t \in Threads : CallState(t) = "arrived"})

\* djgthread_barrier_wait is a barrier: a call returns only after every
\* customer has called, and one call in each cycle gets the serial code.
Abstract == INSTANCE Barrier WITH Customers <- Threads,
                                 where <- [t \in Threads |-> CallState(t)]
ImplementsBarrier == Abstract!Spec

\* No call of djgthread_barrier_wait blocks for ever, whatever the order in
\* which the cores win the mutex.
EveryCallReturns == \A t \in Threads : pc[t] = "b_lock" ~> pc[t] = "idle"

-----------------------------------------------------------------------------
(* The inductive invariant behind these properties.                        *)

\* The mutex word is 1 exactly when one thread is in the section it guards.
MutexInv == /\ \A t, u \in Threads : pc[t] \in Inside /\ pc[u] \in Inside => t = u
            /\ \A t \in Threads : pc[t] \in Inside => mutex[M] = 1
            /\ \A t \in Threads : pc[t] \in BcastSection => mutex[BcastMutex] = 1

\* What a thread's label says about its variables.
LabelInv ==
    \A t \in Threads :
        /\ pc[t] \in BcastLabels => rc[t]
        /\ pc[t] \in WaitLabels => ~rc[t]
        /\ pc[t] \in {"cw_publish", "cw_unlock"} => myCycle[t] = cycle
        /\ pc[t] = "b_unlock" => rc[t] \/ myCycle[t] # cycle
        /\ waiting[t] = C => pc[t] \in {"cw_unlock", "cw_spin"}
        /\ pc[t] = "bc_clear" => scan[t] < NThreads /\ waiting[scan[t]] = C

IInv == TypeOK /\ MutexInv /\ LabelInv /\ CountIsArrivals /\ NoLostWakeup
=============================================================================

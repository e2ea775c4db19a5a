----------------------------- MODULE DjgMonitor -----------------------------
(* The condition variables of djgthreads under a caller that uses several  *)
(* of them: a one-place buffer, with one mutex and a condition variable    *)
(* for each of its two states.  Unlike the barrier, which broadcasts with  *)
(* its mutex held, this caller signals after it has unlocked, so           *)
(* broadcasts of different threads compete for bcast_mutex and a thread    *)
(* may be on its next wait while an older broadcast still runs.            *)
(*                                                                         *)
(* The caller is the environment of DjgSync; it follows the rule of        *)
(* djgthread_cond_wait: test the predicate again after every return.       *)
EXTENDS DjgSync

CONSTANTS M, Full, Empty    \* the mutex, and "is full" / "is empty"

ASSUME MonitorAssumption == Mutexes = {M} /\ Conds = {Full, Empty} /\ Full # Empty

VARIABLES full,     \* the state of the buffer
          cv        \* the condition each thread's operation waits for

vars == <<mutex, waiting, scan, pc, full, cv>>

\* The predicate that goes with a condition variable, and its opposite.
Holds(c) == full = (c = Full)
Other(c) == IF c = Full THEN Empty ELSE Full

-----------------------------------------------------------------------------
Init == /\ SyncInit
        /\ pc = [t \in Threads |-> "idle"]
        /\ full = FALSE
        /\ cv \in [Threads -> Conds]

\* A thread starts to consume (waits for Full) or to produce (for Empty).
Start(t) == \E c \in Conds : /\ Goto(t, "idle", "m_lock")
                             /\ cv' = [cv EXCEPT ![t] = c]
                             /\ UNCHANGED <<mutex, waiting, scan, full>>

MonitorLock(t) == /\ Lock(t, M, "m_lock", "m_loop")
                  /\ UNCHANGED <<full, cv>>

MonitorLoop(t) == /\ Goto(t, "m_loop", "cw_publish")
                  /\ ~Holds(cv[t])
                  /\ UNCHANGED <<mutex, waiting, scan, full, cv>>

\* The predicate holds: take or fill the place.
MonitorWork(t) == /\ Goto(t, "m_loop", "m_unlock")
                  /\ Holds(cv[t])
                  /\ full' = ~full
                  /\ UNCHANGED <<mutex, waiting, scan, cv>>

\* Unlock, then signal the threads that wait for the opposite state.
MonitorUnlock(t) == /\ Unlock(t, M, "m_unlock", "bc_acquire")
                    /\ UNCHANGED <<full, cv>>

MonitorWait(t) == /\ CondWait(t, cv[t], M, "m_loop")
                  /\ UNCHANGED <<full, cv>>

MonitorSignal(t) == /\ Broadcast(t, Other(cv[t]), "idle")
                    /\ UNCHANGED <<full, cv>>

Next == \E t \in Threads : \/ Start(t)
                           \/ MonitorLock(t)
                           \/ MonitorLoop(t)
                           \/ MonitorWork(t)
                           \/ MonitorUnlock(t)
                           \/ MonitorWait(t)
                           \/ MonitorSignal(t)

Spec == Init /\ [][Next]_vars

-----------------------------------------------------------------------------
\* The words, indices and labels keep their types.
TypeOK == /\ SyncTypeOK
          /\ full \in BOOLEAN
          /\ cv \in [Threads -> Conds]
          /\ pc \in [Threads -> {"idle", "m_lock", "m_loop", "m_unlock", "cw_publish",
                                 "cw_unlock", "cw_spin", "cw_lock", "bc_acquire"}
                                \cup BcastSection]

\* Thread b is going to signal c and has not gone past thread t.
Reaches(b, c, t) == /\ Other(cv[b]) = c
                    /\ \/ pc[b] \in {"m_unlock", "bc_acquire"}
                       \/ pc[b] \in BcastSection /\ scan[b] <= t

\* A thread that sleeps in djgthread_cond_wait although what it waits for has
\* come true is one that some djgthread_cond_broadcast will still reach, even
\* though the broadcast runs after the mutex was freed.
NoStrandedWaiter ==
    \A t \in Threads :
        (pc[t] \in {"cw_unlock", "cw_spin"} /\ waiting[t] = cv[t] /\ Holds(cv[t]))
        => \E b \in Threads : Reaches(b, cv[t], t)

\* djgthread_cond_broadcast(c) frees only threads that wait for c: the test of
\* the field and the store to it are two accesses, and no thread may have been
\* freed and gone to sleep on another condition in between.
NoForeignWakeup ==
    [][\A b \in Threads :
          pc[b] = "bc_clear" /\ pc'[b] # "bc_clear"
          => waiting[scan[b]] = Other(cv[b])]_vars
=============================================================================

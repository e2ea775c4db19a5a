------------------------------ MODULE DjgSync ------------------------------
(* The blocking primitives of the djgthreads library, which every          *)
(* multi-core program on the Prazor platform is linked with                *)
(* (vhls/src/crt/djgthreads/djgthread.c): the mutex, the condition         *)
(* variable and the broadcast.  A thread is its own processor core, so     *)
(* each action below is one access to shared memory by one core, and any   *)
(* interleaving of them is possible.                                       *)
(*                                                                         *)
(* The module holds the steps; DjgBarrier and DjgMonitor extend it with    *)
(* two callers.  A step takes the label it returns to as a parameter.      *)
(*                                                                         *)
(* djgthread_self takes and frees hwm_mutex around one load.  Nothing is   *)
(* acquired inside that section and the value loaded never changes while   *)
(* the thread runs, so the call is not a step of its own.                  *)
EXTENDS Integers

CONSTANTS
    NThreads,   \* _djg_nexttid once every thread has been created
    Mutexes,    \* the mutex words of the program, bcast_mutex apart
    Conds,      \* the addresses of the condition variables
    BcastMutex, \* the static mutex inside djgthread_cond_broadcast
    NoCond      \* the null pointer in a thread's "waiting" field

ASSUME NThreadsAssumption == NThreads \in Nat \ {0}
ASSUME BcastMutexAssumption == BcastMutex \notin Mutexes
ASSUME NoCondAssumption == NoCond \notin Conds

\* Thread identifiers index _djg_Threads; the main thread is 0.
Threads == 0 .. NThreads - 1

VARIABLES
    mutex,    \* every mutex word: 0 free, 1 taken
    waiting,  \* _djg_Threads[t].waiting
    scan,     \* the loop variable i of djgthread_cond_broadcast, per thread
    pc        \* where each thread is

-----------------------------------------------------------------------------
\* Control moves from one label to another.
Goto(t, from, to) == /\ pc[t] = from
                     /\ pc' = [pc EXCEPT ![t] = to]

\* A form that counts its owners instead of waiting for the word to be 0.
MM_ACQUIRECounting(m) == mutex' = [mutex EXCEPT ![m] = @ + 1]

\* _simple_mutex_lock, seen as the indivisible access that wins the word.
MM_ACQUIRE(m) == /\ mutex[m] = 0
                 /\ mutex' = [mutex EXCEPT ![m] = 1]

\* _simple_mutex_unlock: an unconditional store.
MM_RELEASE(m) == mutex' = [mutex EXCEPT ![m] = 0]

\* djgthread_mutex_lock, called at label "from".
Lock(t, m, from, to) == /\ Goto(t, from, to)
                        /\ MM_ACQUIRE(m)
                        /\ UNCHANGED <<waiting, scan>>

\* djgthread_mutex_unlock.
Unlock(t, m, from, to) == /\ Goto(t, from, to)
                          /\ MM_RELEASE(m)
                          /\ UNCHANGED <<waiting, scan>>

-----------------------------------------------------------------------------
\* djgthread_cond_wait(c, m): publish the condition, free the mutex, spin
\* until somebody clears the field, take the mutex again.
CondPublish(t, c) == /\ Goto(t, "cw_publish", "cw_unlock")
                     /\ waiting' = [waiting EXCEPT ![t] = c]
                     /\ UNCHANGED <<mutex, scan>>

CondUnlock(t, m) == Unlock(t, m, "cw_unlock", "cw_spin")

CondWake(t, c) == /\ Goto(t, "cw_spin", "cw_lock")
                  /\ waiting[t] # c
                  /\ UNCHANGED <<mutex, waiting, scan>>

CondLock(t, m, ret) == Lock(t, m, "cw_lock", ret)

\* A form that frees the mutex before it publishes the condition.
CondWaitLate(t, c, m, ret) == \/ Unlock(t, m, "cw_publish", "cw_unlock")
                              \/ /\ Goto(t, "cw_unlock", "cw_spin")
                                 /\ waiting' = [waiting EXCEPT ![t] = c]
                                 /\ UNCHANGED <<mutex, scan>>
                              \/ CondWake(t, c)
                              \/ CondLock(t, m, ret)

CondWait(t, c, m, ret) == \/ CondPublish(t, c)
                          \/ CondUnlock(t, m)
                          \/ CondWake(t, c)
                          \/ CondLock(t, m, ret)

-----------------------------------------------------------------------------
\* A form whose loop starts at the first created thread, not at main.
BcastAcquireFromOne(t) == /\ Goto(t, "bc_acquire", "bc_test")
                          /\ MM_ACQUIRE(BcastMutex)
                          /\ scan' = [scan EXCEPT ![t] = 1]
                          /\ UNCHANGED waiting

\* A form that does without the static mutex.
BcastAcquireUnlocked(t) == /\ Goto(t, "bc_acquire", "bc_test")
                           /\ scan' = [scan EXCEPT ![t] = 0]
                           /\ UNCHANGED <<mutex, waiting>>

\* djgthread_cond_broadcast(c): under bcast_mutex, visit every thread in
\* index order and clear the field of those that wait for c.  The test of
\* the field and the store to it are two accesses.
BcastAcquire(t) == /\ Goto(t, "bc_acquire", "bc_test")
                   /\ MM_ACQUIRE(BcastMutex)
                   /\ scan' = [scan EXCEPT ![t] = 0]
                   /\ UNCHANGED waiting

BcastSkip(t, c) == /\ pc[t] = "bc_test"
                   /\ scan[t] < NThreads
                   /\ waiting[scan[t]] # c
                   /\ scan' = [scan EXCEPT ![t] = @ + 1]
                   /\ UNCHANGED <<mutex, waiting, pc>>

BcastFound(t, c) == /\ Goto(t, "bc_test", "bc_clear")
                    /\ scan[t] < NThreads
                    /\ waiting[scan[t]] = c
                    /\ UNCHANGED <<mutex, waiting, scan>>

BcastClear(t) == /\ Goto(t, "bc_clear", "bc_test")
                 /\ waiting' = [waiting EXCEPT ![scan[t]] = NoCond]
                 /\ scan' = [scan EXCEPT ![t] = @ + 1]
                 /\ UNCHANGED mutex

BcastRelease(t, ret) == /\ Goto(t, "bc_test", ret)
                        /\ scan[t] = NThreads
                        /\ MM_RELEASE(BcastMutex)
                        /\ UNCHANGED <<waiting, scan>>

Broadcast(t, c, ret) == \/ BcastAcquire(t)
                        \/ BcastSkip(t, c)
                        \/ BcastFound(t, c)
                        \/ BcastClear(t)
                        \/ BcastRelease(t, ret)

-----------------------------------------------------------------------------
\* djgthread_mutex_init, djgthread_cond_init and the zeroed thread table.
SyncInit == /\ mutex = [m \in Mutexes \cup {BcastMutex} |-> 0]
            /\ waiting = [t \in Threads |-> NoCond]
            /\ scan = [t \in Threads |-> 0]

SyncTypeOK == /\ mutex \in [Mutexes \cup {BcastMutex} -> {0, 1}]
              /\ waiting \in [Threads -> Conds \cup {NoCond}]
              /\ scan \in [Threads -> 0 .. NThreads]

\* The labels at which a broadcast holds bcast_mutex.
BcastSection == {"bc_test", "bc_clear"}
=============================================================================

----------------------------- MODULE ArmMutex -----------------------------
(* The mutexes that djgthread.c takes with MM_ACQUIRE and frees with       *)
(* MM_RELEASE, at the level of the accesses to memory:                     *)
(*   "simple"  arm32_crt.S's _simple_mutex_lock and _simple_mutex_unlock,  *)
(*             which frees with an ordinary store                          *)
(*   "tas"     _archglue_test_and_set, with 1 to take and 0 to free        *)
(* A core takes and frees locks in any order and may hold several.         *)
EXTENDS LLSC

CONSTANTS
    Routine,        \* the routines each lock is used with: "simple" or "tas"
    DataGranules    \* granules with other data, to which cores store as well

ASSUME RoutineAssumption == Routine \in [Locks -> {"simple", "tas"}]
\* Stands for the owner of a free mutex.
Nobody == "nobody"
ASSUME NobodyAssumption == Nobody \notin Cores
ASSUME DataAssumption == DataGranules \subseteq Granules

VARIABLES
    pc,     \* "idle", or the access to be made next: "ldrex" or "strex"
    lock,   \* the lock of the call in progress, r0
    wdata,  \* the value to store, r1
    old,    \* the value loaded: r2 or r3
    held    \* the locks each core holds

vars == <<memory, pc, lock, wdata, old, held>>
Status == {"idle", "ldrex", "strex"}

Init == /\ MemoryInit
        /\ pc = [c \in Cores |-> "idle"]
        /\ lock \in [Cores -> Locks]
        /\ wdata = [c \in Cores |-> 0]
        /\ old = [c \in Cores |-> 0]
        /\ held = [c \in Cores |-> {}]

Goto(c, from, to) == pc[c] = from /\ pc' = [pc EXCEPT ![c] = to]

-----------------------------------------------------------------------------
\* Calls.  A core does not take a lock it has: it would wait for itself.
CallLock(c, l) == /\ Goto(c, "idle", "ldrex")
                  /\ l \notin held[c]
                  /\ lock' = [lock EXCEPT ![c] = l]
                  /\ wdata' = [wdata EXCEPT ![c] = 1]
                  /\ UNCHANGED <<memory, old, held>>

\* MM_RELEASE with _archglue_test_and_set.
CallUnlock(c, l) == /\ Routine[l] = "tas"
                    /\ Goto(c, "idle", "ldrex")
                    /\ l \in held[c]
                    /\ lock' = [lock EXCEPT ![c] = l]
                    /\ wdata' = [wdata EXCEPT ![c] = 0]
                    /\ UNCHANGED <<memory, old, held>>

\* _simple_mutex_unlock: one ordinary store.
SimpleUnlock(c, l) == /\ Routine[l] = "simple"
                      /\ pc[c] = "idle"
                      /\ l \in held[c]
                      /\ PlainStore(GranuleOf[l])
                      /\ word' = [word EXCEPT ![l] = 0]
                      /\ held' = [held EXCEPT ![c] = @ \ {l}]
                      /\ UNCHANGED <<pc, lock, wdata, old>>

\* ldrex; _simple_mutex_lock loads again until the word is 0.
Ldrex(c) == /\ pc[c] = "ldrex"
            /\ LoadLinked(c, GranuleOf[lock[c]])
            /\ old' = [old EXCEPT ![c] = word[lock[c]]]
            /\ pc' = [pc EXCEPT ![c] =
                        IF Routine[lock[c]] = "simple" /\ word[lock[c]] # 0 THEN "ldrex" ELSE "strex"]
            /\ UNCHANGED <<word, lock, wdata, held>>

\* strex, stored.  The caller of test_and_set tries again when the old value
\* says that the lock was taken; the store made no difference then.
StrexDone(c) ==
    /\ pc[c] = "strex"
    /\ StoreConditional(c, lock[c], wdata[c])
    /\ IF wdata[c] = 0
       THEN /\ pc' = [pc EXCEPT ![c] = "idle"]
            /\ held' = [held EXCEPT ![c] = @ \ {lock[c]}]
       ELSE IF old[c] = 0
       THEN /\ pc' = [pc EXCEPT ![c] = "idle"]
            /\ held' = [held EXCEPT ![c] = @ \cup {lock[c]}]
       ELSE /\ pc' = [pc EXCEPT ![c] = "ldrex"]
            /\ UNCHANGED held
    /\ UNCHANGED <<lock, wdata, old>>

\* strex, refused: start again.
StrexFailed(c) == /\ Goto(c, "strex", "ldrex")
                  /\ StoreConditionalFails(c, lock[c])
                  /\ UNCHANGED <<lock, wdata, old, held>>

\* An ordinary store to some other data.
StoreData(c, g) == /\ pc[c] = "idle"
                   /\ PlainStore(g)
                   /\ UNCHANGED <<word, pc, lock, wdata, old, held>>

Step(c) == Ldrex(c) \/ StrexDone(c) \/ StrexFailed(c)

Client(c) == \/ \E l \in Locks : CallLock(c, l) \/ CallUnlock(c, l) \/ SimpleUnlock(c, l)
             \/ \E g \in DataGranules : StoreData(c, g)

Next == \E c \in Cores : Step(c) \/ Client(c)

Spec == Init /\ [][Next]_vars

\* A core executes the routine it is in.
FairSpec == Spec /\ \A c \in Cores : WF_vars(Step(c))

-----------------------------------------------------------------------------
\* The reservation slots and the registers keep their types, and the two
\* slots never reserve the same granule.
TypeOK == /\ word \in [Locks -> 0 .. 1]
          /\ slot \in [Slot -> [a : Granules \cup {NoAddress}, id : Cores \cup {Anonymous}]]
          /\ slot[0].a = slot[1].a => slot[0].a = NoAddress
          /\ pc \in [Cores -> Status]
          /\ lock \in [Cores -> Locks]
          /\ wdata \in [Cores -> 0 .. 1]
          /\ old \in [Cores -> 0 .. 1]
          /\ held \in [Cores -> SUBSET Locks]

\* No two cores are inside the same mutex.
MutualExclusion == \A c, d \in Cores : c # d => held[c] \cap held[d] = {}

\* A lock word is 1 exactly while some core holds the lock: a store that comes
\* late leaves no lock taken that nobody will free, nor free one that is held.
WordIsOwnership == \A l \in Locks : word[l] = 1 <=> \E c \in Cores : l \in held[c]

\* What load-linked and store-conditional are for: while a core's reservation
\* stands, the word is as it was loaded.  An ordinary store that frees a mutex
\* does not take reservations away in every memory, and need not.
ReservationMeansUnchanged ==
    \A c \in Cores : pc[c] = "strex" /\ Reserved(c, GranuleOf[lock[c]]) => old[c] = word[lock[c]]

\* A core alone in the routine, with its lock free, gets through, unless other
\* cores keep taking its reservation with stores to data beside the lock.
\* Reservations that other cores left behind do not keep it out.
Alone(c) == /\ pc[c] # "idle"
            /\ wdata[c] = 1 => word[lock[c]] = 0
            /\ \A d \in Cores \ {c} : pc[d] = "idle"
Disturbance == \E c \in Cores, g \in DataGranules : StoreData(c, g)
LoneCoreAcquires == \A c \in Cores : []<>~Alone(c) \/ []<><<Disturbance>>_vars

\* The inductive invariant: a call that frees a lock holds it, and only
\* test_and_set frees by a call; _simple_mutex_lock stores only over a 0.
Phases == \A c \in Cores :
              /\ pc[c] # "idle" /\ wdata[c] = 0 => Routine[lock[c]] = "tas" /\ lock[c] \in held[c]
              /\ pc[c] = "strex" /\ Routine[lock[c]] = "simple" => old[c] = 0
IInv == TypeOK /\ MutualExclusion /\ WordIsOwnership /\ ReservationMeansUnchanged /\ Phases

\* The routines implement the abstract mutex.
Owner == [l \in Locks |-> IF \E c \in Cores : l \in held[c]
                          THEN CHOOSE c \in Cores : l \in held[c] ELSE Nobody]
Lock == INSTANCE SpinLock WITH owner <- Owner
ImplementsSpinLock == Lock!Spec
=============================================================================

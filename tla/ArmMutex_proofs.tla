-------------------------- MODULE ArmMutex_proofs --------------------------
(* That the mutex routines are correct for any number of cores, locks and  *)
(* granules, on a memory whose ordinary stores take reservations away and  *)
(* on one whose stores do not.                                             *)
EXTENDS ArmMutex, TLAPS

USE GranulesAssumption, GranuleOfAssumption, MemoryAssumption, RoutineAssumption, DataAssumption

TypeSlot == /\ slot \in [Slot -> [a : Granules \cup {NoAddress}, id : Cores \cup {Anonymous}]]
            /\ slot[0].a = slot[1].a => slot[0].a = NoAddress

-----------------------------------------------------------------------------
\* Load-linked keeps the slots apart, and gives its caller's granule to nobody
\* but the caller: another core's reservations were there before.
LEMMA LoadLinkedSlots ==
    ASSUME TypeSlot, NEW c \in Cores, NEW g \in Granules, LoadLinked(c, g)
    PROVE  /\ TypeSlot'
           /\ \A d \in Cores \ {c}, h \in Granules : Reserved(d, h)' => Reserved(d, h) /\ h # g
<1> USE DEF TypeSlot, Slot, Reservation, Reserved
<1>1. CASE slot[0].a = g
  BY <1>1 DEF LoadLinked
<1>2. CASE slot[0].a # g /\ slot[1].a = g
  BY <1>2 DEF LoadLinked
<1>3. CASE slot[0].a # g /\ slot[1].a # g
  BY <1>3 DEF LoadLinked
<1> QED BY <1>1, <1>2, <1>3

\* A store-conditional that succeeds spends the one reservation of its granule.
LEMMA SpendSlots ==
    ASSUME TypeSlot, NEW c \in Cores, NEW g \in Granules,
           Reserved(c, g), SpendReservation(c, g)
    PROVE  /\ TypeSlot'
           /\ \A d \in Cores, h \in Granules : Reserved(d, h)' => Reserved(d, h) /\ h # g
<1> USE DEF TypeSlot, Slot, Reservation, Reserved
<1>1. CASE slot[0] = Reservation(g, c)
  BY <1>1 DEF SpendReservation
<1>2. CASE slot[0] # Reservation(g, c)
  BY <1>2 DEF SpendReservation
<1> QED BY <1>1, <1>2

\* An ordinary store makes no reservation.
LEMMA PlainStoreSlots ==
    ASSUME TypeSlot, NEW g \in Granules, PlainStore(g)
    PROVE  /\ TypeSlot'
           /\ \A d \in Cores, h \in Granules : Reserved(d, h)' => Reserved(d, h)
BY DEF TypeSlot, Slot, Reservation, Reserved, PlainStore

-----------------------------------------------------------------------------
LEMMA TypeHasSlots == TypeOK => TypeSlot
BY DEF TypeOK, TypeSlot

LEMMA InitIInv == Init => IInv
BY DEF Init, IInv, TypeOK, MutualExclusion, WordIsOwnership, ReservationMeansUnchanged, Phases,
       MemoryInit, Slot, Reservation, Status

\* The routines load before they store, so a call makes nothing to prove.
LEMMA CallLockStep ==
    ASSUME IInv, NEW c \in Cores, NEW l \in Locks, CallLock(c, l)
    PROVE  IInv'
<1> USE DEF CallLock, Goto, memory, Status
<1>1. TypeOK'
  BY DEF IInv, TypeOK
<1>2. MutualExclusion' /\ WordIsOwnership'
  BY DEF IInv, MutualExclusion, WordIsOwnership
<1>3. ReservationMeansUnchanged'
  BY DEF IInv, TypeOK, ReservationMeansUnchanged, Reserved
<1>4. Phases'
  BY DEF IInv, TypeOK, Phases
<1> QED BY <1>1, <1>2, <1>3, <1>4 DEF IInv

LEMMA CallUnlockStep ==
    ASSUME IInv, NEW c \in Cores, NEW l \in Locks, CallUnlock(c, l)
    PROVE  IInv'
<1> USE DEF CallUnlock, Goto, memory, Status
<1>1. TypeOK'
  BY DEF IInv, TypeOK
<1>2. MutualExclusion' /\ WordIsOwnership'
  BY DEF IInv, MutualExclusion, WordIsOwnership
<1>3. ReservationMeansUnchanged'
  BY DEF IInv, TypeOK, ReservationMeansUnchanged, Reserved
<1>4. Phases'
  BY DEF IInv, TypeOK, Phases
<1> QED BY <1>1, <1>2, <1>3, <1>4 DEF IInv

\* Freeing with an ordinary store: a core that has a reservation on the word
\* has loaded a 0 from it, and the word is 1.
LEMMA SimpleUnlockStep ==
    ASSUME IInv, NEW c \in Cores, NEW l \in Locks, SimpleUnlock(c, l)
    PROVE  IInv'
<1> USE DEF SimpleUnlock
<1>1. GranuleOf[l] \in Granules
  OBVIOUS
<1>2. /\ TypeSlot'
      /\ \A d \in Cores, h \in Granules : Reserved(d, h)' => Reserved(d, h)
  BY <1>1, TypeHasSlots, PlainStoreSlots DEF IInv
<1>3. TypeOK'
  BY <1>2 DEF IInv, TypeOK, TypeSlot
<1>4. MutualExclusion'
  BY DEF IInv, TypeOK, MutualExclusion
<1>5. word[l] = 1 /\ \A d \in Cores \ {c} : l \notin held[d]
  BY DEF IInv, TypeOK, MutualExclusion, WordIsOwnership
<1>6. WordIsOwnership'
  BY <1>5 DEF IInv, TypeOK, WordIsOwnership
<1>7. ReservationMeansUnchanged'
  <2> SUFFICES ASSUME NEW d \in Cores, (pc[d] = "strex")', Reserved(d, GranuleOf[lock[d]])'
               PROVE  (old[d] = word[lock[d]])'
    BY DEF ReservationMeansUnchanged
  <2>1. lock[d] \in Locks /\ GranuleOf[lock[d]] \in Granules
    BY DEF IInv, TypeOK
  <2>2. pc[d] = "strex" /\ Reserved(d, GranuleOf[lock[d]])'
    BY DEF Reserved
  <2>3. Reserved(d, GranuleOf[lock[d]])
    BY <1>2, <2>1, <2>2
  <2>4. old[d] = word[lock[d]]
    BY <2>2, <2>3 DEF IInv, ReservationMeansUnchanged
  <2>5. lock[d] # l
    <3>1. lock[d] = l => old[d] = 0
      BY <2>2 DEF IInv, Phases
    <3> QED BY <1>5, <2>4, <3>1
  <2> QED BY <2>1, <2>4, <2>5 DEF IInv, TypeOK
<1>8. Phases'
  BY DEF IInv, TypeOK, Phases
<1> QED BY <1>3, <1>4, <1>6, <1>7, <1>8 DEF IInv

LEMMA LdrexStep ==
    ASSUME IInv, NEW c \in Cores, Ldrex(c)
    PROVE  IInv'
<1> USE DEF Ldrex
<1>1. lock[c] \in Locks /\ GranuleOf[lock[c]] \in Granules /\ word[lock[c]] \in 0 .. 1
  BY DEF IInv, TypeOK
<1>2. /\ TypeSlot'
      /\ \A d \in Cores \ {c}, h \in Granules : Reserved(d, h)' => Reserved(d, h) /\ h # GranuleOf[lock[c]]
  BY <1>1, TypeHasSlots, LoadLinkedSlots DEF IInv
<1>3. TypeOK'
  BY <1>1, <1>2 DEF IInv, TypeOK, TypeSlot, Status
<1>4. MutualExclusion' /\ WordIsOwnership'
  BY DEF IInv, MutualExclusion, WordIsOwnership
<1>5. ReservationMeansUnchanged'
  <2> SUFFICES ASSUME NEW d \in Cores, (pc[d] = "strex")', Reserved(d, GranuleOf[lock[d]])'
               PROVE  (old[d] = word[lock[d]])'
    BY DEF ReservationMeansUnchanged
  <2>1. CASE d = c
    BY <2>1 DEF IInv, TypeOK
  <2>2. CASE d # c
    <3>1. lock[d] \in Locks /\ GranuleOf[lock[d]] \in Granules
      BY DEF IInv, TypeOK
    <3>2. pc[d] = "strex" /\ Reserved(d, GranuleOf[lock[d]])'
      BY <2>2 DEF IInv, TypeOK, Reserved
    <3>3. Reserved(d, GranuleOf[lock[d]])
      BY <1>2, <2>2, <3>1, <3>2
    <3> QED BY <2>2, <3>2, <3>3 DEF IInv, TypeOK, ReservationMeansUnchanged
  <2> QED BY <2>1, <2>2
<1>6. Phases'
  BY <1>1 DEF IInv, TypeOK, Phases
<1> QED BY <1>3, <1>4, <1>5, <1>6 DEF IInv

\* Of the cores with a reservation on a granule only one exists, so the store
\* is seen by no core that still trusts what it loaded.
LEMMA StrexDoneStep ==
    ASSUME IInv, NEW c \in Cores, StrexDone(c)
    PROVE  IInv'
<1> USE DEF StrexDone, StoreConditional
<1>1. /\ lock[c] \in Locks /\ GranuleOf[lock[c]] \in Granules /\ pc[c] = "strex"
      /\ wdata[c] \in 0 .. 1 /\ old[c] \in 0 .. 1
  BY DEF IInv, TypeOK
<1>2. /\ TypeSlot'
      /\ \A d \in Cores, h \in Granules : Reserved(d, h)' => Reserved(d, h) /\ h # GranuleOf[lock[c]]
  BY <1>1, TypeHasSlots, SpendSlots DEF IInv
<1>3. TypeOK'
  <2>1. word' \in [Locks -> 0 .. 1]
    BY <1>1 DEF IInv, TypeOK
  <2>2. pc' \in [Cores -> Status] /\ held' \in [Cores -> SUBSET Locks]
    BY <1>1 DEF IInv, TypeOK, Status
  <2> QED BY <1>2, <2>1, <2>2 DEF IInv, TypeOK, TypeSlot
<1>4. old[c] = word[lock[c]]
  BY <1>1 DEF IInv, ReservationMeansUnchanged
<1>5. MutualExclusion' /\ WordIsOwnership'
  <2>1. CASE wdata[c] = 0
    <3>1. lock[c] \in held[c] /\ \A d \in Cores \ {c} : lock[c] \notin held[d]
      BY <1>1, <2>1 DEF IInv, Phases, MutualExclusion
    <3>2. word' = [word EXCEPT ![lock[c]] = 0] /\ held' = [held EXCEPT ![c] = @ \ {lock[c]}]
      BY <2>1
    <3> QED BY <1>1, <3>1, <3>2 DEF IInv, TypeOK, MutualExclusion, WordIsOwnership
  <2>2. CASE wdata[c] = 1 /\ old[c] = 0
    <3>1. \A d \in Cores : lock[c] \notin held[d]
      <4>1. WordIsOwnership /\ word[lock[c]] # 1
        BY <1>4, <2>2 DEF IInv
      <4> QED BY <1>1, <4>1 DEF WordIsOwnership
    <3>2. word' = [word EXCEPT ![lock[c]] = 1] /\ held' = [held EXCEPT ![c] = @ \cup {lock[c]}]
      BY <2>2
    <3> QED BY <1>1, <3>1, <3>2 DEF IInv, TypeOK, MutualExclusion, WordIsOwnership
  <2>3. CASE wdata[c] = 1 /\ old[c] = 1
    <3>1. word' = [word EXCEPT ![lock[c]] = 1] /\ word[lock[c]] = 1 /\ TypeOK
      BY <1>4, <2>3 DEF IInv
    <3>2. word' = word
      BY <1>1, <3>1 DEF TypeOK
    <3>3. held' = held
      BY <2>3
    <3> QED BY <3>2, <3>3 DEF IInv, MutualExclusion, WordIsOwnership
  <2> QED BY <1>1, <2>1, <2>2, <2>3
<1>6. ReservationMeansUnchanged'
  <2> SUFFICES ASSUME NEW d \in Cores, (pc[d] = "strex")', Reserved(d, GranuleOf[lock[d]])'
               PROVE  (old[d] = word[lock[d]])'
    BY DEF ReservationMeansUnchanged
  <2>1. d # c
    BY <1>1 DEF IInv, TypeOK
  <2>2. lock[d] \in Locks /\ GranuleOf[lock[d]] \in Granules
    BY DEF IInv, TypeOK
  <2>3. pc[d] = "strex" /\ Reserved(d, GranuleOf[lock[d]])'
    BY <2>1 DEF IInv, TypeOK, Reserved
  <2>4. Reserved(d, GranuleOf[lock[d]]) /\ GranuleOf[lock[d]] # GranuleOf[lock[c]]
    BY <1>2, <2>2, <2>3
  <2> QED BY <2>2, <2>3, <2>4 DEF IInv, TypeOK, ReservationMeansUnchanged
<1>7. Phases'
  BY <1>1 DEF IInv, TypeOK, Phases
<1> QED BY <1>3, <1>5, <1>6, <1>7 DEF IInv

LEMMA StrexFailedStep ==
    ASSUME IInv, NEW c \in Cores, StrexFailed(c)
    PROVE  IInv'
<1> USE DEF StrexFailed, StoreConditionalFails, Goto, memory
<1>1. TypeOK'
  BY DEF IInv, TypeOK, Status
<1>2. MutualExclusion' /\ WordIsOwnership'
  BY DEF IInv, MutualExclusion, WordIsOwnership
<1>3. ReservationMeansUnchanged'
  BY DEF IInv, TypeOK, ReservationMeansUnchanged, Reserved
<1>4. Phases'
  BY DEF IInv, TypeOK, Phases
<1> QED BY <1>1, <1>2, <1>3, <1>4 DEF IInv

LEMMA StoreDataStep ==
    ASSUME IInv, NEW c \in Cores, NEW g \in DataGranules, StoreData(c, g)
    PROVE  IInv'
<1> USE DEF StoreData
<1>1. /\ TypeSlot'
      /\ \A d \in Cores, h \in Granules : Reserved(d, h)' => Reserved(d, h)
  BY TypeHasSlots, PlainStoreSlots DEF IInv
<1>2. TypeOK'
  BY <1>1 DEF IInv, TypeOK, TypeSlot
<1>3. MutualExclusion' /\ WordIsOwnership' /\ Phases'
  BY DEF IInv, MutualExclusion, WordIsOwnership, Phases
<1>4. ReservationMeansUnchanged'
  <2> SUFFICES ASSUME NEW d \in Cores, (pc[d] = "strex")', Reserved(d, GranuleOf[lock[d]])'
               PROVE  (old[d] = word[lock[d]])'
    BY DEF ReservationMeansUnchanged
  <2>1. GranuleOf[lock[d]] \in Granules
    BY DEF IInv, TypeOK
  <2>2. pc[d] = "strex" /\ Reserved(d, GranuleOf[lock[d]])'
    BY DEF Reserved
  <2> QED BY <1>1, <2>1, <2>2 DEF IInv, ReservationMeansUnchanged
<1> QED BY <1>2, <1>3, <1>4 DEF IInv

LEMMA NextIInv == IInv /\ [Next]_vars => IInv'
<1> SUFFICES ASSUME IInv, [Next]_vars PROVE IInv'
  OBVIOUS
<1>1. CASE UNCHANGED vars
  BY <1>1 DEF vars, memory, IInv, TypeOK, MutualExclusion, WordIsOwnership,
              ReservationMeansUnchanged, Phases, Reserved
<1>2. CASE Next
  <2>1. PICK c \in Cores : Step(c) \/ Client(c)
    BY <1>2 DEF Next
  <2>2. CASE Step(c)
    BY <2>2, LdrexStep, StrexDoneStep, StrexFailedStep DEF Step
  <2>3. CASE Client(c)
    BY <2>3, CallLockStep, CallUnlockStep, SimpleUnlockStep, StoreDataStep DEF Client
  <2> QED BY <2>1, <2>2, <2>3
<1> QED BY <1>1, <1>2

\* The strengthened invariant holds in every reachable state.
THEOREM Invariance == Spec => []IInv
BY InitIInv, NextIInv, PTL DEF Spec

\* The variables keep their types, and the two reservation slots never hold one
\* granule: load-linked takes over the slot of its granule before any other.
THEOREM MutexTypeOK == Spec => []TypeOK
<1>1. IInv => TypeOK
  BY DEF IInv
<1> QED BY <1>1, Invariance, PTL

\* The routines exclude each other whichever memory they run on: the store that
\* frees a simple mutex need not be a store-conditional.
THEOREM Exclusion == Spec => []MutualExclusion
<1>1. IInv => MutualExclusion
  BY DEF IInv
<1> QED BY <1>1, Invariance, PTL

\* No mutex is left taken that nobody holds, and none is free that is held.
THEOREM OwnershipIsExact == Spec => []WordIsOwnership
<1>1. IInv => WordIsOwnership
  BY DEF IInv
<1> QED BY <1>1, Invariance, PTL

\* A store-conditional that succeeds stores over the value that was loaded.
THEOREM LoadsStand == Spec => []ReservationMeansUnchanged
<1>1. IInv => ReservationMeansUnchanged
  BY DEF IInv
<1> QED BY <1>1, Invariance, PTL

-----------------------------------------------------------------------------
\* When the lock is held by c alone its owner is c; when nobody has it, Nobody.
LEMMA OwnerIs ==
    ASSUME MutualExclusion, NEW l \in Locks
    PROVE  /\ \A c \in Cores : l \in held[c] => Owner[l] = c
           /\ (\A c \in Cores : l \notin held[c]) => Owner[l] = Nobody
BY DEF MutualExclusion, Owner

\* A core that takes a free lock acquires it, and one that drops a lock it has
\* releases it; no other owner changes.
LEMMA TakingRefines ==
    ASSUME TypeOK, MutualExclusion', NEW c \in Cores, NEW l \in Locks,
           \A d \in Cores : l \notin held[d], held' = [held EXCEPT ![c] = @ \cup {l}]
    PROVE  Lock!Acquire(c, l)
<1>1. Owner[l] = Nobody
  BY DEF Owner
<1>2. Owner'[l] = c
  <2>1. l \in held'[c]
    BY DEF TypeOK
  <2>2. \A d \in Cores : l \in held'[d] => d = c
    BY DEF TypeOK
  <2> QED BY <2>1, <2>2 DEF Owner
<1>3. \A m \in Locks \ {l} : Owner'[m] = Owner[m]
  <2>1. \A d \in Cores, m \in Locks \ {l} : m \in held'[d] <=> m \in held[d]
    BY DEF TypeOK
  <2> QED BY <2>1 DEF Owner
<1>4. Owner' = [Owner EXCEPT ![l] = c]
  BY <1>2, <1>3 DEF Owner
<1> QED BY <1>1, <1>4 DEF Lock!Acquire

LEMMA DroppingRefines ==
    ASSUME TypeOK, MutualExclusion, NEW c \in Cores, NEW l \in Locks,
           l \in held[c], held' = [held EXCEPT ![c] = @ \ {l}]
    PROVE  Lock!Release(c, l)
<1>1. Owner[l] = c
  <2>1. \A d \in Cores : l \in held[d] => d = c
    BY DEF MutualExclusion
  <2> QED BY <2>1 DEF Owner
<1>2. Owner'[l] = Nobody
  <2>1. \A d \in Cores : l \notin held'[d]
    BY DEF TypeOK, MutualExclusion
  <2> QED BY <2>1 DEF Owner
<1>3. \A m \in Locks \ {l} : Owner'[m] = Owner[m]
  <2>1. \A d \in Cores, m \in Locks \ {l} : m \in held'[d] <=> m \in held[d]
    BY DEF TypeOK
  <2> QED BY <2>1 DEF Owner
<1>4. Owner' = [Owner EXCEPT ![l] = Nobody]
  BY <1>2, <1>3 DEF Owner
<1> QED BY <1>1, <1>4 DEF Lock!Release

LEMMA StrexDoneRefines ==
    ASSUME IInv, IInv', NEW c \in Cores, StrexDone(c)
    PROVE  Lock!Next \/ UNCHANGED Owner
<1>1. lock[c] \in Locks /\ wdata[c] \in 0 .. 1 /\ old[c] = word[lock[c]]
  BY DEF IInv, TypeOK, ReservationMeansUnchanged, StrexDone, StoreConditional
<1>2. CASE wdata[c] = 0
  <2>1. lock[c] \in held[c] /\ held' = [held EXCEPT ![c] = @ \ {lock[c]}]
    BY <1>2 DEF IInv, Phases, StrexDone
  <2> QED BY <1>1, <2>1, DroppingRefines DEF IInv, Lock!Next
<1>3. CASE wdata[c] = 1 /\ old[c] = 0
  <2>1. WordIsOwnership /\ word[lock[c]] # 1
    BY <1>1, <1>3 DEF IInv
  <2>2. \A d \in Cores : lock[c] \notin held[d]
    BY <1>1, <2>1 DEF WordIsOwnership
  <2>3. held' = [held EXCEPT ![c] = @ \cup {lock[c]}]
    BY <1>3 DEF StrexDone
  <2> QED BY <1>1, <2>2, <2>3, TakingRefines DEF IInv, Lock!Next
<1>4. CASE wdata[c] = 1 /\ old[c] # 0
  BY <1>4 DEF StrexDone, Owner
<1> QED BY <1>1, <1>2, <1>3, <1>4

LEMMA StepRefines == IInv /\ IInv' /\ [Next]_vars => [Lock!Next]_Owner
<1> SUFFICES ASSUME IInv, IInv', [Next]_vars PROVE Lock!Next \/ UNCHANGED Owner
  BY DEF Owner
<1>1. CASE UNCHANGED held
  BY <1>1 DEF Owner
<1>2. CASE held' # held
  <2>1. PICK c \in Cores : StrexDone(c) \/ \E l \in Locks : SimpleUnlock(c, l)
    BY <1>2 DEF Next, vars, Step, Client, Ldrex, StrexFailed, CallLock, CallUnlock, StoreData
  <2>2. CASE StrexDone(c)
    BY <2>2, StrexDoneRefines
  <2>3. ASSUME NEW l \in Locks, SimpleUnlock(c, l)
        PROVE  Lock!Next
    BY <2>3, DroppingRefines DEF IInv, SimpleUnlock, Lock!Next
  <2> QED BY <2>1, <2>2, <2>3
<1> QED BY <1>1, <1>2

\* The routines implement the abstract mutex.
THEOREM Refinement == Spec => ImplementsSpinLock
<1>1. Init => Lock!Init
  BY DEF Init, Lock!Init, Owner
<1>2. IInv /\ IInv' /\ [Next]_vars => [Lock!Next]_Owner
  BY StepRefines
<1> QED BY <1>1, <1>2, Invariance, PTL DEF Spec, ImplementsSpinLock, Lock!Spec
=============================================================================

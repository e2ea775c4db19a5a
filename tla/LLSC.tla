------------------------------- MODULE LLSC -------------------------------
(* Load-linked and store-conditional as the memories implement them        *)
(* (tenos/llsc_extension.h), with two reservation slots per memory, a      *)
(* reservation covering a granule of eight bytes.  A memory serves one     *)
(* access at a time: b_transport does not yield between the reservation    *)
(* and the data.  The words that matter here are lock words, 0 or 1.       *)
EXTENDS Integers

CONSTANTS
    Cores,              \* the initiators, which sign their reservations
    Locks,              \* the lock words
    Granules,           \* the eight-byte granules of the memory
    GranuleOf,          \* the granule that holds a lock word
    PlainStoreClears    \* TRUE for the DRAM wrapper, FALSE for generic_tlm_mem

\* The two values that are written -1: a slot's address has 64 bits, the value
\* that load-linked compares it with has 32.
NoAddress == "0xffffffffffffffff"
MinusOne32 == "0x00000000ffffffff"
Anonymous == "0"

ASSUME GranulesAssumption == NoAddress \notin Granules /\ MinusOne32 \notin Granules
ASSUME GranuleOfAssumption == GranuleOf \in [Locks -> Granules]
ASSUME MemoryAssumption == PlainStoreClears \in BOOLEAN

VARIABLES
    word,   \* the value of each lock word
    slot    \* llsc0 and llsc1: the granule reserved and the reserver

memory == <<word, slot>>
Slot == 0 .. 1
Reservation(g, c) == [a |-> g, id |-> c]

MemoryInit == /\ word = [l \in Locks |-> 0]
              /\ slot = [s \in Slot |-> Reservation(NoAddress, Anonymous)]

\* A form that looks at the first slot only.
ReservedFirst(c, g) == slot[0] = Reservation(g, c)

\* c holds a reservation on g.
Reserved(c, g) == \E s \in Slot : slot[s] = Reservation(g, c)

\* A form that reserves a granule for a second core without taking it from the first.
LoadLinkedShares(c, g) ==
    slot' = IF slot[0].a = NoAddress THEN [slot EXCEPT ![0] = Reservation(g, c)]
            ELSE [slot EXCEPT ![1] = Reservation(g, c)]

\* loadlocked_fail: take over the slot of the granule, or else a slot.
LoadLinked(c, g) ==
    slot' = IF slot[0].a = g THEN [slot EXCEPT ![0] = Reservation(g, c)]
            ELSE IF slot[1].a = g THEN [slot EXCEPT ![1] = Reservation(g, c)]
            ELSE IF slot[0].a = MinusOne32 THEN [slot EXCEPT ![0] = Reservation(g, c)]
            ELSE [slot EXCEPT ![1] = Reservation(g, c)]

\* A form that frees a slot with a 32-bit -1.
SpendReservation32(c, g) ==
    slot' = IF slot[0] = Reservation(g, c) THEN [slot EXCEPT ![0] = Reservation(MinusOne32, c)]
                                           ELSE [slot EXCEPT ![1] = Reservation(MinusOne32, c)]

\* storeconditional_fail, for an initiator that holds the reservation.
SpendReservation(c, g) ==
    slot' = IF slot[0] = Reservation(g, c) THEN [slot EXCEPT ![0] = Reservation(NoAddress, c)]
                                           ELSE [slot EXCEPT ![1] = Reservation(NoAddress, c)]

\* b_access for a store-conditional of v to lock l, when it succeeds; when it
\* fails the memory is left as it is.
StoreConditional(c, l, v) ==
    /\ Reserved(c, GranuleOf[l])
    /\ SpendReservation(c, GranuleOf[l])
    /\ word' = [word EXCEPT ![l] = v]

StoreConditionalFails(c, l) ==
    /\ ~Reserved(c, GranuleOf[l])
    /\ UNCHANGED memory

\* An ordinary store to g: the DRAM wrapper takes away a reservation of g.
PlainStore(g) ==
    slot' = IF ~PlainStoreClears THEN slot
            ELSE IF slot[0].a = g THEN [slot EXCEPT ![0] = Reservation(NoAddress, slot[0].id)]
            ELSE IF slot[1].a = g THEN [slot EXCEPT ![1] = Reservation(NoAddress, slot[1].id)]
            ELSE slot
=============================================================================

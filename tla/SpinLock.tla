----------------------------- MODULE SpinLock -----------------------------
(* What a mutex promises: it has at most one owner, who alone gives it up. *)
CONSTANTS Cores, Locks, Nobody

VARIABLE owner

Init == owner = [l \in Locks |-> Nobody]

Acquire(c, l) == /\ owner[l] = Nobody
                 /\ owner' = [owner EXCEPT ![l] = c]

Release(c, l) == /\ owner[l] = c
                 /\ owner' = [owner EXCEPT ![l] = Nobody]

Next == \E c \in Cores, l \in Locks : Acquire(c, l) \/ Release(c, l)

Spec == Init /\ [][Next]_owner
=============================================================================

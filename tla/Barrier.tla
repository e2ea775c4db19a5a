------------------------------ MODULE Barrier ------------------------------
(* What a barrier promises its callers, with none of the machinery of      *)
(* djgthread_barrier_wait: a call returns only after every customer has    *)
(* called, and of the calls released together exactly one returns          *)
(* PTHREAD_BARRIER_SERIAL_THREAD.                                          *)
CONSTANT Customers      \* the threads that meet at the barrier

VARIABLE where          \* how far each customer's current call has come

States == {"outside", "arrived", "released", "serial"}

Init == where = [t \in Customers |-> "outside"]

\* A customer arrives and somebody else is still missing.
Arrive(t) ==
    /\ where[t] = "outside"
    /\ \E u \in Customers \ {t} : where[u] # "arrived"
    /\ where' = [where EXCEPT ![t] = "arrived"]

\* The last customer arrives: everybody is released, and it is the one told.
ArriveLast(t) ==
    /\ where[t] = "outside"
    /\ \A u \in Customers \ {t} : where[u] = "arrived"
    /\ where' = [u \in Customers |-> IF u = t THEN "serial" ELSE "released"]

\* A released call returns.
Leave(t) ==
    /\ where[t] \in {"released", "serial"}
    /\ where' = [where EXCEPT ![t] = "outside"]

Next == \E t \in Customers : Arrive(t) \/ ArriveLast(t) \/ Leave(t)

Spec == Init /\ [][Next]_where
=============================================================================

------------------------------ MODULE ForkJoin ------------------------------
(* What creating and joining threads promises a program, with none of the  *)
(* table and of the cores: a thread that is created begins once, makes all *)
(* its calls, and ends; a join returns only after the end, with the value  *)
(* that the thread returned.                                               *)
EXTENDS Naturals

CONSTANTS
    Threads,
    Length,     \* how many calls each thread makes
    Returns,    \* the values that a join may return for each thread
    NotJoined   \* no value

VARIABLES
    where,      \* how far each thread has come
    calls,      \* how many calls it has made
    result      \* what the last join returned for it

Places == {"absent", "created", "running", "ended"}

Init == /\ where = [k \in Threads |-> "absent"]
        /\ calls = [k \in Threads |-> 0]
        /\ result = [k \in Threads |-> NotJoined]

Move(k, from, to) == /\ where[k] = from
                     /\ where' = [where EXCEPT ![k] = to]

Fork(k) == Move(k, "absent", "created") /\ UNCHANGED <<calls, result>>

Begin(k) == Move(k, "created", "running") /\ UNCHANGED <<calls, result>>

MakeCall(k) == /\ where[k] = "running"
               /\ calls[k] < Length[k]
               /\ calls' = [calls EXCEPT ![k] = @ + 1]
               /\ UNCHANGED <<where, result>>

End(k) == /\ Move(k, "running", "ended")
          /\ calls[k] = Length[k]
          /\ UNCHANGED <<calls, result>>

JoinEnded(k) == /\ where[k] = "ended"
                /\ \E v \in Returns[k] : result' = [result EXCEPT ![k] = v]
                /\ UNCHANGED <<where, calls>>

Next == \E k \in Threads : Fork(k) \/ Begin(k) \/ MakeCall(k) \/ End(k) \/ JoinEnded(k)

Spec == Init /\ [][Next]_<<where, calls, result>>
=============================================================================

----------------------------- MODULE Doorbells -----------------------------
(* What software-generated interrupts promise: each ring of a core is       *)
(* answered once by each of the cores it is sent to, under the number and  *)
(* the name of the core that rang.  Whom a core rings, itself included, is *)
(* not said here.  Rings of one core are not counted until answered.       *)
CONSTANTS Cores, Sgis, Nobody

VARIABLES
    rung,       \* <<target, number, source>> of every ring not yet answered
    answering   \* the ring each core is serving

Init == rung = {} /\ answering = [c \in Cores |-> Nobody]

Ring(T, i, S) == /\ rung' = rung \cup (T \X {i} \X S)
                 /\ UNCHANGED answering

\* A core withdraws rings at itself.
Withdraw(c, i, S) == /\ rung' = rung \ ({c} \X {i} \X S)
                     /\ UNCHANGED answering

Answer(c, i, s) == /\ answering[c] = Nobody
                   /\ <<c, i, s>> \in rung
                   /\ rung' = rung \ {<<c, i, s>>}
                   /\ answering' = [answering EXCEPT ![c] = <<i, s>>]

Finish(c) == /\ answering' = [answering EXCEPT ![c] = Nobody]
             /\ UNCHANGED rung

Next == \E c \in Cores :
            \/ Finish(c)
            \/ \E i \in Sgis : \/ \E s \in Cores : Answer(c, i, s)
                               \/ \E T \in SUBSET Cores : Ring(T, i, {c})
                               \/ \E S \in SUBSET Cores : Ring({c}, i, S) \/ Withdraw(c, i, S)

Spec == Init /\ [][Next]_<<rung, answering>>
=============================================================================

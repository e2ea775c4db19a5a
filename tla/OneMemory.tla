----------------------------- MODULE OneMemory -----------------------------
(* What cores with private caches are promised: one memory, in which every *)
(* access takes effect at one moment, and a store-conditional is done only *)
(* if nobody else has stored to the line since the core's load-linked.     *)
CONSTANTS
    Caches, Lines, Words, Nothing,
    Data,       \* what a line may hold: functions from Words
    Stores      \* what a store writes: functions from some of the words

Merge(x, s) == [w \in Words |-> IF w \in DOMAIN s THEN s[w] ELSE x[w]]

VARIABLES
    value,  \* what the memory holds
    loaded, \* the line as the latest load of any core found it
    link    \* the line a core's load-linked watches, while nobody else stores there

Init == /\ value \in [Lines -> Data]
        /\ loaded \in Data
        /\ link = [c \in Caches |-> Nothing]

\* Other cores that watch l watch it no more.
Unlink(c, l) == [d \in Caches |-> IF d # c /\ link[d] = l THEN Nothing ELSE link[d]]

Load(l) == /\ loaded' = value[l]
           /\ UNCHANGED <<value, link>>

Store(c, l, s) == /\ value' = [value EXCEPT ![l] = Merge(@, s)]
                  /\ link' = Unlink(c, l)
                  /\ UNCHANGED loaded

LoadLinked(c, l) == /\ loaded' = value[l]
                    /\ link' = [link EXCEPT ![c] = l]
                    /\ UNCHANGED value

StoreConditional(c, l, s) == /\ link[c] = l
                             /\ value' = [value EXCEPT ![l] = Merge(@, s)]
                             /\ link' = [Unlink(c, l) EXCEPT ![c] = Nothing]
                             /\ UNCHANGED loaded

Next == \E l \in Lines :
            \/ Load(l)
            \/ \E c \in Caches : \/ LoadLinked(c, l)
                                 \/ \E s \in Stores : Store(c, l, s) \/ StoreConditional(c, l, s)

Spec == Init /\ [][Next]_<<value, loaded, link>>
=============================================================================

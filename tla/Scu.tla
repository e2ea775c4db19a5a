-------------------------------- MODULE Scu --------------------------------
(* The snoop control unit (memories/scu.cpp) and the memory behind it.  A  *)
(* request of one cache is put to all the others, which answer one by one; *)
(* when the last has answered, the request is served.  The simulator runs  *)
(* one process at a time and a process gives way only where it waits: here *)
(* that is the wait for the answers, so everything else is one step.       *)
CONSTANTS
    Caches, Lines, Words,
    Data,           \* what a line may hold: functions from Words
    Stores,         \* what a store writes: functions from some of the words
    Nothing,        \* no line, no core
    Serialised      \* TRUE when no two requests for one line overlap

\* A store changes the words that it has.
Merge(x, s) == [w \in Words |-> IF w \in DOMAIN s THEN s[w] ELSE x[w]]

ASSUME SerialisedAssumption == Serialised \in BOOLEAN
ASSUME MergeAssumption == \A x \in Data, s \in Stores : Merge(x, s) \in Data
ASSUME NothingAssumption == Nothing \notin Lines

VARIABLES
    memory,     \* the contents of the lines in memory
    reserved,   \* the line and core of the memory's load-linked reservation
    trans,      \* the request each cache has sent, or "None"
    access,     \* what its core asked for
    waiting,    \* the caches that have still to answer: served_requests
    reply       \* the answers it has received

scu == <<memory, reserved, trans, access, waiting, reply>>

\* A copy of a line in a cache or in an answer.
Absent == [state |-> "Invalid"]
Copies == [state : {"UniqueClean", "UniqueDirty", "SharedClean"}, data : Data] \cup {Absent}
Copy(s, x) == [state |-> s, data |-> x]
Unique == {"UniqueClean", "UniqueDirty"}

Reads == {"ReadShared", "ReadUnique", "MakeUnique"}
Requests == Reads \cup {"MakeInvalid", "Evict"}
Kinds == {"Load", "Store", "LoadLinked", "StoreConditional"}
NoData == [w \in {} |-> w]
Access(k, l, s) == [kind |-> k, line |-> l, data |-> s]
NoAccess == Access("None", Nothing, NoData)
Accesses == [kind : Kinds, line : Lines, data : Stores \cup {NoData}]
NoReply == [d \in Caches |-> Absent]

ScuInit == /\ memory \in [Lines -> Data]
           /\ reserved = <<Nothing, Nothing>>
           /\ trans = [c \in Caches |-> "None"]
           /\ access = [c \in Caches |-> NoAccess]
           /\ waiting = [c \in Caches |-> {}]
           /\ reply = [c \in Caches |-> NoReply]

\* c has a request for l outstanding.
Asks(c, l) == trans[c] # "None" /\ access[c].line = l

\* b_transport up to the wait: put request t for access a to the other caches.
Request(c, t, a) ==
    /\ Serialised => \A d \in Caches \ {c} : ~Asks(d, a.line)
    /\ trans' = [trans EXCEPT ![c] = t]
    /\ access' = [access EXCEPT ![c] = a]
    /\ waiting' = [waiting EXCEPT ![c] = Caches \ {c}]
    /\ reply' = [reply EXCEPT ![c] = NoReply]

\* nb_transport_bw: d answers c's request with its copy of the line.
Answer(d, c, copy) ==
    /\ waiting' = [waiting EXCEPT ![c] = @ \ {d}]
    /\ reply' = [reply EXCEPT ![c][d] = copy]
    /\ UNCHANGED <<memory, reserved, trans, access>>

\* All have answered and c's process runs on.
Answered(c) == trans[c] # "None" /\ waiting[c] = {}

\* A form that keeps the access.
CloseKeeps(c) == /\ trans' = [trans EXCEPT ![c] = "None"]
                 /\ reply' = [reply EXCEPT ![c] = NoReply]
                 /\ UNCHANGED <<access, waiting>>

\* The request of c has been served.
Close(c) == /\ trans' = [trans EXCEPT ![c] = "None"]
            /\ access' = [access EXCEPT ![c] = NoAccess]
            /\ reply' = [reply EXCEPT ![c] = NoReply]
            /\ UNCHANGED waiting

\* The answer that is used: the first port's that has the line, one of them here.
Found(c) == LET found == {reply[c][d] : d \in Caches} \ {Absent}
            IN  IF found = {} THEN {Absent} ELSE found

\* What the cache is given.  (After MakeUnique without an answer the code
\* leaves it unset; the store overwrites all of it.)
Brought(c, a) == IF a = Absent THEN memory[access[c].line] ELSE a.data

Granted(c, a) == IF trans[c] # "ReadShared" THEN "UniqueDirty"
                 ELSE IF a = Absent THEN "UniqueClean" ELSE "SharedClean"

\* Writes of whole lines to memory, which take away a reservation of theirs.
Behind(W) == [l \in Lines |-> IF l \in DOMAIN W THEN W[l] ELSE memory[l]]
WriteLines(W) ==
    /\ memory' = Behind(W)
    /\ reserved' = IF reserved[1] \in DOMAIN W THEN <<Nothing, Nothing>> ELSE reserved

\* Dirty data in an answer goes to memory before it is used.
Flushed(c, a) == IF a.state = "UniqueDirty" THEN [l \in {access[c].line} |-> a.data] ELSE NoData
=============================================================================

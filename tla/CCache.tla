------------------------------- MODULE CCache -------------------------------
(* The coherent caches of the cores (memories/ccache.cpp, arm_ccache.cpp)  *)
(* with the snoop control unit: loads, stores, load-linked and             *)
(* store-conditional, snoops, and the maintenance operations of CP15.      *)
(* All lines of the model compete for the ways of one index; which of them *)
(* the round robin over the ways throws out is left open.                  *)
EXTENDS Scu

VARIABLES
    cached,     \* the copies each cache has
    fresh,      \* the timestamp read before MakeInvalid is still that of the line
    loaded,     \* the line as the latest load of any core found it
    link        \* history: the line a core load-linked, while nobody else stores there

vars == <<scu, cached, fresh, loaded, link>>

Init == /\ ScuInit
        /\ cached = [c \in Caches |-> [l \in Lines |-> Absent]]
        /\ fresh = [c \in Caches |-> TRUE]
        /\ loaded \in Data
        /\ link = [c \in Caches |-> Nothing]

State(c, l) == cached[c][l].state
Idle(c) == trans[c] = "None"

\* Another core's interest in l ends when c stores to it.
Unlinked(c, l) == [d \in Caches |-> IF d # c /\ link[d] = l THEN Nothing ELSE link[d]]

-----------------------------------------------------------------------------
\* read(), a hit.
LoadHit(c, l) == /\ Idle(c)
                 /\ cached[c][l] # Absent
                 /\ loaded' = cached[c][l].data
                 /\ UNCHANGED <<scu, cached, fresh, link>>

\* read(), a miss: secondary_lookup.
LoadMiss(c, l) == /\ Idle(c)
                  /\ cached[c][l] = Absent
                  /\ Request(c, "ReadShared", Access("Load", l, NoData))
                  /\ UNCHANGED <<memory, reserved, cached, fresh, loaded, link>>

\* A form that does not mark the line as modified.
WriteHitClean(c, l, s) ==
    /\ State(c, l) \in Unique
    /\ cached' = [cached EXCEPT ![c][l] = Copy(@.state, Merge(@.data, s))]
    /\ Close(c)
    /\ fresh' = [fresh EXCEPT ![c] = TRUE]
    /\ link' = Unlinked(c, l)
    /\ UNCHANGED <<memory, reserved, loaded>>

\* write(), a line that is only here: warm_write.
WriteHit(c, l, s) ==
    /\ State(c, l) \in Unique
    /\ cached' = [cached EXCEPT ![c][l] = Copy("UniqueDirty", Merge(@.data, s))]
    /\ Close(c)
    /\ fresh' = [fresh EXCEPT ![c] = TRUE]
    /\ link' = Unlinked(c, l)
    /\ UNCHANGED <<memory, reserved, loaded>>

\* write(), a shared line: ask the others to give it up.
WriteShared(c, l, s) ==
    /\ State(c, l) = "SharedClean"
    /\ Request(c, "MakeInvalid", Access("Store", l, s))
    /\ fresh' = [fresh EXCEPT ![c] = TRUE]
    /\ UNCHANGED <<memory, reserved, cached, loaded, link>>

\* write(), a miss: cold_write, with or without reading the line.
WriteMiss(c, l, s) ==
    /\ cached[c][l] = Absent
    /\ Request(c, IF DOMAIN s = Words THEN "MakeUnique" ELSE "ReadUnique", Access("Store", l, s))
    /\ fresh' = [fresh EXCEPT ![c] = TRUE]
    /\ UNCHANGED <<memory, reserved, cached, loaded, link>>

Write(c, l, s) == WriteHit(c, l, s) \/ WriteShared(c, l, s) \/ WriteMiss(c, l, s)

Store(c, l, s) == Idle(c) /\ Write(c, l, s)

\* The dirty ones of the lines M of c, as they are written back.
Dirty(c, M) == [m \in {n \in M : State(c, n) = "UniqueDirty"} |-> cached[c][m].data]

\* locked_op: load-linked and store-conditional first drive the line out of
\* this cache, then out of the others.
LockedOp(c, k, l, s) ==
    /\ Idle(c)
    /\ WriteLines(Dirty(c, {l}))
    /\ cached' = [cached EXCEPT ![c][l] = Absent]
    /\ Request(c, "Evict", Access(k, l, s))
    /\ UNCHANGED <<fresh, loaded, link>>

-----------------------------------------------------------------------------
\* A form that leaves a line that is only here as it is for a reader.
AfterSnoopUnique(c, copy) ==
    IF trans[c] # "Evict" /\ copy.state \in Unique THEN copy
    ELSE IF copy # Absent /\ trans[c] = "ReadShared" THEN Copy("SharedClean", copy.data)
    ELSE Absent

\* peq_cb: what a cache keeps of its copy when c's request reaches it.
AfterSnoop(c, copy) ==
    IF trans[c] = "MakeInvalid" /\ copy.state \in Unique THEN copy
    ELSE IF copy # Absent /\ trans[c] = "ReadShared" THEN Copy("SharedClean", copy.data)
    ELSE Absent

\* A form that counts up the timestamp of whoever asks.
TouchAsking(D, l) == fresh' = [d \in Caches |-> fresh[d] /\ ~Asks(d, l)]

\* The caches D have counted up the timestamp of line l.
Touch(D, l) == fresh' = [d \in Caches |-> fresh[d] /\ ~(d \in D /\ Asks(d, l))]

\* peq_cb in d for the request of c: d answers with the copy it had.
Snoop(d, c) ==
    LET l == access[c].line
    IN  /\ d \in waiting[c]
        /\ Answer(d, c, cached[d][l])
        /\ cached' = [cached EXCEPT ![d][l] = AfterSnoop(c, @)]
        /\ Touch({e \in {d} : cached[e][l] # Absent}, l)
        /\ UNCHANGED <<loaded, link>>

-----------------------------------------------------------------------------
\* way::insert: the line that the way held goes, to memory if it is dirty.
Victims(l) == {{}} \cup {{m} : m \in Lines \ {l}}

Insert(c, l, V, a, copy) ==
    /\ cached' = [cached EXCEPT ![c] = [m \in Lines |-> IF m = l THEN copy
                                                        ELSE IF m \in V THEN Absent ELSE @[m]]]
    /\ WriteLines([m \in DOMAIN Flushed(c, a) \cup DOMAIN Dirty(c, V) |->
                       IF m = l THEN a.data ELSE cached[c][m].data])
    /\ Close(c)

\* The same for a line that is not among Lines and comes into the way of l.
InsertOther(c, l) ==
    /\ Idle(c)
    /\ cached[c][l] # Absent
    /\ WriteLines(Dirty(c, {l}))
    /\ cached' = [cached EXCEPT ![c][l] = Absent]
    /\ UNCHANGED <<trans, access, waiting, reply, fresh, loaded, link>>

\* read(), after secondary_lookup.
LoadFill(c, V, a) ==
    LET x == Brought(c, a)
    IN  /\ trans[c] = "ReadShared"
        /\ Insert(c, access[c].line, V, a, Copy(Granted(c, a), x))
        /\ loaded' = x
        /\ UNCHANGED <<fresh, link>>

\* cold_write, after the line has come.
StoreFill(c, V, a) ==
    LET l == access[c].line
    IN  /\ trans[c] \in {"ReadUnique", "MakeUnique"}
        /\ Insert(c, l, V, a, Copy(Granted(c, a), Merge(Brought(c, a), access[c].data)))
        /\ link' = Unlinked(c, l)
        /\ UNCHANGED <<fresh, loaded>>

\* warm_write after MakeInvalid.
StoreShared(c) ==
    LET l == access[c].line
    IN  /\ trans[c] = "MakeInvalid" /\ fresh[c]
        /\ cached' = [cached EXCEPT ![c][l] = Copy("UniqueDirty", Merge(@.data, access[c].data))]
        /\ Close(c)
        /\ link' = Unlinked(c, l)
        /\ UNCHANGED <<memory, reserved, fresh, loaded>>

\* With an old timestamp warm_write fails, and b_transport calls write() again.
StoreAgain(c) == /\ trans[c] = "MakeInvalid" /\ ~fresh[c]
                 /\ Write(c, access[c].line, access[c].data)

\* A load-linked goes on to memory when the line is in no cache.
LinkedLoad(c, a) ==
    LET l == access[c].line
    IN  /\ access[c].kind = "LoadLinked"
        /\ memory' = Behind(Flushed(c, a))
        /\ reserved' = <<l, c>>
        /\ loaded' = memory'[l]
        /\ link' = [link EXCEPT ![c] = l]
        /\ Close(c)
        /\ UNCHANGED <<cached, fresh>>

\* A form that stores whatever became of the reservation.
ConditionalStoreAnyway(c, a) ==
    LET l == access[c].line
    IN  /\ access[c].kind = "StoreConditional" /\ a.state # "UniqueDirty"
        /\ memory' = [memory EXCEPT ![l] = Merge(@, access[c].data)]
        /\ reserved' = <<Nothing, Nothing>>
        /\ link' = [Unlinked(c, l) EXCEPT ![c] = Nothing]
        /\ Close(c)
        /\ UNCHANGED <<cached, fresh, loaded>>

\* A store-conditional that finds its reservation.
ConditionalStore(c, a) ==
    LET l == access[c].line
    IN  /\ access[c].kind = "StoreConditional"
        /\ reserved = <<l, c>> /\ a.state # "UniqueDirty"
        /\ memory' = [memory EXCEPT ![l] = Merge(@, access[c].data)]
        /\ reserved' = <<Nothing, Nothing>>
        /\ link' = [Unlinked(c, l) EXCEPT ![c] = Nothing]
        /\ Close(c)
        /\ UNCHANGED <<cached, fresh, loaded>>

\* A store-conditional that does not; writing the line back may have cost it.
ConditionalFails(c, a) ==
    /\ access[c].kind = "StoreConditional"
    /\ reserved # <<access[c].line, c>> \/ a.state = "UniqueDirty"
    /\ WriteLines(Flushed(c, a))
    /\ Close(c)
    /\ UNCHANGED <<cached, fresh, loaded, link>>

\* The rest of b_transport once the other caches have answered.
Resume(c) ==
    /\ Answered(c)
    /\ \/ \E a \in Found(c) :
            \/ \E V \in Victims(access[c].line) : LoadFill(c, V, a) \/ StoreFill(c, V, a)
            \/ LinkedLoad(c, a) \/ ConditionalStore(c, a) \/ ConditionalFails(c, a)
       \/ StoreShared(c) \/ StoreAgain(c)

-----------------------------------------------------------------------------
\* b_cp15_access: a core cleans a line, or cleans and invalidates it.  The SCU
\* passes the operation on to every cache, and each writes its copy back,
\* whatever its state; keep says that the copies stay.
Maintain(c, l, keep) ==
    LET holders == {d \in Caches : cached[d][l] # Absent}
    IN  /\ Idle(c)
        /\ \E h \in holders : WriteLines([m \in {l} |-> cached[h][l].data])
        /\ cached' = [d \in Caches |-> [cached[d] EXCEPT ![l] =
                        IF d \in holders /\ keep THEN Copy("SharedClean", @.data) ELSE Absent]]
        /\ Touch(holders, l)
        /\ UNCHANGED <<trans, access, waiting, reply, loaded, link>>

Core(c, l) == \/ LoadHit(c, l) \/ LoadMiss(c, l) \/ InsertOther(c, l)
              \/ \E s \in Stores : Store(c, l, s)
              \/ LockedOp(c, "LoadLinked", l, NoData)
              \/ \E s \in Stores : LockedOp(c, "StoreConditional", l, s)

Maintenance == \E c \in Caches, l \in Lines, keep \in BOOLEAN : Maintain(c, l, keep)

Next == \/ \E c \in Caches : Resume(c) \/ \E l \in Lines : Core(c, l)
        \/ \E c, d \in Caches : Snoop(d, c)
        \/ Maintenance

Spec == Init /\ [][Next]_vars

\* The simulator runs every process that has been notified.
FairSpec == /\ Spec
            /\ \A c \in Caches : WF_vars(Resume(c))
            /\ \A c, d \in Caches : WF_vars(Snoop(d, c))

-----------------------------------------------------------------------------
TypeOK ==
    /\ memory \in [Lines -> Data]
    /\ reserved \in (Lines \X Caches) \cup {<<Nothing, Nothing>>}
    /\ trans \in [Caches -> Requests \cup {"None"}]
    /\ waiting \in [Caches -> SUBSET Caches]
    /\ reply \in [Caches -> [Caches -> Copies]]
    /\ cached \in [Caches -> [Lines -> Copies]]
    /\ fresh \in [Caches -> BOOLEAN]
    /\ loaded \in Data
    /\ link \in [Caches -> Lines \cup {Nothing}]
    /\ access \in [Caches -> Accesses \cup {NoAccess}]
    /\ \A c \in Caches : Idle(c) <=> access[c] = NoAccess

\* A copy that is unique is the only one.
SingleWriter == \A c, d \in Caches, l \in Lines :
                    c # d /\ State(c, l) \in Unique => cached[d][l] = Absent

\* A unique clean copy is not modified with respect to main memory.
CleanIsMemory == \A c \in Caches, l \in Lines :
                    State(c, l) = "UniqueClean" => cached[c][l].data = memory[l]

\* The copies of l, also those on their way in answers, and the dirty ones.
CopiesOf(l) == {cached[c][l] : c \in Caches}
               \cup UNION {{reply[c][d] : d \in Caches} : c \in {b \in Caches : Asks(b, l)}}
DirtyCopies(l) == {x \in CopiesOf(l) : x.state = "UniqueDirty"}

\* What the next load of l is to find: a dirty copy, or else memory.
Latest(D, x) == IF D = {} THEN x ELSE (CHOOSE y \in D : TRUE).data
Value(l) == Latest(DirtyCopies(l), memory[l])

One == INSTANCE OneMemory WITH value <- [l \in Lines |-> Value(l)]
ImplementsOneMemory == One!Spec

\* A store-conditional is done only if nobody has stored to the line since the
\* core's load-linked (dramsim_sc_wrapper.cpp:530).
ConditionalStoreIsLinked ==
    [][\A c \in Caches : \A a \in Found(c) :
          Answered(c) /\ ConditionalStore(c, a) => link[c] = access[c].line]_vars

\* Every access ends, if maintenance does.
AccessesEnd == <>[][~Maintenance]_vars => \A c \in Caches : []<>Idle(c)
=============================================================================

---------------------------- MODULE CCache_proofs ----------------------------
(* That the caches are coherent, and with the memory behind them one       *)
(* memory, for any number of caches, lines and words, as long as no two    *)
(* requests for one line overlap.                                          *)
EXTENDS CCache, TLAPS

-----------------------------------------------------------------------------
(* The invariant about who may have a copy.                                *)

\* What is asked of the other caches, for which access.
AccessInv == \A c \in Caches :
    /\ trans[c] \in {"ReadUnique", "MakeUnique", "MakeInvalid"} => access[c].kind = "Store"
    /\ trans[c] = "ReadShared" => access[c].kind = "Load"
    /\ trans[c] = "Evict" => access[c].kind \in {"LoadLinked", "StoreConditional"}
    /\ access[c].kind \in {"Store", "StoreConditional"} => access[c].data \in Stores

\* One request at a time for a line, and one wait.
RequestInv == \A c \in Caches :
    /\ waiting[c] \subseteq Caches \ {c}
    /\ Idle(c) => waiting[c] = {}
    /\ \A d \in Caches : ~Idle(c) /\ Asks(d, access[c].line) => d = c

\* The cache that asks has no copy, or the shared one that it wants for itself.
AskerInv == \A c \in Caches : ~Idle(c) =>
    IF trans[c] # "MakeInvalid" THEN cached[c][access[c].line] = Absent
    ELSE /\ fresh[c] => cached[c][access[c].line] # Absent
         /\ \A d \in Caches : State(d, access[c].line) \notin Unique

\* The caches that have answered have given up as much as was asked.
AnswerInv == \A c, d \in Caches : ~Idle(c) /\ d # c /\ d \notin waiting[c] =>
    IF trans[c] # "ReadShared" THEN cached[d][access[c].line] = Absent
    ELSE /\ State(d, access[c].line) \notin Unique
         /\ reply[c][d] = Absent => cached[d][access[c].line] = Absent

\* A copy in an answer: nobody has a unique one any more, and a dirty one comes alone.
ReplyInv == \A c, d \in Caches : ~Idle(c) =>
    /\ d \in waiting[c] => reply[c][d] = Absent
    /\ reply[c][d] # Absent => \A e \in Caches : State(e, access[c].line) \notin Unique
    /\ reply[c][d].state = "UniqueDirty" =>
        /\ trans[c] # "MakeInvalid"
        /\ \A e \in Caches \ {d} : /\ reply[c][e] = Absent
                                   /\ e \in waiting[c] => cached[e][access[c].line] = Absent

CoherenceInv == RequestInv /\ AskerInv /\ AnswerInv /\ ReplyInv /\ SingleWriter
IInv == TypeOK /\ AccessInv /\ CoherenceInv

-----------------------------------------------------------------------------
(* Copies and data.                                                        *)

\* The absent copy is the one without data.
LEMMA CopyFacts ==
    /\ Absent \in Copies /\ Absent.state = "Invalid"
    /\ \A x \in Copies : x # Absent => x.data \in Data
                                       /\ x.state \in {"UniqueClean", "UniqueDirty", "SharedClean"}
    /\ \A x \in Data, s \in {"UniqueClean", "UniqueDirty", "SharedClean"} :
            Copy(s, x) \in Copies /\ Copy(s, x) # Absent
            /\ Copy(s, x).state = s /\ Copy(s, x).data = x
BY DEF Copies, Copy, Absent

\* A store leaves a line in the range of the data.
LEMMA MergeType == \A x \in Data, s \in Stores : Merge(x, s) \in Data
BY MergeAssumption

\* Writes of whole lines keep the types of memory and reservation.
LEMMA WriteLinesType ==
    ASSUME TypeOK, NEW W, \A l \in Lines : l \in DOMAIN W => W[l] \in Data
    PROVE  Behind(W) \in [Lines -> Data]
           /\ (WriteLines(W) => memory' \in [Lines -> Data]
                                /\ reserved' \in (Lines \X Caches) \cup {<<Nothing, Nothing>>})
BY DEF TypeOK, Behind, WriteLines

\* What is written back of a cache is data.
LEMMA DirtyType ==
    ASSUME TypeOK, NEW c \in Caches, NEW M \in SUBSET Lines
    PROVE  \A l \in DOMAIN Dirty(c, M) : Dirty(c, M)[l] \in Data /\ l \in M
<1>1. \A m \in M : State(c, m) = "UniqueDirty" => cached[c][m].data \in Data
  BY CopyFacts DEF TypeOK, State
<1> QED  BY <1>1 DEF Dirty

\* The answer that is used is one that was given, or the absent one.
LEMMA FoundFacts ==
    ASSUME TypeOK, NEW c \in Caches, NEW a \in Found(c)
    PROVE  /\ a \in Copies
           /\ a # Absent => \E d \in Caches : a = reply[c][d]
           /\ a = Absent => \A d \in Caches : reply[c][d] = Absent
<1> DEFINE found == {reply[c][d] : d \in Caches} \ {Absent}
<1>1. CASE found = {}
  BY <1>1, CopyFacts DEF Found
<1>2. CASE found # {}
  <2>1. Found(c) = found
    BY <1>2 DEF Found
  <2>2. PICK d \in Caches : a = reply[c][d] /\ a # Absent
    BY <2>1
  <2> QED  BY <2>2 DEF TypeOK
<1> QED  BY <1>1, <1>2

\* An access is one of a known kind, to a line.
LEMMA AccessFacts ==
    ASSUME TypeOK, NEW c \in Caches, ~Idle(c)
    PROVE  access[c] \in Accesses /\ access[c].line \in Lines /\ access[c].kind \in Kinds
BY DEF TypeOK, Accesses

\* What is brought to a cache and what is flushed are data.
LEMMA BroughtType ==
    ASSUME TypeOK, NEW c \in Caches, ~Idle(c), NEW a \in Found(c)
    PROVE  /\ access[c].line \in Lines
           /\ Brought(c, a) \in Data
           /\ \A l \in DOMAIN Flushed(c, a) : l = access[c].line /\ Flushed(c, a)[l] \in Data
<1>1. access[c].line \in Lines
  BY AccessFacts
<1>2. Brought(c, a) \in Data
  BY <1>1, FoundFacts, CopyFacts DEF Brought, TypeOK
<1>3. a.state = "UniqueDirty" => a.data \in Data
  BY FoundFacts, CopyFacts
<1> QED  BY <1>1, <1>2, <1>3 DEF Flushed, NoData

-----------------------------------------------------------------------------
(* Types.                                                                  *)

\* The types hold at the start.
LEMMA InitType == Init => TypeOK /\ AccessInv
BY CopyFacts DEF Init, ScuInit, TypeOK, AccessInv, NoReply, NoAccess, Access, Requests, Reads,
    Idle, Kinds

\* Putting a request.
LEMMA RequestType ==
    ASSUME TypeOK, AccessInv, NEW c \in Caches, NEW l \in Lines, NEW s, NEW k \in Kinds,
           NEW t \in Requests, Request(c, t, Access(k, l, s)),
           s \in Stores \/ (s = NoData /\ k \in {"Load", "LoadLinked"}),
           t \in {"ReadUnique", "MakeUnique", "MakeInvalid"} => k = "Store",
           t = "ReadShared" => k = "Load", t = "Evict" => k \in {"LoadLinked", "StoreConditional"},
           fresh' \in [Caches -> BOOLEAN], memory' \in [Lines -> Data], loaded' = loaded, link' = link,
           reserved' \in (Lines \X Caches) \cup {<<Nothing, Nothing>>},
           cached' \in [Caches -> [Lines -> Copies]]
    PROVE  TypeOK' /\ AccessInv'
<1>1. /\ Access(k, l, s) \in Accesses /\ Access(k, l, s) # NoAccess
      /\ Access(k, l, s).kind = k /\ Access(k, l, s).data = s
  BY DEF Access, Accesses, NoAccess, Kinds
<1>2. /\ access' \in [Caches -> Accesses \cup {NoAccess}]
      /\ \A d \in Caches : /\ trans'[d] = IF d = c THEN t ELSE trans[d]
                          /\ access'[d] = IF d = c THEN Access(k, l, s) ELSE access[d]
  BY <1>1 DEF Request, TypeOK
<1>3. /\ waiting' \in [Caches -> SUBSET Caches] /\ trans' \in [Caches -> Requests \cup {"None"}]
  BY DEF Request, TypeOK
<1>4. reply' \in [Caches -> [Caches -> Copies]]
  BY CopyFacts DEF Request, TypeOK, NoReply
<1>5. t # "None"
  BY DEF Requests, Reads
<1>6. TypeOK'
  BY <1>1, <1>2, <1>3, <1>4, <1>5 DEF TypeOK, Idle
<1>7. AccessInv'
  BY <1>1, <1>2 DEF AccessInv
<1> QED  BY <1>6, <1>7

\* Closing a request.
LEMMA CloseType ==
    ASSUME TypeOK, AccessInv, NEW c \in Caches, Close(c),
           fresh' \in [Caches -> BOOLEAN], memory' \in [Lines -> Data], loaded' \in Data,
           link' \in [Caches -> Lines \cup {Nothing}], cached' \in [Caches -> [Lines -> Copies]],
           reserved' \in (Lines \X Caches) \cup {<<Nothing, Nothing>>}
    PROVE  TypeOK' /\ AccessInv'
<1>1. /\ access' \in [Caches -> Accesses \cup {NoAccess}]
      /\ \A d \in Caches : /\ trans'[d] = IF d = c THEN "None" ELSE trans[d]
                          /\ access'[d] = IF d = c THEN NoAccess ELSE access[d]
  BY DEF Close, TypeOK
<1>2. /\ waiting' \in [Caches -> SUBSET Caches] /\ trans' \in [Caches -> Requests \cup {"None"}]
  BY DEF Close, TypeOK
<1>3. reply' \in [Caches -> [Caches -> Copies]]
  BY CopyFacts DEF Close, TypeOK, NoReply
<1>4. TypeOK'
  BY <1>1, <1>2, <1>3 DEF TypeOK, Idle
<1>5. AccessInv'
  BY <1>1 DEF AccessInv, NoAccess, Access
<1> QED  BY <1>4, <1>5

\* The other steps of a type-correct system.
LEMMA OtherType ==
    ASSUME TypeOK, AccessInv, UNCHANGED <<trans, access, loaded, link>>,
           waiting' \in [Caches -> SUBSET Caches], reply' \in [Caches -> [Caches -> Copies]],
           fresh' \in [Caches -> BOOLEAN], memory' \in [Lines -> Data],
           cached' \in [Caches -> [Lines -> Copies]],
           reserved' \in (Lines \X Caches) \cup {<<Nothing, Nothing>>}
    PROVE  TypeOK' /\ AccessInv'
BY DEF TypeOK, AccessInv, Idle

\* Loads, hit or miss.
LEMMA LoadType ==
    ASSUME TypeOK, AccessInv, NEW c \in Caches, NEW l \in Lines, LoadHit(c, l) \/ LoadMiss(c, l)
    PROVE  TypeOK' /\ AccessInv'
<1>1. CASE LoadHit(c, l)
  <2>1. loaded' \in Data /\ UNCHANGED <<scu, cached, fresh, link>>
    BY <1>1, CopyFacts DEF LoadHit, TypeOK
  <2> QED  BY <2>1 DEF TypeOK, AccessInv, Idle, scu
<1>2. CASE LoadMiss(c, l)
  <2>1. UNCHANGED <<memory, reserved, cached, fresh, loaded, link>>
    BY <1>2 DEF LoadMiss
  <2>2. Request(c, "ReadShared", Access("Load", l, NoData))
    BY <1>2 DEF LoadMiss
  <2>3. "Load" \in Kinds /\ "ReadShared" \in Requests
    BY DEF Kinds, Requests, Reads
  <2> QED  BY <2>1, <2>2, <2>3, RequestType DEF TypeOK
<1> QED  BY <1>1, <1>2

\* Writes that ask for the line.
LEMMA WriteAsksType ==
    ASSUME TypeOK, AccessInv, NEW c \in Caches, NEW l \in Lines, NEW s \in Stores,
           WriteShared(c, l, s) \/ WriteMiss(c, l, s)
    PROVE  TypeOK' /\ AccessInv'
<1>1. UNCHANGED <<memory, reserved, cached, loaded, link>> /\ fresh' \in [Caches -> BOOLEAN]
  BY DEF WriteShared, WriteMiss, TypeOK
<1>2. PICK t \in {"MakeInvalid", "MakeUnique", "ReadUnique"} : Request(c, t, Access("Store", l, s))
  BY DEF WriteShared, WriteMiss
<1>3. "Store" \in Kinds /\ t \in Requests
  BY DEF Kinds, Requests, Reads
<1> QED  BY <1>1, <1>2, <1>3, RequestType DEF TypeOK

\* Writes that hit.
LEMMA WriteHitType ==
    ASSUME TypeOK, AccessInv, NEW c \in Caches, NEW l \in Lines, NEW s \in Stores,
           WriteHit(c, l, s)
    PROVE  TypeOK' /\ AccessInv'
<1>1. State(c, l) # "Invalid" /\ cached[c][l] \in Copies
  BY DEF WriteHit, Unique, TypeOK
<1>2. Copy("UniqueDirty", Merge(cached[c][l].data, s)) \in Copies
  BY <1>1, CopyFacts, MergeType DEF State
<1>3. cached' \in [Caches -> [Lines -> Copies]]
  BY <1>2 DEF WriteHit, TypeOK
<1>4. link' \in [Caches -> Lines \cup {Nothing}]
  BY DEF WriteHit, Unlinked, TypeOK
<1>5. Close(c) /\ fresh' \in [Caches -> BOOLEAN] /\ UNCHANGED <<memory, reserved, loaded>>
  BY DEF WriteHit, TypeOK
<1> QED  BY <1>3, <1>4, <1>5, CloseType DEF TypeOK

\* A line written back and driven out of c.
LEMMA WriteBackType ==
    ASSUME TypeOK, NEW c \in Caches, NEW l \in Lines, WriteLines(Dirty(c, {l})),
           cached' = [cached EXCEPT ![c][l] = Absent]
    PROVE  /\ memory' \in [Lines -> Data] /\ cached' \in [Caches -> [Lines -> Copies]]
           /\ reserved' \in (Lines \X Caches) \cup {<<Nothing, Nothing>>}
<1>1. \A m \in Lines : m \in DOMAIN Dirty(c, {l}) => Dirty(c, {l})[m] \in Data
  BY DirtyType
<1> QED  BY <1>1, WriteLinesType, CopyFacts DEF TypeOK

\* Load-linked and store-conditional.
LEMMA LockedOpType ==
    ASSUME TypeOK, AccessInv, NEW c \in Caches, NEW k \in {"LoadLinked", "StoreConditional"},
           NEW l \in Lines, NEW s, s \in Stores \/ (s = NoData /\ k = "LoadLinked"),
           LockedOp(c, k, l, s)
    PROVE  TypeOK' /\ AccessInv'
<1>1. k \in Kinds /\ "Evict" \in Requests
  BY DEF Kinds, Requests, Reads
<1>2. /\ memory' \in [Lines -> Data] /\ cached' \in [Caches -> [Lines -> Copies]]
      /\ reserved' \in (Lines \X Caches) \cup {<<Nothing, Nothing>>}
  BY WriteBackType DEF LockedOp
<1>3. UNCHANGED <<fresh, loaded, link>> /\ Request(c, "Evict", Access(k, l, s))
  BY DEF LockedOp
<1> QED  BY <1>1, <1>2, <1>3, RequestType DEF TypeOK

\* What the other caches do to their copies, and what maintenance does.
LEMMA SnoopType ==
    ASSUME TypeOK, AccessInv, NEW c \in Caches, NEW d \in Caches, ~Idle(c), Snoop(d, c)
    PROVE  TypeOK' /\ AccessInv'
<1> DEFINE l == access[c].line
<1>1. l \in Lines
  BY AccessFacts
<1>2. cached[d][l] \in Copies
  BY <1>1 DEF TypeOK
<1>3. AfterSnoop(c, cached[d][l]) \in Copies
  BY <1>2, CopyFacts DEF AfterSnoop, Unique
<1>4. cached' \in [Caches -> [Lines -> Copies]]
  BY <1>1, <1>3 DEF Snoop, TypeOK
<1>5. /\ waiting' \in [Caches -> SUBSET Caches] /\ reply' \in [Caches -> [Caches -> Copies]]
      /\ UNCHANGED <<memory, reserved, trans, access, loaded, link>>
  BY <1>2 DEF Snoop, Answer, TypeOK
<1>6. fresh' \in [Caches -> BOOLEAN]
  BY DEF Snoop, Touch, TypeOK
<1> QED  BY <1>4, <1>5, <1>6, OtherType DEF TypeOK

LEMMA MaintainType ==
    ASSUME TypeOK, AccessInv, NEW c \in Caches, NEW l \in Lines, NEW keep \in BOOLEAN,
           Maintain(c, l, keep)
    PROVE  TypeOK' /\ AccessInv'
<1>1. PICK h \in Caches : cached[h][l] # Absent /\ WriteLines([m \in {l} |-> cached[h][l].data])
  BY DEF Maintain
<1>2. cached[h][l].data \in Data
  BY <1>1, CopyFacts DEF TypeOK
<1>3. /\ memory' \in [Lines -> Data]
      /\ reserved' \in (Lines \X Caches) \cup {<<Nothing, Nothing>>}
  BY <1>1, <1>2, WriteLinesType
<1>4. \A d \in Caches : cached[d][l] # Absent => Copy("SharedClean", cached[d][l].data) \in Copies
  BY CopyFacts DEF TypeOK
<1>5. cached' \in [Caches -> [Lines -> Copies]]
  BY <1>4, CopyFacts DEF Maintain, TypeOK
<1>6. fresh' \in [Caches -> BOOLEAN] /\ UNCHANGED <<trans, access, waiting, reply, loaded, link>>
  BY DEF Maintain, Touch, TypeOK
<1> QED  BY <1>3, <1>5, <1>6, OtherType DEF TypeOK

LEMMA InsertOtherType ==
    ASSUME TypeOK, AccessInv, NEW c \in Caches, NEW l \in Lines, InsertOther(c, l)
    PROVE  TypeOK' /\ AccessInv'
BY WriteBackType, OtherType DEF InsertOther, TypeOK

\* A line inserted in a way, and what this writes to memory.
LEMMA InsertType ==
    ASSUME TypeOK, AccessInv, NEW c \in Caches, ~Idle(c), NEW a \in Found(c), NEW copy \in Copies,
           NEW V \in Victims(access[c].line), Insert(c, access[c].line, V, a, copy), UNCHANGED fresh,
           loaded' \in Data, link' \in [Caches -> Lines \cup {Nothing}]
    PROVE  TypeOK' /\ AccessInv'
<1> DEFINE l == access[c].line
           F == Flushed(c, a)
           D == Dirty(c, V)
           W == [m \in DOMAIN F \cup DOMAIN D |-> IF m = l THEN a.data ELSE cached[c][m].data]
<1>1. V \subseteq Lines /\ l \in Lines /\ l \notin V
  BY AccessFacts DEF Victims
<1>2. \A m \in DOMAIN F : m = l /\ F[m] = a.data /\ a.data \in Data
  BY BroughtType DEF Flushed, NoData
<1>3. \A m \in DOMAIN D : m \in V /\ cached[c][m].data \in Data
  BY <1>1, CopyFacts DEF Dirty, TypeOK, State
<1>4. \A m \in DOMAIN W : W[m] \in Data
  BY <1>1, <1>2, <1>3
<1>5. WriteLines(W) /\ Close(c)
  BY DEF Insert
<1>6. /\ memory' \in [Lines -> Data]
      /\ reserved' \in (Lines \X Caches) \cup {<<Nothing, Nothing>>}
  <2> HIDE DEF W
  <2> QED  BY <1>4, <1>5, WriteLinesType
<1>7. cached' \in [Caches -> [Lines -> Copies]]
  BY CopyFacts DEF Insert, TypeOK
<1> QED  BY <1>5, <1>6, <1>7, CloseType DEF TypeOK

\* The end of a miss.
LEMMA FillType ==
    ASSUME TypeOK, AccessInv, NEW c \in Caches, ~Idle(c), NEW a \in Found(c),
           NEW V \in Victims(access[c].line), LoadFill(c, V, a) \/ StoreFill(c, V, a)
    PROVE  TypeOK' /\ AccessInv'
<1>1. access[c].line \in Lines /\ Brought(c, a) \in Data
  BY BroughtType
<1>2. Granted(c, a) \in {"UniqueClean", "UniqueDirty", "SharedClean"}
  BY DEF Granted
<1>3. CASE LoadFill(c, V, a)
  <2>1. Copy(Granted(c, a), Brought(c, a)) \in Copies
    BY <1>1, <1>2, CopyFacts
  <2>2. UNCHANGED fresh /\ loaded' \in Data /\ link' \in [Caches -> Lines \cup {Nothing}]
    BY <1>1, <1>3 DEF LoadFill, TypeOK
  <2> QED  BY <1>3, <2>1, <2>2, InsertType DEF LoadFill
<1>4. CASE StoreFill(c, V, a)
  <2>1. access[c].data \in Stores
    BY <1>4 DEF StoreFill, AccessInv
  <2>2. Copy(Granted(c, a), Merge(Brought(c, a), access[c].data)) \in Copies
    BY <1>1, <1>2, <2>1, CopyFacts, MergeType
  <2>3. UNCHANGED fresh /\ loaded' \in Data /\ link' \in [Caches -> Lines \cup {Nothing}]
    BY <1>4 DEF StoreFill, TypeOK, Unlinked
  <2> QED  BY <1>4, <2>2, <2>3, InsertType DEF StoreFill
<1> QED  BY <1>3, <1>4

\* The end of a write to a shared line.
LEMMA StoreSharedType ==
    ASSUME TypeOK, AccessInv, AskerInv, NEW c \in Caches, ~Idle(c), StoreShared(c)
    PROVE  TypeOK' /\ AccessInv'
<1> DEFINE l == access[c].line
<1>1. l \in Lines /\ access[c].data \in Stores /\ cached[c][l] \in Copies /\ cached[c][l] # Absent
  BY AccessFacts DEF StoreShared, AccessInv, AskerInv, TypeOK
<1>2. Copy("UniqueDirty", Merge(cached[c][l].data, access[c].data)) \in Copies
  BY <1>1, CopyFacts, MergeType
<1>3. cached' \in [Caches -> [Lines -> Copies]]
  BY <1>1, <1>2 DEF StoreShared, TypeOK
<1>4. /\ Close(c) /\ UNCHANGED <<memory, reserved, fresh, loaded>>
      /\ link' \in [Caches -> Lines \cup {Nothing}]
  BY DEF StoreShared, Unlinked, TypeOK
<1> QED  BY <1>3, <1>4, CloseType DEF TypeOK

\* The end of load-linked and store-conditional.
LEMMA LinkedType ==
    ASSUME TypeOK, AccessInv, NEW c \in Caches, ~Idle(c), NEW a \in Found(c),
           LinkedLoad(c, a) \/ ConditionalStore(c, a) \/ ConditionalFails(c, a)
    PROVE  TypeOK' /\ AccessInv'
<1> DEFINE l == access[c].line
<1>1. l \in Lines /\ \A m \in DOMAIN Flushed(c, a) : Flushed(c, a)[m] \in Data
  BY BroughtType
<1>2. Close(c) /\ UNCHANGED <<cached, fresh>>
  BY DEF LinkedLoad, ConditionalStore, ConditionalFails
<1>3. CASE LinkedLoad(c, a)
  <2>1. memory' \in [Lines -> Data]
    BY <1>1, <1>3, WriteLinesType DEF LinkedLoad
  <2>2. /\ loaded' \in Data /\ reserved' \in Lines \X Caches
        /\ link' \in [Caches -> Lines \cup {Nothing}]
    BY <1>1, <1>3, <2>1 DEF LinkedLoad, TypeOK
  <2> QED  BY <1>2, <2>1, <2>2, CloseType DEF TypeOK
<1>4. CASE ConditionalStore(c, a)
  <2>1. access[c].data \in Stores
    BY <1>4 DEF ConditionalStore, AccessInv
  <2>2. Merge(memory[l], access[c].data) \in Data
    BY <1>1, <2>1, MergeType DEF TypeOK
  <2>3. /\ memory' \in [Lines -> Data] /\ reserved' = <<Nothing, Nothing>>
        /\ link' \in [Caches -> Lines \cup {Nothing}] /\ UNCHANGED loaded
    BY <1>1, <1>4, <2>2 DEF ConditionalStore, TypeOK, Unlinked
  <2> QED  BY <1>2, <2>3, CloseType DEF TypeOK
<1>5. CASE ConditionalFails(c, a)
  <2>1. /\ memory' \in [Lines -> Data]
        /\ reserved' \in (Lines \X Caches) \cup {<<Nothing, Nothing>>}
    BY <1>1, <1>5, WriteLinesType DEF ConditionalFails
  <2>2. UNCHANGED <<loaded, link>>
    BY <1>5 DEF ConditionalFails
  <2> QED  BY <1>2, <2>1, <2>2, CloseType DEF TypeOK
<1> QED  BY <1>3, <1>4, <1>5

\* Every step keeps the types.
LEMMA NextType ==
    ASSUME IInv, Next
    PROVE  TypeOK' /\ AccessInv'
<1> USE DEF IInv, CoherenceInv
<1>1. CASE \E c \in Caches : Resume(c)
  <2>1. PICK c \in Caches : Resume(c)
    BY <1>1
  <2>2. ~Idle(c)
    BY <2>1 DEF Resume, Answered, Idle
  <2>3. CASE StoreAgain(c)
    <3>1. access[c].line \in Lines /\ access[c].data \in Stores
      BY <2>2, <2>3, AccessFacts DEF StoreAgain, AccessInv
    <3> QED  BY <2>3, <3>1, WriteHitType, WriteAsksType DEF StoreAgain, Write
  <2> QED  BY <2>1, <2>2, <2>3, FillType, StoreSharedType, LinkedType DEF Resume
<1>2. CASE \E c \in Caches, l \in Lines : Core(c, l)
  BY <1>2, LoadType, InsertOtherType, WriteHitType, WriteAsksType, LockedOpType
  DEF Core, Store, Write
<1>3. CASE \E c, d \in Caches : Snoop(d, c)
  <2>1. PICK c \in Caches, d \in Caches : Snoop(d, c)
    BY <1>3
  <2>2. ~Idle(c)
    BY <2>1 DEF Snoop, RequestInv
  <2> QED  BY <2>1, <2>2, SnoopType
<1>4. CASE Maintenance
  BY <1>4, MaintainType DEF Maintenance
<1> QED  BY <1>1, <1>2, <1>3, <1>4 DEF Next

-----------------------------------------------------------------------------
(* Coherence.                                                              *)

\* y is what is left of the copy x when a cache gives up some of its rights.
Weaker(y, x) == y = x \/ y = Absent \/ (x # Absent /\ y.state = "SharedClean")

\* The parts of a state that the invariant looks at.
LEMMA WeakerFacts ==
    ASSUME NEW x \in Copies, NEW y \in Copies, Weaker(y, x)
    PROVE  (x = Absent => y = Absent) /\ (y.state \in Unique => y = x)
BY CopyFacts DEF Weaker, Unique

\* It holds at the start, when nobody has or asks for anything.
LEMMA InitCoherent == Init => CoherenceInv
BY CopyFacts DEF Init, ScuInit, CoherenceInv, RequestInv, AskerInv, AnswerInv, ReplyInv, SingleWriter,
    Idle, Asks, State, Unique

\* Copies may be weakened at any time, if this counts up the timestamps.
LEMMA WeakenCoherent ==
    ASSUME IInv, TypeOK', UNCHANGED <<trans, access, waiting, reply>>,
           \A d \in Caches, m \in Lines :
                /\ Weaker(cached'[d][m], cached[d][m])
                /\ fresh'[d] /\ Asks(d, m) => fresh[d] /\ (cached[d][m] # Absent => cached'[d][m] # Absent)
    PROVE  CoherenceInv'
<1> USE DEF IInv, CoherenceInv
<1>1. \A d \in Caches, m \in Lines : cached[d][m] \in Copies /\ cached'[d][m] \in Copies
  BY DEF TypeOK
<1>2. \A d \in Caches, m \in Lines :
        /\ cached[d][m] = Absent => cached'[d][m] = Absent
        /\ State(d, m)' \in Unique => cached'[d][m] = cached[d][m]
  BY <1>1, WeakerFacts DEF State
<1>3. \A c \in Caches : ~Idle(c) => access[c].line \in Lines
  BY AccessFacts
<1>4. RequestInv'
  BY DEF RequestInv, Idle, Asks
<1>5. AskerInv'
  BY <1>2, <1>3 DEF AskerInv, Idle, Asks, State
<1>6. AnswerInv'
  BY <1>2, <1>3 DEF AnswerInv, Idle, State
<1>7. SingleWriter'
  BY <1>2 DEF SingleWriter, State
<1>8. ReplyInv'
  BY <1>2, <1>3 DEF ReplyInv, Idle, State
<1> QED  BY <1>4, <1>5, <1>6, <1>7, <1>8

\* A new request starts with everyone's answer due.
LEMMA RequestCoherent ==
    ASSUME Serialised, IInv, TypeOK', NEW c \in Caches, NEW l \in Lines, NEW t \in Requests, NEW a,
           a.line = l, Request(c, t, a), Idle(c) \/ Asks(c, l),
           \A d \in Caches, m \in Lines : cached'[d][m] =
                IF d = c /\ m = l /\ t # "MakeInvalid" THEN Absent ELSE cached[d][m],
           t = "MakeInvalid" => State(c, l) = "SharedClean",
           \A d \in Caches \ {c} : fresh'[d] = fresh[d]
    PROVE  CoherenceInv'
<1> USE DEF IInv, CoherenceInv
<1>1. \A d \in Caches : /\ trans'[d] = IF d = c THEN t ELSE trans[d]
                        /\ access'[d] = IF d = c THEN a ELSE access[d]
                        /\ waiting'[d] = IF d = c THEN Caches \ {c} ELSE waiting[d]
                        /\ reply'[d] = IF d = c THEN NoReply ELSE reply[d]
  BY DEF Request, TypeOK
<1>2. t # "None" /\ \A d \in Caches \ {c} : ~Asks(d, l)
  BY DEF Request, Requests, Reads
<1>3. \A d \in Caches : ~Idle(d) => access[d].line \in Lines
  BY AccessFacts
<1>4. t = "MakeInvalid" => cached[c][l] # Absent /\ \A d \in Caches : State(d, l) \notin Unique
  BY CopyFacts DEF State, SingleWriter, Unique
<1>5. RequestInv'
  BY <1>1, <1>2 DEF RequestInv, Idle, Asks
<1>6. AskerInv'
  <2> SUFFICES ASSUME NEW e \in Caches, ~Idle(e)'
               PROVE  IF trans'[e] # "MakeInvalid" THEN cached'[e][access'[e].line] = Absent
                      ELSE /\ fresh'[e] => cached'[e][access'[e].line] # Absent
                           /\ \A d \in Caches : cached'[d][access'[e].line].state \notin Unique
    BY DEF AskerInv, State
  <2>1. CASE e = c
    BY <1>1, <1>4, <2>1 DEF State
  <2>2. CASE e # c
    BY <1>1, <1>2, <1>3, <2>2 DEF AskerInv, Idle, Asks, State
  <2> QED  BY <2>1, <2>2
<1>7. AnswerInv'
  BY <1>1, <1>2, <1>3, CopyFacts DEF AnswerInv, Idle, Asks, State, Unique
<1>8. SingleWriter'
  BY CopyFacts DEF SingleWriter, State, Unique
<1>9. ReplyInv'
  <2> SUFFICES ASSUME NEW e \in Caches, NEW d \in Caches, ~Idle(e)'
               PROVE  /\ d \in waiting'[e] => reply'[e][d] = Absent
                      /\ reply'[e][d] # Absent =>
                            \A f \in Caches : cached'[f][access'[e].line].state \notin Unique
                      /\ reply'[e][d].state = "UniqueDirty" =>
                            /\ trans'[e] # "MakeInvalid"
                            /\ \A f \in Caches \ {d} :
                                /\ reply'[e][f] = Absent
                                /\ f \in waiting'[e] => cached'[f][access'[e].line] = Absent
    BY DEF ReplyInv, State
  <2>1. CASE e = c
    BY <1>1, <2>1, CopyFacts DEF NoReply
  <2>2. CASE e # c
    BY <1>1, <1>3, <2>2, CopyFacts DEF ReplyInv, Idle, State, Unique
  <2> QED  BY <2>1, <2>2
<1> QED  BY <1>5, <1>6, <1>7, <1>8, <1>9

\* A request is closed and c's copy of l becomes what the answers allow.
LEMMA CloseCoherent ==
    ASSUME IInv, TypeOK', NEW c \in Caches, NEW l \in Lines, Close(c), waiting[c] = {},
           \A d \in Caches, m \in Lines : d # c \/ m # l =>
                cached'[d][m] = cached[d][m] \/ (d = c /\ cached'[d][m] = Absent),
           \A d \in Caches \ {c} : fresh'[d] = fresh[d],
           \/ State(c, l) \in Unique /\ State(c, l)' \in Unique
           \/ /\ Asks(c, l)
              /\ State(c, l)' \in Unique => \A d \in Caches \ {c} : cached[d][l] = Absent
              /\ cached'[c][l] # Absent => \A d \in Caches \ {c} : State(d, l) \notin Unique
    PROVE  CoherenceInv'
<1> USE DEF IInv, CoherenceInv
<1>1. \A d \in Caches : /\ trans'[d] = IF d = c THEN "None" ELSE trans[d]
                        /\ access'[d] = IF d = c THEN NoAccess ELSE access[d]
                        /\ waiting'[d] = waiting[d]
                        /\ d # c => reply'[d] = reply[d]
  BY DEF Close, TypeOK
<1>2. \A d \in Caches : ~Idle(d) => access[d].line \in Lines
  BY AccessFacts
<1>3. Asks(c, l) => \A d \in Caches \ {c} : ~Asks(d, l)
  BY DEF RequestInv, Asks, Idle
<1>8. \A d \in Caches, m \in Lines : d # c \/ m # l =>
        /\ cached[d][m] = Absent => cached'[d][m] = Absent
        /\ cached'[d][m].state \in Unique => State(d, m) \in Unique
  BY CopyFacts DEF State, Unique
<1>4. RequestInv'
  BY <1>1 DEF RequestInv, Idle, Asks
<1>5. AskerInv'
  <2> SUFFICES ASSUME NEW e \in Caches \ {c}, ~Idle(e)
               PROVE  IF trans[e] # "MakeInvalid" THEN cached'[e][access[e].line] = Absent
                      ELSE /\ fresh[e] => cached'[e][access[e].line] # Absent
                           /\ \A d \in Caches : cached'[d][access[e].line].state \notin Unique
    BY <1>1 DEF AskerInv, Idle, State
  <2>1. cached'[e][access[e].line] = cached[e][access[e].line]
    BY <1>2
  <2>2. ASSUME trans[e] = "MakeInvalid", NEW d \in Caches PROVE cached'[d][access[e].line].state \notin Unique
    <3>1. State(d, access[e].line) \notin Unique
      BY <2>2 DEF AskerInv
    <3>2. CASE d = c /\ access[e].line = l
      BY <1>3, <3>1, <3>2 DEF Asks, Idle
    <3>3. CASE ~(d = c /\ access[e].line = l)
      BY <1>2, <1>8, <3>1, <3>3 DEF State
    <3> QED  BY <3>2, <3>3
  <2> QED  BY <2>1, <2>2 DEF AskerInv
<1>6. AnswerInv'
  <2> SUFFICES ASSUME NEW e \in Caches \ {c}, NEW d \in Caches, ~Idle(e), d # e, d \notin waiting[e]
               PROVE  IF trans[e] # "ReadShared" THEN cached'[d][access[e].line] = Absent
                      ELSE /\ cached'[d][access[e].line].state \notin Unique
                           /\ reply[e][d] = Absent => cached'[d][access[e].line] = Absent
    BY <1>1 DEF AnswerInv, Idle, State
  <2>1. CASE d = c /\ access[e].line = l
    BY <1>3, <2>1, CopyFacts DEF AnswerInv, Asks, Idle, State, Unique
  <2>2. CASE ~(d = c /\ access[e].line = l)
    BY <1>2, <1>8, <2>2 DEF AnswerInv, State
  <2> QED  BY <2>1, <2>2
<1>7. SingleWriter'
  <2> SUFFICES ASSUME NEW d \in Caches, NEW e \in Caches, NEW m \in Lines, d # e,
                      State(d, m)' \in Unique
               PROVE  cached'[e][m] = Absent
    BY DEF SingleWriter
  <2>1. CASE m # l
    BY <2>1, CopyFacts DEF SingleWriter, State, Unique
  <2>2. CASE m = l /\ d = c
    BY <2>2 DEF SingleWriter, State
  <2>3. CASE m = l /\ d # c
    BY <2>3, CopyFacts DEF SingleWriter, State, Unique
  <2> QED  BY <2>1, <2>2, <2>3
<1>9. ReplyInv'
  <2> SUFFICES ASSUME NEW e \in Caches \ {c}, NEW d \in Caches, ~Idle(e)
               PROVE  /\ d \in waiting[e] => reply[e][d] = Absent
                      /\ reply[e][d] # Absent =>
                            \A f \in Caches : cached'[f][access[e].line].state \notin Unique
                      /\ reply[e][d].state = "UniqueDirty" =>
                            /\ trans[e] # "MakeInvalid"
                            /\ \A f \in Caches \ {d} :
                                /\ reply[e][f] = Absent
                                /\ f \in waiting[e] => cached'[f][access[e].line] = Absent
    BY <1>1 DEF ReplyInv, Idle, State
  <2>1. ASSUME reply[e][d] # Absent, NEW f \in Caches
        PROVE  cached'[f][access[e].line].state \notin Unique
    <3>1. State(f, access[e].line) \notin Unique
      BY <2>1 DEF ReplyInv
    <3>2. CASE f = c /\ access[e].line = l
      BY <1>3, <3>1, <3>2 DEF Asks, Idle
    <3>3. CASE ~(f = c /\ access[e].line = l)
      BY <1>2, <1>8, <3>1, <3>3
    <3> QED  BY <3>2, <3>3
  <2>2. ASSUME reply[e][d].state = "UniqueDirty", NEW f \in Caches \ {d}, f \in waiting[e]
        PROVE  cached'[f][access[e].line] = Absent
    <3>1. cached[f][access[e].line] = Absent
      BY <2>2 DEF ReplyInv
    <3>2. CASE f = c /\ access[e].line = l
      BY <1>3, <3>1, <3>2, CopyFacts DEF Asks, Idle, State, Unique
    <3>3. CASE ~(f = c /\ access[e].line = l)
      BY <1>2, <1>8, <3>1, <3>3
    <3> QED  BY <3>2, <3>3
  <2> QED  BY <2>1, <2>2 DEF ReplyInv
<1> QED  BY <1>4, <1>5, <1>6, <1>7, <1>9

\* Loads, hit or miss.
LEMMA LoadCoherent ==
    ASSUME Serialised, IInv, TypeOK', NEW c \in Caches, NEW l \in Lines,
           LoadHit(c, l) \/ LoadMiss(c, l)
    PROVE  CoherenceInv'
<1>1. CASE LoadHit(c, l)
  BY <1>1 DEF LoadHit, scu, IInv, CoherenceInv, RequestInv, AskerInv, AnswerInv, ReplyInv,
              SingleWriter, Idle, Asks, State
<1>2. CASE LoadMiss(c, l)
  <2> DEFINE a == Access("Load", l, NoData)
  <2>1. "ReadShared" \in Requests /\ a.line = l
    BY DEF Requests, Reads, Access
  <2>2. Request(c, "ReadShared", a) /\ Idle(c) /\ cached[c][l] = Absent /\ UNCHANGED <<cached, fresh>>
    BY <1>2 DEF LoadMiss
  <2>3. \A d \in Caches, m \in Lines :
            cached'[d][m] = IF d = c /\ m = l THEN Absent ELSE cached[d][m]
    BY <2>2
  <2> HIDE DEF a
  <2> QED  BY <2>1, <2>2, <2>3, RequestCoherent
<1> QED  BY <1>1, <1>2

\* Writes that ask for the line.
LEMMA WriteAsksCoherent ==
    ASSUME Serialised, IInv, TypeOK', NEW c \in Caches, NEW l \in Lines, NEW s \in Stores,
           Idle(c) \/ Asks(c, l), WriteShared(c, l, s) \/ WriteMiss(c, l, s)
    PROVE  CoherenceInv'
<1> DEFINE a == Access("Store", l, s)
<1>1. /\ UNCHANGED cached /\ \A d \in Caches \ {c} : fresh'[d] = fresh[d]
      /\ a.line = l
  BY DEF WriteShared, WriteMiss, IInv, TypeOK, Access
<1>2. CASE WriteShared(c, l, s)
  <2>1. Request(c, "MakeInvalid", a) /\ "MakeInvalid" \in Requests /\ State(c, l) = "SharedClean"
    BY <1>2 DEF WriteShared, Requests
  <2> HIDE DEF a
  <2> QED  BY <1>1, <2>1, RequestCoherent
<1>3. CASE WriteMiss(c, l, s)
  <2>1. PICK t \in {"MakeUnique", "ReadUnique"} : Request(c, t, a)
    BY <1>3 DEF WriteMiss
  <2>2. t \in Requests /\ t # "MakeInvalid"
    BY DEF Requests, Reads
  <2>3. \A d \in Caches, m \in Lines :
            cached'[d][m] = IF d = c /\ m = l THEN Absent ELSE cached[d][m]
    BY <1>1, <1>3 DEF WriteMiss
  <2> HIDE DEF a
  <2> QED  BY <1>1, <2>1, <2>2, <2>3, RequestCoherent
<1> QED  BY <1>2, <1>3

\* Load-linked and store-conditional.
LEMMA LockedOpCoherent ==
    ASSUME Serialised, IInv, TypeOK', NEW c \in Caches, NEW l \in Lines, NEW k, NEW s,
           LockedOp(c, k, l, s)
    PROVE  CoherenceInv'
<1> DEFINE a == Access(k, l, s)
<1>1. /\ Request(c, "Evict", a) /\ Idle(c) /\ UNCHANGED fresh
      /\ cached' = [cached EXCEPT ![c][l] = Absent]
  BY DEF LockedOp
<1>2. \A d \in Caches, m \in Lines :
        cached'[d][m] = IF d = c /\ m = l THEN Absent ELSE cached[d][m]
  BY <1>1 DEF IInv, TypeOK
<1>3. "Evict" \in Requests /\ a.line = l
  BY DEF Requests, Access
<1> HIDE DEF a
<1> QED  BY <1>1, <1>2, <1>3, RequestCoherent

\* A hit of a write.
LEMMA WriteHitCoherent ==
    ASSUME IInv, TypeOK', NEW c \in Caches, NEW l \in Lines, NEW s \in Stores, waiting[c] = {},
           WriteHit(c, l, s)
    PROVE  CoherenceInv'
<1> USE DEF IInv
<1>1. cached[c][l] \in Copies /\ cached[c][l] # Absent /\ State(c, l) \in Unique
  BY CopyFacts DEF WriteHit, TypeOK, State, Unique
<1>2. \A d \in Caches, m \in Lines : cached'[d][m] =
        IF d = c /\ m = l THEN Copy("UniqueDirty", Merge(cached[c][l].data, s)) ELSE cached[d][m]
  BY DEF WriteHit, TypeOK
<1>3. State(c, l)' \in Unique
  BY <1>1, <1>2, CopyFacts, MergeType DEF State, Unique
<1>4. Close(c) /\ \A d \in Caches \ {c} : fresh'[d] = fresh[d]
  BY DEF WriteHit, TypeOK
<1> QED  BY <1>1, <1>2, <1>3, <1>4, CloseCoherent

\* Other lines that come and go, and maintenance.
LEMMA InsertOtherCoherent ==
    ASSUME IInv, TypeOK', NEW c \in Caches, NEW l \in Lines, InsertOther(c, l)
    PROVE  CoherenceInv'
<1>1. UNCHANGED <<trans, access, waiting, reply, fresh>> /\ ~Asks(c, l)
  BY DEF InsertOther, Asks, Idle
<1>2. \A d \in Caches, m \in Lines :
        cached'[d][m] = IF d = c /\ m = l THEN Absent ELSE cached[d][m]
  BY DEF InsertOther, IInv, TypeOK
<1> QED  BY <1>1, <1>2, WeakenCoherent DEF Weaker

LEMMA MaintainCoherent ==
    ASSUME IInv, TypeOK', NEW c \in Caches, NEW l \in Lines, NEW keep \in BOOLEAN,
           Maintain(c, l, keep)
    PROVE  CoherenceInv'
<1> USE DEF IInv
<1>1. UNCHANGED <<trans, access, waiting, reply>>
  BY DEF Maintain
<1>2. \A d \in Caches, m \in Lines : cached'[d][m] =
        IF m # l THEN cached[d][m]
        ELSE IF cached[d][l] # Absent /\ keep THEN Copy("SharedClean", cached[d][l].data) ELSE Absent
  BY DEF Maintain, TypeOK
<1>3. ASSUME NEW d \in Caches, NEW m \in Lines PROVE Weaker(cached'[d][m], cached[d][m])
  <2>1. cached[d][l] # Absent => Copy("SharedClean", cached[d][l].data).state = "SharedClean"
    BY CopyFacts DEF TypeOK
  <2> QED  BY <1>2, <2>1 DEF Weaker
<1>4. \A d \in Caches : fresh'[d] => fresh[d] /\ ~(cached[d][l] # Absent /\ Asks(d, l))
  BY DEF Maintain, Touch
<1> QED  BY <1>1, <1>2, <1>3, <1>4, WeakenCoherent

\* An answer to a request: what the cache keeps is what was not asked for.
LEMMA SnoopCoherent ==
    ASSUME IInv, TypeOK', NEW c \in Caches, NEW d \in Caches, Snoop(d, c)
    PROVE  CoherenceInv'
<1> USE DEF IInv, CoherenceInv
<1> DEFINE l == access[c].line
<1>1. ~Idle(c) /\ d # c /\ l \in Lines
  <2>1. ~Idle(c) /\ d # c
    BY DEF Snoop, RequestInv
  <2> QED  BY <2>1, AccessFacts
<1>2. /\ UNCHANGED <<trans, access>>
      /\ \A e \in Caches : /\ waiting'[e] = IF e = c THEN waiting[c] \ {d} ELSE waiting[e]
                           /\ \A f \in Caches : reply'[e][f] =
                                IF e = c /\ f = d THEN cached[d][l] ELSE reply[e][f]
  BY DEF Snoop, Answer, TypeOK
<1>3. \A e \in Caches, m \in Lines : cached'[e][m] =
        IF e = d /\ m = l THEN AfterSnoop(c, cached[d][l]) ELSE cached[e][m]
  BY <1>1 DEF Snoop, TypeOK
<1>4. /\ trans[c] = "MakeInvalid" => State(d, l) \notin Unique
      /\ \A e \in Caches \ {c} : ~Idle(e) => access[e].line # l
  BY <1>1 DEF AskerInv, RequestInv, Asks, Idle
<1>5. /\ AfterSnoop(c, cached[d][l]).state \notin Unique
      /\ cached[d][l] = Absent => AfterSnoop(c, cached[d][l]) = Absent
      /\ trans[c] # "ReadShared" => AfterSnoop(c, cached[d][l]) = Absent
  <2>1. cached[d][l] \in Copies
    BY <1>1 DEF TypeOK
  <2> QED  BY <1>4, <2>1, CopyFacts DEF AfterSnoop, State, Unique
<1>6. \A e \in Caches, m \in Lines :
        /\ cached[e][m] = Absent => cached'[e][m] = Absent
        /\ cached'[e][m].state \in Unique => cached'[e][m] = cached[e][m]
  BY <1>3, <1>5
<1>7. \A e \in Caches : ~Idle(e) => access[e].line \in Lines
  BY AccessFacts
<1>8. fresh' = fresh
  BY <1>4, <1>1, <1>7 DEF Snoop, Touch, Asks, Idle, TypeOK
<1>9. RequestInv'
  BY <1>2 DEF RequestInv, Idle, Asks
<1>10. AskerInv'
  <2> SUFFICES ASSUME NEW e \in Caches, ~Idle(e)
               PROVE  IF trans[e] # "MakeInvalid" THEN cached'[e][access[e].line] = Absent
                      ELSE /\ fresh[e] => cached'[e][access[e].line] # Absent
                           /\ \A f \in Caches : cached'[f][access[e].line].state \notin Unique
    BY <1>2, <1>8 DEF AskerInv, Idle, State
  <2>1. cached'[e][access[e].line] = cached[e][access[e].line]
    BY <1>1, <1>3, <1>4, <1>7
  <2> QED  BY <1>6, <1>7, <2>1 DEF AskerInv, State
<1>11. AnswerInv'
  <2> SUFFICES ASSUME NEW e \in Caches, NEW f \in Caches, ~Idle(e), f # e, f \notin waiting'[e]
               PROVE  IF trans[e] # "ReadShared" THEN cached'[f][access[e].line] = Absent
                      ELSE /\ cached'[f][access[e].line].state \notin Unique
                           /\ reply'[e][f] = Absent => cached'[f][access[e].line] = Absent
    BY <1>2 DEF AnswerInv, Idle, State
  <2>1. CASE e = c /\ f = d
    BY <1>1, <1>2, <1>3, <1>5, <2>1
  <2>2. CASE ~(e = c /\ f = d)
    BY <1>2, <1>6, <1>7, <2>2 DEF AnswerInv, State
  <2> QED  BY <2>1, <2>2
<1>12. SingleWriter'
  BY <1>6 DEF SingleWriter, State
<1>13. ReplyInv'
  <2> SUFFICES ASSUME NEW e \in Caches, NEW f \in Caches, ~Idle(e)
               PROVE  /\ f \in waiting'[e] => reply'[e][f] = Absent
                      /\ reply'[e][f] # Absent =>
                            \A g \in Caches : cached'[g][access[e].line].state \notin Unique
                      /\ reply'[e][f].state = "UniqueDirty" =>
                            /\ trans[e] # "MakeInvalid"
                            /\ \A g \in Caches \ {f} :
                                /\ reply'[e][g] = Absent
                                /\ g \in waiting'[e] => cached'[g][access[e].line] = Absent
    BY <1>2 DEF ReplyInv, Idle, State
  <2>1. CASE e = c /\ f = d
    <3>1. ASSUME cached[d][l] # Absent PROVE \A g \in Caches : cached'[g][l].state \notin Unique
      <4>1. \A g \in Caches : g # d => State(g, l) \notin Unique
        BY <1>1, <3>1 DEF SingleWriter
      <4> QED  BY <1>1, <1>3, <1>5, <4>1 DEF State
    <3>2. ASSUME State(d, l) = "UniqueDirty" PROVE \A g \in Caches \ {d} : cached'[g][l] = Absent
      BY <1>1, <1>3, <3>2 DEF SingleWriter, Unique
    <3>3. ASSUME State(d, l) = "UniqueDirty" PROVE \A g \in Caches \ {d} : reply[c][g] = Absent
      BY <1>1, <3>3 DEF ReplyInv, Unique
    <3> QED  BY <1>1, <1>2, <1>4, <2>1, <3>1, <3>2, <3>3 DEF State, Unique
  <2>2. CASE ~(e = c /\ f = d)
    <3>1. reply'[e][f] = reply[e][f] /\ waiting'[e] \subseteq waiting[e]
      BY <1>2, <2>2
    <3>2. reply[e][f].state = "UniqueDirty" /\ e = c => cached[d][l] = Absent
      BY <1>1, <2>2 DEF ReplyInv, Snoop
    <3>3. reply[e][f].state = "UniqueDirty" => \A g \in Caches \ {f} : reply'[e][g] = Absent
      BY <1>2, <3>2 DEF ReplyInv
    <3> QED  BY <1>6, <1>7, <3>1, <3>3 DEF ReplyInv, State
  <2> QED  BY <2>1, <2>2
<1> QED  BY <1>9, <1>10, <1>11, <1>12, <1>13

\* The copy that a miss brings.
LEMMA FillCoherent ==
    ASSUME IInv, TypeOK', NEW c \in Caches, Answered(c), NEW a \in Found(c),
           NEW V \in Victims(access[c].line), LoadFill(c, V, a) \/ StoreFill(c, V, a)
    PROVE  CoherenceInv'
<1> USE DEF IInv, CoherenceInv
<1> DEFINE l == access[c].line
<1>1. ~Idle(c) /\ waiting[c] = {} /\ l \in Lines /\ Asks(c, l)
  <2>1. ~Idle(c) /\ waiting[c] = {}
    BY DEF Answered, Idle
  <2> QED  BY <2>1, AccessFacts DEF Asks, Idle
<1>2. PICK x \in Data : Insert(c, l, V, a, Copy(Granted(c, a), x))
  <2>1. Brought(c, a) \in Data
    BY <1>1, BroughtType
  <2>2. StoreFill(c, V, a) => Merge(Brought(c, a), access[c].data) \in Data
    BY <2>1, MergeType DEF AccessInv, StoreFill
  <2> QED  BY <2>1, <2>2 DEF LoadFill, StoreFill
<1>3. \A d \in Caches, m \in Lines :
        /\ d # c \/ m # l => cached'[d][m] = cached[d][m] \/ (d = c /\ cached'[d][m] = Absent)
        /\ d = c /\ m = l => cached'[d][m] = Copy(Granted(c, a), x)
  BY <1>2 DEF Insert, TypeOK
<1>4. Close(c) /\ UNCHANGED fresh
  BY <1>2 DEF Insert, LoadFill, StoreFill
<1>5. cached'[c][l].state = Granted(c, a)
  BY <1>1, <1>3, CopyFacts DEF Granted
<1>6. /\ Granted(c, a) \in Unique => \A d \in Caches \ {c} : cached[d][l] = Absent
      /\ \A d \in Caches \ {c} : State(d, l) \notin Unique
  <2>1. CASE trans[c] # "ReadShared"
    BY <1>1, <2>1, CopyFacts DEF AnswerInv, State, Unique
  <2>2. CASE trans[c] = "ReadShared" /\ a = Absent
    BY <1>1, <2>2, FoundFacts, CopyFacts DEF AnswerInv, State, Unique
  <2>3. CASE trans[c] = "ReadShared" /\ a # Absent
    BY <1>1, <2>3 DEF AnswerInv, Granted, Unique
  <2> QED  BY <2>1, <2>2, <2>3
<1>7. /\ cached'[c][l].state \in Unique => \A d \in Caches \ {c} : cached[d][l] = Absent
      /\ cached'[c][l] # Absent => \A d \in Caches \ {c} : State(d, l) \notin Unique
  BY <1>5, <1>6
<1> HIDE DEF l
<1> QED  BY <1>1, <1>3, <1>4, <1>7, CloseCoherent DEF State

\* The shared copy that is now the only one.
LEMMA StoreSharedCoherent ==
    ASSUME IInv, TypeOK', NEW c \in Caches, Answered(c), StoreShared(c)
    PROVE  CoherenceInv'
<1> USE DEF IInv, CoherenceInv
<1> DEFINE l == access[c].line
<1>1. ~Idle(c) /\ waiting[c] = {} /\ l \in Lines /\ Asks(c, l)
  <2>1. ~Idle(c) /\ waiting[c] = {}
    BY DEF Answered, Idle
  <2> QED  BY <2>1, AccessFacts DEF Asks, Idle
<1>2. \A d \in Caches, m \in Lines : d # c \/ m # l => cached'[d][m] = cached[d][m]
  BY <1>1 DEF StoreShared, TypeOK
<1>3. \A d \in Caches \ {c} : cached[d][l] = Absent /\ State(d, l) \notin Unique
  BY <1>1, CopyFacts DEF StoreShared, AnswerInv, State, Unique
<1>4. Close(c) /\ UNCHANGED fresh
  BY DEF StoreShared
<1> HIDE DEF l
<1> QED  BY <1>1, <1>2, <1>3, <1>4, CloseCoherent

\* The end of load-linked and store-conditional.
LEMMA LinkedCoherent ==
    ASSUME IInv, TypeOK', NEW c \in Caches, Answered(c), NEW a \in Found(c),
           LinkedLoad(c, a) \/ ConditionalStore(c, a) \/ ConditionalFails(c, a)
    PROVE  CoherenceInv'
<1> USE DEF IInv, CoherenceInv
<1> DEFINE l == access[c].line
<1>1. ~Idle(c) /\ waiting[c] = {} /\ l \in Lines /\ Asks(c, l)
  <2>1. ~Idle(c) /\ waiting[c] = {}
    BY DEF Answered, Idle
  <2> QED  BY <2>1, AccessFacts DEF Asks, Idle
<1>2. Close(c) /\ UNCHANGED <<cached, fresh>>
  BY DEF LinkedLoad, ConditionalStore, ConditionalFails
<1>3. trans[c] = "Evict"
  <2>1. access[c].kind \in {"LoadLinked", "StoreConditional"}
    BY DEF LinkedLoad, ConditionalStore, ConditionalFails
  <2>2. trans[c] \in Requests
    BY <1>1 DEF TypeOK, Idle
  <2> QED  BY <2>1, <2>2 DEF AccessInv, Requests, Reads
<1>4. \A d \in Caches : cached[d][l] = Absent /\ State(d, l) \notin Unique
  BY <1>1, <1>3, CopyFacts DEF AskerInv, AnswerInv, State, Unique
<1> HIDE DEF l
<1> QED  BY <1>1, <1>2, <1>4, CloseCoherent DEF State

\* Every step keeps the caches coherent.
LEMMA NextCoherent ==
    ASSUME Serialised, IInv, TypeOK', Next
    PROVE  CoherenceInv'
<1>1. CASE \E c \in Caches : Resume(c)
  <2>1. PICK c \in Caches : Resume(c)
    BY <1>1
  <2>2. Answered(c) /\ ~Idle(c) /\ waiting[c] = {}
    BY <2>1 DEF Resume, Answered, Idle
  <2>3. CASE StoreAgain(c)
    <3>1. access[c].line \in Lines /\ access[c].data \in Stores /\ Asks(c, access[c].line)
      BY <2>2, <2>3, AccessFacts DEF StoreAgain, IInv, AccessInv, Asks, Idle
    <3> QED  BY <2>2, <2>3, <3>1, WriteHitCoherent, WriteAsksCoherent DEF StoreAgain, Write
  <2> QED  BY <2>1, <2>2, <2>3, FillCoherent, StoreSharedCoherent, LinkedCoherent DEF Resume
<1>2. CASE \E c \in Caches, l \in Lines : Core(c, l)
  <2>1. PICK c \in Caches, l \in Lines : Core(c, l)
    BY <1>2
  <2>2. CASE \E s \in Stores : Store(c, l, s)
    <3>1. Idle(c) /\ waiting[c] = {}
      BY <2>2 DEF Store, IInv, CoherenceInv, RequestInv
    <3> QED  BY <2>2, <3>1, WriteHitCoherent, WriteAsksCoherent DEF Store, Write
  <2> QED  BY <2>1, <2>2, LoadCoherent, InsertOtherCoherent, LockedOpCoherent DEF Core
<1>3. CASE \E c, d \in Caches : Snoop(d, c)
  BY <1>3, SnoopCoherent
<1>4. CASE Maintenance
  BY <1>4, MaintainCoherent DEF Maintenance
<1> QED  BY <1>1, <1>2, <1>3, <1>4 DEF Next

-----------------------------------------------------------------------------
(* The invariant holds always, if requests for one line never overlap.     *)

\* A step that changes nothing.
LEMMA StutterIInv == IInv /\ UNCHANGED vars => IInv'
BY DEF IInv, TypeOK, AccessInv, CoherenceInv, RequestInv, AskerInv, AnswerInv, ReplyInv, SingleWriter,
       vars, scu, Idle, Asks, State

\* scu.cpp and ccache.cpp keep the invariant from the start on.
THEOREM Coherent == ASSUME Serialised PROVE Spec => []IInv
<1>1. Init => IInv
  BY InitType, InitCoherent DEF IInv
<1>2. IInv /\ [Next]_vars => IInv'
  BY StutterIInv, NextType, NextCoherent DEF IInv
<1> QED  BY <1>1, <1>2, PTL DEF Spec

\* The variables of caches and snoop control unit keep their types.
THEOREM CachesTypeOK == ASSUME Serialised PROVE Spec => []TypeOK
<1>1. IInv => TypeOK
  BY DEF IInv
<1> QED  BY <1>1, Coherent, PTL

\* No two caches write a line at a time, however many caches and lines there are.
THEOREM CachesSingleWriter == ASSUME Serialised PROVE Spec => []SingleWriter
<1>1. IInv => SingleWriter
  BY DEF IInv, CoherenceInv
<1> QED  BY <1>1, Coherent, PTL

-----------------------------------------------------------------------------
(* That caches, snoop control unit and memory together are one memory.     *)
(* First the invariant about what is in the copies.                        *)

Clean(l) == DirtyCopies(l) = {}

\* Every copy holds what the next load is to find.
Agree == \A l \in Lines : \A x \in CopiesOf(l) : x # Absent => x.data = Value(l)

\* A reservation that nobody stored behind is one of the core's load-linked.
LinkInv == \A c \in Caches, l \in Lines : reserved = <<l, c>> /\ Clean(l) => link[c] = l

DataInv == Agree /\ LinkInv

-----------------------------------------------------------------------------
(* Values.                                                                 *)

\* The value of a line whose dirty copies, or else memory, hold v.
LEMMA LatestFacts ==
    ASSUME NEW D, NEW x, NEW v, D = {} => x = v, \A y \in D : y.data = v
    PROVE  Latest(D, x) = v
<1>1. CASE D = {}
  BY <1>1 DEF Latest
<1>2. CASE D # {}
  <2>1. (CHOOSE y \in D : TRUE) \in D
    BY <1>2
  <2> QED  BY <1>2, <2>1 DEF Latest
<1> QED  BY <1>1, <1>2

\* The copies of a line, one by one.
LEMMA CopiesFacts ==
    ASSUME NEW l \in Lines
    PROVE  /\ \A c \in Caches : cached[c][l] \in CopiesOf(l)
           /\ \A c, d \in Caches : Asks(c, l) => reply[c][d] \in CopiesOf(l)
           /\ \A x \in CopiesOf(l) : \/ \E c \in Caches : x = cached[c][l]
                                     \/ \E c, d \in Caches : Asks(c, l) /\ x = reply[c][d]
BY DEF CopiesOf

LEMMA CopiesFactsPrime ==
    ASSUME NEW l \in Lines
    PROVE  /\ \A c \in Caches : cached'[c][l] \in CopiesOf(l)'
           /\ \A c, d \in Caches : Asks(c, l)' => reply'[c][d] \in CopiesOf(l)'
           /\ \A x \in CopiesOf(l)' : \/ \E c \in Caches : x = cached'[c][l]
                                      \/ \E c, d \in Caches : Asks(c, l)' /\ x = reply'[c][d]
BY DEF CopiesOf

\* Dirty copies hold the value, and without one memory does.
LEMMA ValueFacts ==
    ASSUME TypeOK, Agree, NEW l \in Lines
    PROVE  /\ Clean(l) => Value(l) = memory[l]
           /\ \A c \in Caches : State(c, l) = "UniqueDirty" => ~Clean(l)
           /\ \A c, d \in Caches : Asks(c, l) /\ reply[c][d].state = "UniqueDirty" => ~Clean(l)
           /\ \A c \in Caches : cached[c][l] # Absent => cached[c][l].data = Value(l)
           /\ \A c, d \in Caches : Asks(c, l) /\ reply[c][d] # Absent => reply[c][d].data = Value(l)
           /\ ~Clean(l) => \/ \E c \in Caches : State(c, l) = "UniqueDirty"
                           \/ \E c, d \in Caches : Asks(c, l) /\ reply[c][d].state = "UniqueDirty"
<1>1. Clean(l) => Value(l) = memory[l]
  BY DEF Clean, Value, Latest
<1>2. \A x \in CopiesOf(l) : x.state = "UniqueDirty" => ~Clean(l)
  BY DEF Clean, DirtyCopies
<1>3. ~Clean(l) => \E x \in CopiesOf(l) : x.state = "UniqueDirty"
  BY DEF Clean, DirtyCopies
<1> QED  BY <1>1, <1>2, <1>3, CopiesFacts DEF Agree, State

\* The values after a step.
LEMMA ValueStep ==
    ASSUME NEW v, NEW l \in Lines,
           \A c \in Caches : cached'[c][l] # Absent => cached'[c][l].data = v,
           \A c, d \in Caches : Asks(c, l)' /\ reply'[c][d] # Absent => reply'[c][d].data = v,
           Clean(l)' => memory'[l] = v
    PROVE  Value(l)' = v /\ \A x \in CopiesOf(l)' : x # Absent => x.data = v
<1>1. \A x \in CopiesOf(l)' : x # Absent => x.data = v
  BY CopiesFactsPrime
<1>2. \A x \in DirtyCopies(l)' : x.data = v
  BY <1>1, CopyFacts DEF DirtyCopies
<1>3. DirtyCopies(l)' = {} => memory'[l] = v
  BY DEF Clean
<1> HIDE DEF DirtyCopies
<1>4. Latest(DirtyCopies(l)', memory'[l]) = v
  BY <1>2, <1>3, LatestFacts
<1> QED  BY <1>1, <1>4 DEF Value

\* What a step has to do for the copies of each line m to hold v[m] after it:
\* memory holds it too, or a dirty copy does.
LEMMA DataStep ==
    ASSUME TypeOK, DataInv, NEW v,
           \A m \in Lines, d \in Caches : cached'[d][m] # Absent => cached'[d][m].data = v[m],
           \A m \in Lines, d, e \in Caches :
                Asks(d, m)' /\ reply'[d][e] # Absent => reply'[d][e].data = v[m],
           \A m \in Lines :
             \/ /\ Clean(m) /\ memory'[m] = memory[m] /\ v[m] = Value(m)
                /\ \A d \in Caches : link[d] = m => link'[d] = m
             \/ memory'[m] = v[m] /\ \A d \in Caches : reserved' = <<m, d>> => link'[d] = m
             \/ \E d \in Caches : cached'[d][m].state = "UniqueDirty"
             \/ \E d, e \in Caches : Asks(d, m)' /\ reply'[d][e].state = "UniqueDirty",
           \A m \in Lines, d \in Caches : reserved' = <<m, d>> => reserved = <<m, d>> \/ link'[d] = m
    PROVE  DataInv' /\ \A m \in Lines : Value(m)' = v[m]
<1>1. ASSUME NEW m \in Lines, Clean(m)'
      PROVE  /\ memory'[m] = v[m]
             /\ \A d \in Caches : reserved' = <<m, d>> => link'[d] = m
  <2>1. \A x \in CopiesOf(m)' : x.state # "UniqueDirty"
    BY <1>1 DEF Clean, DirtyCopies
  <2>2. CASE Clean(m) /\ memory'[m] = memory[m] /\ v[m] = Value(m)
             /\ \A d \in Caches : link[d] = m => link'[d] = m
    <3>1. Value(m) = memory[m]
      BY <2>2 DEF Clean, Value, Latest
    <3> QED  BY <2>2, <3>1 DEF DataInv, LinkInv
  <2>3. CASE memory'[m] = v[m] /\ \A d \in Caches : reserved' = <<m, d>> => link'[d] = m
    BY <2>3
  <2> QED  BY <2>1, <2>2, <2>3, CopiesFactsPrime
<1>2. \A m \in Lines : Value(m)' = v[m] /\ \A x \in CopiesOf(m)' : x # Absent => x.data = v[m]
  BY <1>1, ValueStep
<1>3. Agree'
  BY <1>2 DEF Agree
<1>4. LinkInv'
  BY <1>1 DEF LinkInv
<1> QED  BY <1>2, <1>3, <1>4 DEF DataInv

\* The links after a store-conditional.
Spent(c, l) == [Unlinked(c, l) EXCEPT ![c] = Nothing]

\* The abstract steps, told by the values.
LEMMA OneFacts ==
    /\ \A l \in Lines : loaded' = Value(l) /\ link' = link
            /\ (\A m \in Lines : Value(m)' = Value(m)) => One!Load(l)
    /\ UNCHANGED <<loaded, link>> /\ (\A m \in Lines : Value(m)' = Value(m))
            => UNCHANGED <<[l \in Lines |-> Value(l)], loaded, link>>
    /\ \A l \in Lines, c \in Caches, s \in Stores :
            /\ link' = Unlinked(c, l) /\ loaded' = loaded
            /\ \A m \in Lines : Value(m)' = IF m = l THEN Merge(Value(l), s) ELSE Value(m)
            => One!Store(c, l, s)
    /\ \A l \in Lines, c \in Caches : loaded' = Value(l) /\ link' = [link EXCEPT ![c] = l]
            /\ (\A m \in Lines : Value(m)' = Value(m)) => One!LoadLinked(c, l)
    /\ \A l \in Lines, c \in Caches, s \in Stores :
            /\ link[c] = l /\ link' = Spent(c, l) /\ loaded' = loaded
            /\ \A m \in Lines : Value(m)' = IF m = l THEN Merge(Value(l), s) ELSE Value(m)
            => One!StoreConditional(c, l, s)
<1> HIDE DEF Value
<1> DEFINE V == [l \in Lines |-> Value(l)]
<1>1. (\A m \in Lines : Value(m)' = Value(m)) => V' = V
  OBVIOUS
<1>2. \A l \in Lines, s \in Stores :
        (\A m \in Lines : Value(m)' = IF m = l THEN Merge(Value(l), s) ELSE Value(m))
        => V' = [V EXCEPT ![l] = One!Merge(@, s)]
  BY DEF Merge, One!Merge
<1>3. \A l \in Lines : V[l] = Value(l)
  OBVIOUS
<1> HIDE DEF V
<1>4. \A l \in Lines : loaded' = Value(l) /\ link' = link
            /\ (\A m \in Lines : Value(m)' = Value(m)) => One!Load(l)
  BY <1>1, <1>3 DEF One!Load, V
<1> QED  BY <1>1, <1>2, <1>3, <1>4 DEF One!Load, One!Store, One!LoadLinked, One!StoreConditional,
            One!Unlink, Unlinked, Spent, V

-----------------------------------------------------------------------------
(* Every step keeps the invariant and is a step of one memory.             *)

OneStep == One!Next \/ UNCHANGED <<[l \in Lines |-> Value(l)], loaded, link>>

\* Writes of whole lines.
LEMMA WriteLinesFacts ==
    ASSUME TypeOK, NEW W, WriteLines(W)
    PROVE  \A m \in Lines :
            /\ memory'[m] = IF m \in DOMAIN W THEN W[m] ELSE memory[m]
            /\ \A d \in Caches : reserved' = <<m, d>> => reserved = <<m, d>> /\ m \notin DOMAIN W
BY NothingAssumption DEF WriteLines, Behind, TypeOK

\* What is written back of a cache is the value.
LEMMA DirtyFacts ==
    ASSUME TypeOK, DataInv, NEW c \in Caches, NEW M \in SUBSET Lines
    PROVE  /\ DOMAIN Dirty(c, M) = {m \in M : State(c, m) = "UniqueDirty"}
           /\ \A m \in DOMAIN Dirty(c, M) : Dirty(c, M)[m] = Value(m) /\ cached[c][m].data = Value(m)
<1>1. DOMAIN Dirty(c, M) = {m \in M : State(c, m) = "UniqueDirty"}
  BY DEF Dirty
<1>2. \A m \in Lines : State(c, m) = "UniqueDirty" => cached[c][m].data = Value(m)
  BY ValueFacts, CopyFacts DEF DataInv, State
<1> QED  BY <1>1, <1>2 DEF Dirty

\* What the used answer brings is the value, and a dirty answer is the used one.
LEMMA BroughtFacts ==
    ASSUME IInv, DataInv, NEW c \in Caches, ~Idle(c), NEW a \in Found(c)
    PROVE  LET l == access[c].line
           IN  /\ l \in Lines /\ Asks(c, l)
               /\ a # Absent => a.data = Value(l)
               /\ \A d \in Caches : reply[c][d].state = "UniqueDirty" => a.state = "UniqueDirty"
               /\ Answered(c) /\ trans[c] # "MakeInvalid" /\ a.state # "UniqueDirty" => Clean(l)
               /\ Answered(c) /\ trans[c] # "MakeInvalid" => Brought(c, a) = Value(l)
<1> USE DEF IInv, CoherenceInv, DataInv
<1> DEFINE l == access[c].line
<1>1. l \in Lines /\ Asks(c, l)
  BY AccessFacts DEF Asks, Idle
<1>2. a # Absent => a.data = Value(l)
  BY <1>1, FoundFacts, ValueFacts
<1>3. \A d \in Caches : reply[c][d].state = "UniqueDirty" => a = reply[c][d]
  <2> TAKE d \in Caches
  <2>1. reply[c][d].state = "UniqueDirty" => \A e \in Caches \ {d} : reply[c][e] = Absent
    BY DEF ReplyInv
  <2>2. reply[c][d].state = "UniqueDirty" => a # Absent
    BY FoundFacts, CopyFacts
  <2> QED  BY <2>1, <2>2, FoundFacts
<1>4. ASSUME Answered(c), trans[c] # "MakeInvalid", NEW d \in Caches
      PROVE  State(d, l) # "UniqueDirty"
  BY <1>1, <1>4, CopyFacts DEF Answered, AskerInv, AnswerInv, State, Unique
<1>5. \A b \in Caches : Asks(b, l) => b = c
  BY <1>1 DEF RequestInv
<1>6. Answered(c) /\ trans[c] # "MakeInvalid" /\ a.state # "UniqueDirty" => Clean(l)
  BY <1>1, <1>3, <1>4, <1>5, ValueFacts
<1>7. Answered(c) /\ trans[c] # "MakeInvalid" => Brought(c, a) = Value(l)
  BY <1>1, <1>2, <1>6, ValueFacts, CopyFacts DEF Brought
<1> QED  BY <1>1, <1>2, <1>3, <1>6, <1>7

\* Loads, hit or miss.
LEMMA LoadHitOne ==
    ASSUME IInv, DataInv, NEW c \in Caches, NEW l \in Lines, LoadHit(c, l)
    PROVE  DataInv' /\ OneStep
<1> USE DEF IInv, DataInv
<1>1. UNCHANGED <<scu, cached, link>> /\ loaded' = Value(l)
  BY ValueFacts DEF LoadHit
<1>2. \A m \in Lines : CopiesOf(m)' = CopiesOf(m) /\ Clean(m)' = Clean(m) /\ Value(m)' = Value(m)
  BY <1>1 DEF scu, CopiesOf, Clean, DirtyCopies, Value, Latest, Asks
<1>3. DataInv'
  BY <1>1, <1>2 DEF Agree, LinkInv, scu
<1>4. One!Load(l)
  BY <1>1, <1>2, OneFacts
<1> QED  BY <1>3, <1>4 DEF OneStep, One!Next

\* A step without a store.
LEMMA KeptOne ==
    ASSUME TypeOK, DataInv, UNCHANGED link,
           loaded' = loaded \/ \E l \in Lines : loaded' = Value(l),
           \A m \in Lines, d \in Caches : cached'[d][m] # Absent => cached'[d][m].data = Value(m),
           \A m \in Lines, d, e \in Caches :
                Asks(d, m)' /\ reply'[d][e] # Absent => reply'[d][e].data = Value(m),
           \A m \in Lines :
             \/ Clean(m) /\ memory'[m] = memory[m]
             \/ memory'[m] = Value(m) /\ \A d \in Caches : reserved' # <<m, d>>
             \/ \E d \in Caches : cached'[d][m].state = "UniqueDirty"
             \/ \E d, e \in Caches : Asks(d, m)' /\ reply'[d][e].state = "UniqueDirty",
           \A m \in Lines, d \in Caches : reserved' = <<m, d>> => reserved = <<m, d>>
    PROVE  DataInv' /\ OneStep
<1> DEFINE v == [m \in Lines |-> Value(m)]
<1> HIDE DEF Value
<1>1. \A m \in Lines : v[m] = Value(m)
  OBVIOUS
<1> HIDE DEF v
<1>2. DataInv' /\ \A m \in Lines : Value(m)' = v[m]
  BY <1>1, DataStep
<1>3. \A m \in Lines : Value(m)' = Value(m)
  BY <1>1, <1>2
<1>4. CASE loaded' = loaded
  <2>1. UNCHANGED <<[l \in Lines |-> Value(l)], loaded, link>>
    BY <1>3, <1>4, OneFacts
  <2> QED  BY <1>2, <2>1 DEF OneStep
<1>5. CASE \E l \in Lines : loaded' = Value(l)
  BY <1>2, <1>3, <1>5, OneFacts DEF OneStep, One!Next
<1> QED  BY <1>4, <1>5

\* A step that puts a request.
LEMMA RequestOne ==
    ASSUME IInv, DataInv, NEW c \in Caches, NEW l \in Lines, NEW t, NEW a, NEW M \in SUBSET {l},
           Request(c, t, a), a.line = l, Idle(c) \/ trans[c] = "MakeInvalid",
           UNCHANGED <<loaded, link>>,
           \A d \in Caches, m \in Lines :
                cached'[d][m] = IF d = c /\ m \in M THEN Absent ELSE cached[d][m],
           WriteLines(Dirty(c, M))
    PROVE  DataInv' /\ OneStep
<1> USE DEF IInv, CoherenceInv, DataInv
<1>1. \A d \in Caches : /\ d # c => (\A m \in Lines : Asks(d, m)' = Asks(d, m)) /\ reply'[d] = reply[d]
                        /\ \A e \in Caches : reply'[c][e] = Absent
  BY DEF Request, TypeOK, Asks, NoReply
<1>2. \A m \in Lines : /\ memory'[m] = IF m \in M /\ State(c, m) = "UniqueDirty" THEN Value(m)
                                       ELSE memory[m]
                       /\ \A d \in Caches : reserved' = <<m, d>> => reserved = <<m, d>>
                            /\ ~(m \in M /\ State(c, m) = "UniqueDirty")
  <2>1. /\ DOMAIN Dirty(c, M) = {m \in M : State(c, m) = "UniqueDirty"}
        /\ \A m \in DOMAIN Dirty(c, M) : Dirty(c, M)[m] = Value(m)
    BY M \in SUBSET Lines, DirtyFacts
  <2>2. \A m \in Lines :
            /\ memory'[m] = IF m \in DOMAIN Dirty(c, M) THEN Dirty(c, M)[m] ELSE memory[m]
            /\ \A d \in Caches : reserved' = <<m, d>> =>
                    reserved = <<m, d>> /\ m \notin DOMAIN Dirty(c, M)
    BY WriteLinesFacts
  <2> QED  BY <2>1, <2>2
<1>3. ASSUME NEW m \in Lines
      PROVE  \/ Clean(m) /\ memory'[m] = memory[m]
             \/ memory'[m] = Value(m) /\ \A d \in Caches : reserved' # <<m, d>>
             \/ \E d \in Caches : cached'[d][m].state = "UniqueDirty"
             \/ \E d, e \in Caches : Asks(d, m)' /\ reply'[d][e].state = "UniqueDirty"
  <2>1. CASE m \in M /\ State(c, m) = "UniqueDirty"
    BY <1>2, <2>1
  <2>2. CASE ~(m \in M /\ State(c, m) = "UniqueDirty")
    <3>1. \A e \in Caches : Asks(c, m) => reply[c][e].state # "UniqueDirty"
      BY DEF ReplyInv, Asks, Idle
    <3>2. ASSUME NEW d \in Caches, State(d, m) = "UniqueDirty" PROVE cached'[d][m].state = "UniqueDirty"
      BY <2>2, <3>2 DEF State
    <3>3. ASSUME NEW d \in Caches, NEW e \in Caches, Asks(d, m), reply[d][e].state = "UniqueDirty"
          PROVE  Asks(d, m)' /\ reply'[d][e].state = "UniqueDirty"
      BY <1>1, <3>1, <3>3
    <3> QED  BY <1>2, <2>2, <3>2, <3>3, ValueFacts
  <2> QED  BY <2>1, <2>2
<1>4. \A m \in Lines, d \in Caches : cached'[d][m] # Absent => cached'[d][m].data = Value(m)
  BY ValueFacts
<1>5. \A m \in Lines, d, e \in Caches :
        Asks(d, m)' /\ reply'[d][e] # Absent => reply'[d][e].data = Value(m)
  BY <1>1, ValueFacts
<1> QED  BY <1>2, <1>3, <1>4, <1>5, KeptOne

\* A request without anything to write back.
LEMMA PlainRequestOne ==
    ASSUME IInv, DataInv, NEW c \in Caches, NEW l \in Lines, NEW t, NEW a,
           Request(c, t, a), a.line = l, Idle(c) \/ trans[c] = "MakeInvalid",
           UNCHANGED <<memory, reserved, cached, loaded, link>>
    PROVE  DataInv' /\ OneStep
<1>1. DOMAIN Dirty(c, {}) = {}
  BY DEF Dirty
<1>2. WriteLines(Dirty(c, {}))
  BY <1>1 DEF WriteLines, Behind, IInv, TypeOK
<1>3. {} \in SUBSET {l}
  OBVIOUS
<1> QED  BY <1>2, <1>3, RequestOne

LEMMA LoadMissOne ==
    ASSUME IInv, DataInv, NEW c \in Caches, NEW l \in Lines, LoadMiss(c, l)
    PROVE  DataInv' /\ OneStep
<1> DEFINE a == Access("Load", l, NoData)
<1>1. a.line = l
  BY DEF Access
<1>2. /\ Request(c, "ReadShared", a) /\ Idle(c)
      /\ UNCHANGED <<memory, reserved, cached, loaded, link>>
  BY DEF LoadMiss
<1> HIDE DEF a
<1> QED  BY <1>1, <1>2, PlainRequestOne

LEMMA WriteAsksOne ==
    ASSUME IInv, DataInv, NEW c \in Caches, NEW l \in Lines, NEW s \in Stores,
           Idle(c) \/ trans[c] = "MakeInvalid", WriteShared(c, l, s) \/ WriteMiss(c, l, s)
    PROVE  DataInv' /\ OneStep
<1> DEFINE a == Access("Store", l, s)
<1>1. a.line = l
  BY DEF Access
<1>2. PICK t : Request(c, t, a)
  BY DEF WriteShared, WriteMiss
<1>3. UNCHANGED <<memory, reserved, cached, loaded, link>>
  BY DEF WriteShared, WriteMiss
<1> HIDE DEF a
<1> QED  BY <1>1, <1>2, <1>3, PlainRequestOne

LEMMA LockedOpOne ==
    ASSUME IInv, DataInv, NEW c \in Caches, NEW l \in Lines, NEW k, NEW s, LockedOp(c, k, l, s)
    PROVE  DataInv' /\ OneStep
<1> DEFINE a == Access(k, l, s)
<1>1. a.line = l
  BY DEF Access
<1>2. /\ Request(c, "Evict", a) /\ Idle(c) /\ UNCHANGED <<loaded, link>>
      /\ WriteLines(Dirty(c, {l})) /\ cached' = [cached EXCEPT ![c][l] = Absent]
  BY DEF LockedOp
<1>3. \A d \in Caches, m \in Lines :
        cached'[d][m] = IF d = c /\ m \in {l} THEN Absent ELSE cached[d][m]
  BY <1>2 DEF IInv, TypeOK
<1> HIDE DEF a
<1> QED  BY <1>1, <1>2, <1>3, RequestOne

\* A line that makes room for another.
LEMMA InsertOtherOne ==
    ASSUME IInv, DataInv, NEW c \in Caches, NEW l \in Lines, InsertOther(c, l)
    PROVE  DataInv' /\ OneStep
<1> USE DEF IInv, DataInv
<1>1. /\ UNCHANGED <<trans, access, waiting, reply, loaded, link>>
      /\ \A d \in Caches, m \in Lines : Asks(d, m)' = Asks(d, m)
  BY DEF InsertOther, Asks
<1>2. \A d \in Caches, m \in Lines :
        cached'[d][m] = IF d = c /\ m = l THEN Absent ELSE cached[d][m]
  BY DEF InsertOther, TypeOK
<1>3. \A m \in Lines : /\ memory'[m] = IF m = l /\ State(c, l) = "UniqueDirty" THEN Value(m)
                                       ELSE memory[m]
                       /\ \A d \in Caches : reserved' = <<m, d>> => reserved = <<m, d>>
                            /\ ~(m = l /\ State(c, l) = "UniqueDirty")
  <2>1. /\ DOMAIN Dirty(c, {l}) = {m \in {l} : State(c, m) = "UniqueDirty"}
        /\ \A m \in DOMAIN Dirty(c, {l}) : Dirty(c, {l})[m] = Value(m)
    BY {l} \in SUBSET Lines, DirtyFacts
  <2>2. \A m \in Lines :
            /\ memory'[m] = IF m \in DOMAIN Dirty(c, {l}) THEN Dirty(c, {l})[m] ELSE memory[m]
            /\ \A d \in Caches : reserved' = <<m, d>> =>
                    reserved = <<m, d>> /\ m \notin DOMAIN Dirty(c, {l})
    BY WriteLinesFacts DEF InsertOther
  <2> QED  BY <2>1, <2>2
<1>4. ASSUME NEW m \in Lines
      PROVE  \/ Clean(m) /\ memory'[m] = memory[m]
             \/ memory'[m] = Value(m) /\ \A d \in Caches : reserved' # <<m, d>>
             \/ \E d \in Caches : cached'[d][m].state = "UniqueDirty"
             \/ \E d, e \in Caches : Asks(d, m)' /\ reply'[d][e].state = "UniqueDirty"
  <2>1. CASE m = l /\ State(c, l) = "UniqueDirty"
    BY <1>3, <2>1
  <2>2. CASE ~(m = l /\ State(c, l) = "UniqueDirty")
    BY <1>1, <1>2, <1>3, <2>2, ValueFacts DEF State
  <2> QED  BY <2>1, <2>2
<1>5. \A m \in Lines, d \in Caches : cached'[d][m] # Absent => cached'[d][m].data = Value(m)
  BY <1>2, ValueFacts
<1>6. \A m \in Lines, d, e \in Caches :
        Asks(d, m)' /\ reply'[d][e] # Absent => reply'[d][e].data = Value(m)
  BY <1>1, ValueFacts
<1> QED  BY <1>1, <1>3, <1>4, <1>5, <1>6, KeptOne

\* Maintenance.
LEMMA MaintainOne ==
    ASSUME IInv, DataInv, NEW c \in Caches, NEW l \in Lines, NEW keep \in BOOLEAN,
           Maintain(c, l, keep)
    PROVE  DataInv' /\ OneStep
<1> USE DEF IInv, DataInv
<1>1. /\ UNCHANGED <<trans, access, waiting, reply, loaded, link>>
      /\ \A d \in Caches, m \in Lines : Asks(d, m)' = Asks(d, m)
  BY DEF Maintain, Asks
<1>2. \A d \in Caches, m \in Lines : cached'[d][m] =
        IF m # l THEN cached[d][m]
        ELSE IF cached[d][l] # Absent /\ keep THEN Copy("SharedClean", cached[d][l].data) ELSE Absent
  BY DEF Maintain, TypeOK
<1>3. PICK h \in Caches : cached[h][l] # Absent /\ WriteLines([m \in {l} |-> cached[h][l].data])
  BY DEF Maintain
<1>4. \A m \in Lines : /\ memory'[m] = IF m = l THEN Value(m) ELSE memory[m]
                       /\ \A d \in Caches : reserved' = <<m, d>> => reserved = <<m, d>> /\ m # l
  <2> DEFINE W == [m \in {l} |-> cached[h][l].data]
  <2>1. DOMAIN W = {l} /\ W[l] = Value(l)
    BY <1>3, ValueFacts
  <2>2. WriteLines(W)
    BY <1>3
  <2> HIDE DEF W
  <2> QED  BY <2>1, <2>2, WriteLinesFacts
<1>5. ASSUME NEW m \in Lines
      PROVE  \/ Clean(m) /\ memory'[m] = memory[m]
             \/ memory'[m] = Value(m) /\ \A d \in Caches : reserved' # <<m, d>>
             \/ \E d \in Caches : cached'[d][m].state = "UniqueDirty"
             \/ \E d, e \in Caches : Asks(d, m)' /\ reply'[d][e].state = "UniqueDirty"
  BY <1>1, <1>2, <1>4, ValueFacts DEF State
<1>6. ASSUME NEW m \in Lines, NEW d \in Caches, cached'[d][m] # Absent
      PROVE  cached'[d][m].data = Value(m)
  <2>1. cached[d][m] # Absent /\ cached[d][m].data = Value(m)
    BY <1>2, <1>6, ValueFacts
  <2>2. Copy("SharedClean", cached[d][m].data).data = cached[d][m].data
    BY DEF Copy
  <2> QED  BY <1>2, <1>6, <2>1, <2>2
<1>7. \A m \in Lines, d, e \in Caches :
        Asks(d, m)' /\ reply'[d][e] # Absent => reply'[d][e].data = Value(m)
  BY <1>1, ValueFacts
<1> QED  BY <1>1, <1>4, <1>5, <1>6, <1>7, KeptOne

\* An answer.
LEMMA SnoopOne ==
    ASSUME IInv, DataInv, NEW c \in Caches, NEW d \in Caches, Snoop(d, c)
    PROVE  DataInv' /\ OneStep
<1> USE DEF IInv, CoherenceInv, DataInv
<1> DEFINE l == access[c].line
<1>1. ~Idle(c) /\ d \in waiting[c] /\ d # c /\ l \in Lines /\ Asks(c, l)
  <2>1. ~Idle(c) /\ d \in waiting[c] /\ d # c
    BY DEF Snoop, RequestInv
  <2> QED  BY <2>1, AccessFacts DEF Asks, Idle
<1>2. /\ UNCHANGED <<memory, reserved, loaded, link>>
      /\ \A e \in Caches : /\ \A m \in Lines : Asks(e, m)' = Asks(e, m)
                           /\ \A f \in Caches : reply'[e][f] =
                                IF e = c /\ f = d THEN cached[d][l] ELSE reply[e][f]
  BY DEF Snoop, Answer, TypeOK, Asks
<1>3. \A e \in Caches, m \in Lines : cached'[e][m] =
        IF e = d /\ m = l THEN AfterSnoop(c, cached[d][l]) ELSE cached[e][m]
  BY <1>1 DEF Snoop, TypeOK
<1>4. AfterSnoop(c, cached[d][l]) # Absent =>
            cached[d][l] # Absent /\ AfterSnoop(c, cached[d][l]).data = cached[d][l].data
  <2>1. cached[d][l] \in Copies
    BY <1>1 DEF TypeOK
  <2> QED  BY <2>1, CopyFacts DEF AfterSnoop, Unique
<1>5. \A m \in Lines, e \in Caches : cached'[e][m] # Absent => cached'[e][m].data = Value(m)
  BY <1>1, <1>3, <1>4, ValueFacts
<1>6. \A m \in Lines, e, f \in Caches :
        Asks(e, m)' /\ reply'[e][f] # Absent => reply'[e][f].data = Value(m)
  BY <1>1, <1>2, ValueFacts DEF Asks
<1>7. ASSUME NEW m \in Lines
      PROVE  \/ Clean(m) /\ memory'[m] = memory[m]
             \/ \E e \in Caches : cached'[e][m].state = "UniqueDirty"
             \/ \E e, f \in Caches : Asks(e, m)' /\ reply'[e][f].state = "UniqueDirty"
  <2>1. CASE Clean(m)
    BY <1>2, <2>1
  <2>2. ASSUME NEW e \in Caches, State(e, m) = "UniqueDirty"
        PROVE  \/ cached'[e][m].state = "UniqueDirty"
               \/ \E f, g \in Caches : Asks(f, m)' /\ reply'[f][g].state = "UniqueDirty"
    BY <1>1, <1>2, <1>3, <2>2 DEF State
  <2>3. ASSUME NEW e \in Caches, NEW f \in Caches, Asks(e, m), reply[e][f].state = "UniqueDirty"
        PROVE  Asks(e, m)' /\ reply'[e][f].state = "UniqueDirty"
    <3>1. ~(e = c /\ f = d)
      BY <1>1, <2>3, CopyFacts DEF ReplyInv
    <3> QED  BY <1>2, <2>3, <3>1
  <2> QED  BY <2>1, <2>2, <2>3, ValueFacts
<1> QED  BY <1>2, <1>5, <1>6, <1>7, KeptOne

\* A step with one store, of s to l by c.
LEMMA StoredOne ==
    ASSUME TypeOK, DataInv, NEW c \in Caches, NEW l \in Lines, NEW s \in Stores,
           loaded' = loaded,
           \/ link' = Unlinked(c, l)
           \/ link[c] = l /\ link' = Spent(c, l),
           \A m \in Lines, d \in Caches : cached'[d][m] # Absent =>
                cached'[d][m].data = IF m = l THEN Merge(Value(l), s) ELSE Value(m),
           \A m \in Lines, d, e \in Caches : Asks(d, m)' /\ reply'[d][e] # Absent =>
                m # l /\ reply'[d][e].data = Value(m),
           \/ \E d \in Caches : cached'[d][l].state = "UniqueDirty"
           \/ memory'[l] = Merge(Value(l), s) /\ \A d \in Caches : reserved' # <<l, d>>,
           \A m \in Lines \ {l} :
             \/ Clean(m) /\ memory'[m] = memory[m]
             \/ memory'[m] = Value(m) /\ \A d \in Caches : reserved' # <<m, d>>
             \/ \E d \in Caches : cached'[d][m].state = "UniqueDirty"
             \/ \E d, e \in Caches : Asks(d, m)' /\ reply'[d][e].state = "UniqueDirty",
           \A m \in Lines, d \in Caches : reserved' = <<m, d>> => reserved = <<m, d>>
    PROVE  DataInv' /\ OneStep
<1> DEFINE v == [m \in Lines |-> IF m = l THEN Merge(Value(l), s) ELSE Value(m)]
<1> HIDE DEF Value
<1>1. \A m \in Lines : v[m] = IF m = l THEN Merge(Value(l), s) ELSE Value(m)
  OBVIOUS
<1> HIDE DEF v
<1>2. \A m \in Lines \ {l}, d \in Caches : link[d] = m => link'[d] = m
  BY DEF Unlinked, Spent, TypeOK
<1>3. DataInv' /\ \A m \in Lines : Value(m)' = v[m]
  BY <1>1, <1>2, DataStep
<1>4. \A m \in Lines : Value(m)' = IF m = l THEN Merge(Value(l), s) ELSE Value(m)
  BY <1>1, <1>3
<1> QED  BY <1>3, <1>4, OneFacts DEF OneStep, One!Next

\* A hit.
LEMMA WriteHitOne ==
    ASSUME IInv, DataInv, NEW c \in Caches, NEW l \in Lines, NEW s \in Stores,
           Idle(c) \/ trans[c] = "MakeInvalid", WriteHit(c, l, s)
    PROVE  DataInv' /\ OneStep
<1> USE DEF IInv, CoherenceInv, DataInv
<1>1. cached[c][l] \in Copies /\ cached[c][l] # Absent /\ State(c, l) \in Unique
  BY CopyFacts DEF WriteHit, TypeOK, State, Unique
<1>2. \A d \in Caches, m \in Lines : cached'[d][m] =
        IF d = c /\ m = l THEN Copy("UniqueDirty", Merge(Value(l), s)) ELSE cached[d][m]
  BY <1>1, ValueFacts DEF WriteHit, TypeOK
<1>3. /\ UNCHANGED <<memory, reserved, loaded>> /\ link' = Unlinked(c, l)
      /\ \A m \in Lines, d \in Caches : Asks(d, m)' = (d # c /\ Asks(d, m))
      /\ \A d \in Caches \ {c} : reply'[d] = reply[d]
  BY DEF WriteHit, Close, TypeOK, Asks
<1>4. /\ Copy("UniqueDirty", Merge(Value(l), s)).state = "UniqueDirty"
      /\ Copy("UniqueDirty", Merge(Value(l), s)).data = Merge(Value(l), s)
  BY DEF Copy
<1>5. \A d \in Caches \ {c} : cached[d][l] = Absent
  BY <1>1 DEF SingleWriter
<1>6. \A m \in Lines, d \in Caches : cached'[d][m] # Absent =>
        cached'[d][m].data = IF m = l THEN Merge(Value(l), s) ELSE Value(m)
  BY <1>2, <1>4, <1>5, ValueFacts
<1>7. \A m \in Lines, d, e \in Caches : Asks(d, m)' /\ reply'[d][e] # Absent =>
        m # l /\ reply'[d][e].data = Value(m)
  BY <1>1, <1>3, ValueFacts DEF ReplyInv, Asks, Idle
<1>8. ASSUME NEW m \in Lines \ {l}
      PROVE  \/ Clean(m) /\ memory'[m] = memory[m]
             \/ \E d \in Caches : cached'[d][m].state = "UniqueDirty"
             \/ \E d, e \in Caches : Asks(d, m)' /\ reply'[d][e].state = "UniqueDirty"
  <2>1. \A e \in Caches : Asks(c, m) => reply[c][e].state # "UniqueDirty"
    BY DEF ReplyInv, Asks, Idle
  <2>2. ASSUME NEW d \in Caches, State(d, m) = "UniqueDirty" PROVE cached'[d][m].state = "UniqueDirty"
    BY <1>2, <2>2 DEF State
  <2>3. ASSUME NEW d \in Caches, NEW e \in Caches, Asks(d, m), reply[d][e].state = "UniqueDirty"
        PROVE  Asks(d, m)' /\ reply'[d][e].state = "UniqueDirty"
    BY <1>3, <2>1, <2>3
  <2> QED  BY <1>3, <2>2, <2>3, ValueFacts
<1> QED  BY <1>2, <1>3, <1>4, <1>6, <1>7, <1>8, StoredOne

\* After MakeInvalid.
LEMMA StoreSharedOne ==
    ASSUME IInv, DataInv, NEW c \in Caches, Answered(c), StoreShared(c)
    PROVE  DataInv' /\ OneStep
<1> USE DEF IInv, CoherenceInv, DataInv
<1> DEFINE l == access[c].line
           s == access[c].data
<1>1. /\ ~Idle(c) /\ waiting[c] = {} /\ l \in Lines /\ Asks(c, l)
      /\ s \in Stores /\ cached[c][l] # Absent /\ trans[c] = "MakeInvalid"
  <2>1. ~Idle(c) /\ waiting[c] = {}
    BY DEF Answered, Idle
  <2> QED  BY <2>1, AccessFacts DEF Asks, Idle, StoreShared, AccessInv, AskerInv
<1>2. \A d \in Caches, m \in Lines : cached'[d][m] =
        IF d = c /\ m = l THEN Copy("UniqueDirty", Merge(Value(l), s)) ELSE cached[d][m]
  BY <1>1, ValueFacts DEF StoreShared, TypeOK
<1>3. /\ UNCHANGED <<memory, reserved, loaded>> /\ link' = Unlinked(c, l)
      /\ \A m \in Lines, d \in Caches : Asks(d, m)' = (d # c /\ Asks(d, m))
      /\ \A d \in Caches \ {c} : reply'[d] = reply[d]
  BY DEF StoreShared, Close, TypeOK, Asks
<1>4. /\ Copy("UniqueDirty", Merge(Value(l), s)).state = "UniqueDirty"
      /\ Copy("UniqueDirty", Merge(Value(l), s)).data = Merge(Value(l), s)
  BY DEF Copy
<1>5. \A d \in Caches \ {c} : cached[d][l] = Absent /\ ~Asks(d, l)
  BY <1>1 DEF AnswerInv, RequestInv
<1>6. \A m \in Lines, d \in Caches : cached'[d][m] # Absent =>
        cached'[d][m].data = IF m = l THEN Merge(Value(l), s) ELSE Value(m)
  BY <1>2, <1>4, <1>5, ValueFacts
<1>7. \A m \in Lines, d, e \in Caches : Asks(d, m)' /\ reply'[d][e] # Absent =>
        m # l /\ reply'[d][e].data = Value(m)
  <2> TAKE m \in Lines, d \in Caches, e \in Caches
  <2> HAVE Asks(d, m)' /\ reply'[d][e] # Absent
  <2>1. d # c /\ Asks(d, m) /\ reply'[d][e] = reply[d][e]
    BY <1>3
  <2> QED  BY <1>5, <2>1, ValueFacts
<1>8. ASSUME NEW m \in Lines \ {l}
      PROVE  \/ Clean(m) /\ memory'[m] = memory[m]
             \/ \E d \in Caches : cached'[d][m].state = "UniqueDirty"
             \/ \E d, e \in Caches : Asks(d, m)' /\ reply'[d][e].state = "UniqueDirty"
  <2>1. ~Asks(c, m)
    BY <1>1 DEF Asks
  <2>2. ASSUME NEW d \in Caches, State(d, m) = "UniqueDirty" PROVE cached'[d][m].state = "UniqueDirty"
    BY <1>2, <2>2 DEF State
  <2>3. ASSUME NEW d \in Caches, NEW e \in Caches, Asks(d, m), reply[d][e].state = "UniqueDirty"
        PROVE  Asks(d, m)' /\ reply'[d][e].state = "UniqueDirty"
    BY <1>3, <2>1, <2>3
  <2> QED  BY <1>3, <2>2, <2>3, ValueFacts
<1> HIDE DEF l, s
<1> QED  BY <1>1, <1>2, <1>3, <1>4, <1>6, <1>7, <1>8, StoredOne

\* What becomes of the lines when l is inserted as copy in c.
Inserted(c, l, copy) ==
    /\ cached'[c][l] = copy
    /\ \A m \in Lines, d \in Caches : m # l \/ d # c =>
         (cached'[d][m] # Absent => cached'[d][m] = cached[d][m])
    /\ \A m \in Lines, d, e \in Caches : Asks(d, m)' =>
         d # c /\ m # l /\ Asks(d, m) /\ reply'[d][e] = reply[d][e]
    /\ \A m \in Lines, d \in Caches : reserved' = <<m, d>> => reserved = <<m, d>>
    /\ \/ Clean(l) /\ memory'[l] = memory[l]
       \/ memory'[l] = Value(l) /\ \A d \in Caches : reserved' # <<l, d>>
    /\ \A m \in Lines \ {l} :
         \/ Clean(m) /\ memory'[m] = memory[m]
         \/ memory'[m] = Value(m) /\ \A d \in Caches : reserved' # <<m, d>>
         \/ \E d \in Caches : cached'[d][m].state = "UniqueDirty"
         \/ \E d, e \in Caches : Asks(d, m)' /\ reply'[d][e].state = "UniqueDirty"

\* A line inserted in a way.
LEMMA InsertFacts ==
    ASSUME IInv, DataInv, NEW c \in Caches, Answered(c), trans[c] # "MakeInvalid",
           NEW a \in Found(c), NEW V \in Victims(access[c].line), NEW copy,
           Insert(c, access[c].line, V, a, copy)
    PROVE  Inserted(c, access[c].line, copy)
<1> USE DEF IInv, CoherenceInv, DataInv
<1> DEFINE l == access[c].line
           F == Flushed(c, a)
           D == Dirty(c, V)
           W == [m \in DOMAIN F \cup DOMAIN D |-> IF m = l THEN a.data ELSE cached[c][m].data]
<1>1. ~Idle(c) /\ l \in Lines /\ Asks(c, l) /\ V \in SUBSET Lines /\ l \notin V
  <2>1. ~Idle(c)
    BY DEF Answered, Idle
  <2> QED  BY <2>1, AccessFacts DEF Asks, Idle, Victims
<1>2. \A d \in Caches, m \in Lines : cached'[d][m] =
        IF d = c /\ m = l THEN copy ELSE IF d = c /\ m \in V THEN Absent ELSE cached[d][m]
  BY <1>1 DEF Insert, TypeOK
<1>3. /\ DOMAIN F = IF a.state = "UniqueDirty" THEN {l} ELSE {}
      /\ DOMAIN D = {m \in V : State(c, m) = "UniqueDirty"}
      /\ \A m \in DOMAIN D : cached[c][m].data = Value(m)
      /\ a.state = "UniqueDirty" => a.data = Value(l)
      /\ a.state # "UniqueDirty" => Clean(l)
  <2>1. DOMAIN F = IF a.state = "UniqueDirty" THEN {l} ELSE {}
    BY DEF Flushed, NoData
  <2>2. a.state = "UniqueDirty" => a.data = Value(l)
    BY <1>1, BroughtFacts, CopyFacts
  <2>3. a.state # "UniqueDirty" => Clean(l)
    BY <1>1, BroughtFacts
  <2> QED  BY <1>1, <2>1, <2>2, <2>3, DirtyFacts
<1>4. \A m \in Lines :
        /\ m \in DOMAIN W <=> \/ m = l /\ a.state = "UniqueDirty"
                              \/ m \in V /\ State(c, m) = "UniqueDirty"
        /\ m \in DOMAIN W => W[m] = Value(m)
  BY <1>1, <1>3
<1>5. WriteLines(W) /\ Close(c)
  BY DEF Insert
<1>6. \A m \in Lines :
        /\ memory'[m] = IF m \in DOMAIN W THEN W[m] ELSE memory[m]
        /\ \A d \in Caches : reserved' = <<m, d>> => reserved = <<m, d>> /\ m \notin DOMAIN W
  <2> HIDE DEF W
  <2> QED  BY <1>5, WriteLinesFacts
<1> HIDE DEF W
<1>7. /\ \A m \in Lines, d \in Caches : Asks(d, m)' = (d # c /\ Asks(d, m))
      /\ \A d \in Caches \ {c} : reply'[d] = reply[d] /\ ~Asks(d, l)
  BY <1>1, <1>5 DEF Close, TypeOK, Asks, RequestInv
<1>8. ASSUME NEW m \in Lines \ {l}
      PROVE  \/ Clean(m) /\ memory'[m] = memory[m]
             \/ memory'[m] = Value(m) /\ \A d \in Caches : reserved' # <<m, d>>
             \/ \E d \in Caches : cached'[d][m].state = "UniqueDirty"
             \/ \E d, e \in Caches : Asks(d, m)' /\ reply'[d][e].state = "UniqueDirty"
  <2>1. CASE m \in DOMAIN W
    BY <1>4, <1>6, <2>1
  <2>2. CASE m \notin DOMAIN W
    <3>1. ~Asks(c, m)
      BY <1>1 DEF Asks
    <3>2. ASSUME NEW d \in Caches, State(d, m) = "UniqueDirty" PROVE cached'[d][m].state = "UniqueDirty"
      BY <1>2, <1>4, <2>2, <3>2 DEF State
    <3>3. ASSUME NEW d \in Caches, NEW e \in Caches, Asks(d, m), reply[d][e].state = "UniqueDirty"
          PROVE  Asks(d, m)' /\ reply'[d][e].state = "UniqueDirty"
      BY <1>7, <3>1, <3>3
    <3> QED  BY <1>6, <2>2, <3>2, <3>3, ValueFacts
  <2> QED  BY <2>1, <2>2
<1>9. \/ Clean(l) /\ memory'[l] = memory[l]
      \/ memory'[l] = Value(l) /\ \A d \in Caches : reserved' # <<l, d>>
  BY <1>1, <1>3, <1>4, <1>6
<1>10. \A m \in Lines, d \in Caches : m # l \/ d # c =>
            (cached'[d][m] # Absent => cached'[d][m] = cached[d][m])
  BY <1>2
<1>11. \A m \in Lines, d, e \in Caches : Asks(d, m)' =>
            d # c /\ m # l /\ Asks(d, m) /\ reply'[d][e] = reply[d][e]
  BY <1>7
<1>12. cached'[c][l] = copy /\ \A m \in Lines, d \in Caches : reserved' = <<m, d>> => reserved = <<m, d>>
  BY <1>1, <1>2, <1>6
<1> QED  BY <1>8, <1>9, <1>10, <1>11, <1>12 DEF Inserted

\* The end of a load that missed.
LEMMA LoadFillOne ==
    ASSUME IInv, DataInv, NEW c \in Caches, Answered(c), NEW a \in Found(c),
           NEW V \in Victims(access[c].line), LoadFill(c, V, a)
    PROVE  DataInv' /\ OneStep
<1> DEFINE l == access[c].line
           copy == Copy(Granted(c, a), Brought(c, a))
<1>1. trans[c] # "MakeInvalid" /\ Insert(c, l, V, a, copy) /\ loaded' = Brought(c, a) /\ UNCHANGED link
  BY DEF LoadFill
<1>2. l \in Lines /\ Brought(c, a) = Value(l)
  <2>1. ~Idle(c)
    BY DEF Answered, Idle
  <2> QED  BY <1>1, <2>1, BroughtFacts
<1>3. copy.data = Value(l)
  BY <1>2 DEF Copy
<1> HIDE DEF copy
<1>ins. Inserted(c, l, copy)
  BY <1>1, InsertFacts
<1>4. cached'[c][l] = copy
      /\ \A m \in Lines, d \in Caches : m # l \/ d # c =>
            (cached'[d][m] # Absent => cached'[d][m] = cached[d][m])
  BY <1>ins DEF Inserted
<1>5. \A m \in Lines, d, e \in Caches : Asks(d, m)' => Asks(d, m) /\ reply'[d][e] = reply[d][e]
  BY <1>ins DEF Inserted
<1>6. \A m \in Lines :
        \/ Clean(m) /\ memory'[m] = memory[m]
        \/ memory'[m] = Value(m) /\ \A d \in Caches : reserved' # <<m, d>>
        \/ \E d \in Caches : cached'[d][m].state = "UniqueDirty"
        \/ \E d, e \in Caches : Asks(d, m)' /\ reply'[d][e].state = "UniqueDirty"
  BY <1>ins DEF Inserted
<1>7. \A m \in Lines, d \in Caches : reserved' = <<m, d>> => reserved = <<m, d>>
  BY <1>ins DEF Inserted
<1>8. \A m \in Lines, d \in Caches : cached'[d][m] # Absent => cached'[d][m].data = Value(m)
  BY <1>3, <1>4, ValueFacts DEF IInv, DataInv
<1>9. \A m \in Lines, d, e \in Caches :
        Asks(d, m)' /\ reply'[d][e] # Absent => reply'[d][e].data = Value(m)
  BY <1>5, ValueFacts DEF IInv, DataInv
<1> HIDE DEF l
<1> QED  BY <1>1, <1>2, <1>6, <1>7, <1>8, <1>9, KeptOne DEF IInv

\* The end of a store that missed.
LEMMA StoreFillOne ==
    ASSUME IInv, DataInv, NEW c \in Caches, Answered(c), NEW a \in Found(c),
           NEW V \in Victims(access[c].line), StoreFill(c, V, a)
    PROVE  DataInv' /\ OneStep
<1> USE DEF IInv, CoherenceInv, DataInv
<1> DEFINE l == access[c].line
           s == access[c].data
           copy == Copy(Granted(c, a), Merge(Brought(c, a), s))
<1>1. /\ trans[c] \notin {"MakeInvalid", "ReadShared"} /\ s \in Stores
      /\ Insert(c, l, V, a, copy) /\ UNCHANGED loaded /\ link' = Unlinked(c, l)
  BY DEF StoreFill, AccessInv
<1>2. ~Idle(c) /\ l \in Lines /\ Brought(c, a) = Value(l)
  <2>1. ~Idle(c)
    BY DEF Answered, Idle
  <2> QED  BY <1>1, <2>1, BroughtFacts
<1>3. copy.data = Merge(Value(l), s) /\ copy.state = "UniqueDirty"
  BY <1>1, <1>2 DEF Copy, Granted
<1> HIDE DEF copy
<1>ins. Inserted(c, l, copy)
  BY <1>1, InsertFacts
<1>4. cached'[c][l] = copy
      /\ \A m \in Lines, d \in Caches : m # l \/ d # c =>
            (cached'[d][m] # Absent => cached'[d][m] = cached[d][m])
  BY <1>ins DEF Inserted
<1>5. \A m \in Lines, d, e \in Caches : Asks(d, m)' =>
        m # l /\ Asks(d, m) /\ reply'[d][e] = reply[d][e]
  BY <1>ins DEF Inserted
<1>6. \A m \in Lines \ {l} :
        \/ Clean(m) /\ memory'[m] = memory[m]
        \/ memory'[m] = Value(m) /\ \A d \in Caches : reserved' # <<m, d>>
        \/ \E d \in Caches : cached'[d][m].state = "UniqueDirty"
        \/ \E d, e \in Caches : Asks(d, m)' /\ reply'[d][e].state = "UniqueDirty"
  BY <1>ins DEF Inserted
<1>7. \A m \in Lines, d \in Caches : reserved' = <<m, d>> => reserved = <<m, d>>
  BY <1>ins DEF Inserted
<1>8. \A d \in Caches \ {c} : cached[d][l] = Absent
  BY <1>1, <1>2 DEF AnswerInv, Answered
<1>9. \A m \in Lines, d \in Caches : cached'[d][m] # Absent =>
        cached'[d][m].data = IF m = l THEN Merge(Value(l), s) ELSE Value(m)
  BY <1>2, <1>3, <1>4, <1>8, ValueFacts
<1>10. \A m \in Lines, d, e \in Caches : Asks(d, m)' /\ reply'[d][e] # Absent =>
        m # l /\ reply'[d][e].data = Value(m)
  BY <1>5, ValueFacts
<1>11. \E d \in Caches : cached'[d][l].state = "UniqueDirty"
  BY <1>3, <1>4
<1> HIDE DEF l, s
<1> QED  BY <1>1, <1>2, <1>6, <1>7, <1>9, <1>10, <1>11, StoredOne

\* When everybody has answered a load-linked or store-conditional, nobody has the line.
LEMMA EvictFacts ==
    ASSUME IInv, DataInv, NEW c \in Caches, Answered(c), NEW a \in Found(c), Close(c),
           access[c].kind \in {"LoadLinked", "StoreConditional"}
    PROVE  LET l == access[c].line
           IN  /\ trans[c] # "MakeInvalid" /\ l \in Lines
               /\ \A d \in Caches : cached[d][l] = Absent
               /\ \A m \in Lines, d \in Caches : Asks(d, m)' =>
                    d # c /\ m # l /\ Asks(d, m) /\ reply'[d] = reply[d]
               /\ \A m \in Lines \ {l} : ~Clean(m) =>
                    \/ \E d \in Caches : State(d, m) = "UniqueDirty"
                    \/ \E d, e \in Caches : Asks(d, m)' /\ reply'[d][e].state = "UniqueDirty"
               /\ IF a.state = "UniqueDirty" THEN a.data = Value(l)
                  ELSE Clean(l) /\ Value(l) = memory[l]
               /\ DOMAIN Flushed(c, a) = IF a.state = "UniqueDirty" THEN {l} ELSE {}
               /\ a.state = "UniqueDirty" => Flushed(c, a)[l] = Value(l)
<1> USE DEF IInv, CoherenceInv, DataInv
<1> DEFINE l == access[c].line
<1>1. ~Idle(c)
  BY DEF Answered, Idle
<1>2. trans[c] = "Evict"
  <2>1. trans[c] \in Requests
    BY <1>1 DEF TypeOK, Idle
  <2> QED  BY <2>1 DEF AccessInv, Requests, Reads
<1>3. l \in Lines /\ Asks(c, l)
  BY <1>1, AccessFacts DEF Asks, Idle
<1>4. \A d \in Caches : cached[d][l] = Absent
  BY <1>1, <1>2, <1>3 DEF AskerInv, AnswerInv, Answered
<1>5. \A m \in Lines, d \in Caches : /\ Asks(d, m)' = (d # c /\ Asks(d, m))
                                     /\ d # c => reply'[d] = reply[d]
                                     /\ Asks(c, m) => m = l
                                     /\ Asks(d, l) => d = c
  BY <1>1, <1>3 DEF Close, TypeOK, Asks, RequestInv
<1>6. IF a.state = "UniqueDirty" THEN a.data = Value(l) ELSE Clean(l) /\ Value(l) = memory[l]
  BY <1>1, <1>2, <1>3, BroughtFacts, ValueFacts, CopyFacts
<1>7. /\ DOMAIN Flushed(c, a) = IF a.state = "UniqueDirty" THEN {l} ELSE {}
      /\ a.state = "UniqueDirty" => Flushed(c, a)[l] = Value(l)
  BY <1>6 DEF Flushed, NoData
<1>8. ASSUME NEW m \in Lines \ {l}, ~Clean(m)
      PROVE  \/ \E d \in Caches : State(d, m) = "UniqueDirty"
             \/ \E d, e \in Caches : Asks(d, m)' /\ reply'[d][e].state = "UniqueDirty"
  <2>1. ASSUME NEW d \in Caches, NEW e \in Caches, Asks(d, m), reply[d][e].state = "UniqueDirty"
        PROVE  Asks(d, m)' /\ reply'[d][e].state = "UniqueDirty"
    BY <1>5, <1>8, <2>1
  <2> QED  BY <1>8, <2>1, ValueFacts
<1>9. \A m \in Lines, d \in Caches : Asks(d, m)' => d # c /\ m # l /\ Asks(d, m) /\ reply'[d] = reply[d]
  BY <1>5
<1> HIDE DEF l
<1> QED  BY <1>2, <1>3, <1>4, <1>6, <1>7, <1>8, <1>9 DEF l

\* A store-conditional without its reservation.
LEMMA ConditionalFailsOne ==
    ASSUME IInv, DataInv, NEW c \in Caches, Answered(c), NEW a \in Found(c), ConditionalFails(c, a)
    PROVE  DataInv' /\ OneStep
<1> USE DEF IInv, DataInv
<1> DEFINE l == access[c].line
           F == Flushed(c, a)
<1>1. /\ Close(c) /\ UNCHANGED <<cached, loaded, link>> /\ WriteLines(F)
      /\ access[c].kind \in {"LoadLinked", "StoreConditional"}
  BY DEF ConditionalFails
<1>2. /\ l \in Lines /\ \A d \in Caches : cached[d][l] = Absent
      /\ \A m \in Lines, d \in Caches : Asks(d, m)' => Asks(d, m) /\ reply'[d] = reply[d]
      /\ \A m \in Lines \ {l} : ~Clean(m) =>
            \/ \E d \in Caches : State(d, m) = "UniqueDirty"
            \/ \E d, e \in Caches : Asks(d, m)' /\ reply'[d][e].state = "UniqueDirty"
  BY <1>1, EvictFacts
<1>3. /\ DOMAIN F = IF a.state = "UniqueDirty" THEN {l} ELSE {}
      /\ a.state = "UniqueDirty" => F[l] = Value(l)
      /\ a.state # "UniqueDirty" => Clean(l)
  BY <1>1, EvictFacts
<1> HIDE DEF F
<1>4. \A m \in Lines :
        /\ memory'[m] = IF m \in DOMAIN F THEN F[m] ELSE memory[m]
        /\ \A d \in Caches : reserved' = <<m, d>> => reserved = <<m, d>> /\ m \notin DOMAIN F
  BY <1>1, WriteLinesFacts
<1>5. ASSUME NEW m \in Lines
      PROVE  \/ Clean(m) /\ memory'[m] = memory[m]
             \/ memory'[m] = Value(m) /\ \A d \in Caches : reserved' # <<m, d>>
             \/ \E d \in Caches : cached'[d][m].state = "UniqueDirty"
             \/ \E d, e \in Caches : Asks(d, m)' /\ reply'[d][e].state = "UniqueDirty"
  <2>1. CASE m = l
    BY <1>3, <1>4, <2>1
  <2>2. CASE m # l
    BY <1>1, <1>2, <1>3, <1>4, <2>2 DEF State
  <2> QED  BY <2>1, <2>2
<1>6. \A m \in Lines, d \in Caches : cached'[d][m] # Absent => cached'[d][m].data = Value(m)
  BY <1>1, ValueFacts
<1>7. \A m \in Lines, d, e \in Caches :
        Asks(d, m)' /\ reply'[d][e] # Absent => reply'[d][e].data = Value(m)
  BY <1>2, ValueFacts
<1> HIDE DEF l
<1> QED  BY <1>1, <1>4, <1>5, <1>6, <1>7, KeptOne

\* Who finds the reservation in memory is who has the link.
LEMMA ConditionalLinked ==
    ASSUME IInv, DataInv, NEW c \in Caches, Answered(c), NEW a \in Found(c), ConditionalStore(c, a)
    PROVE  link[c] = access[c].line
<1> USE DEF IInv, DataInv
<1>1. /\ Close(c) /\ a.state # "UniqueDirty"
      /\ access[c].kind \in {"LoadLinked", "StoreConditional"}
      /\ reserved = <<access[c].line, c>>
  BY DEF ConditionalStore
<1>2. access[c].line \in Lines /\ Clean(access[c].line)
  BY <1>1, EvictFacts
<1> QED  BY <1>1, <1>2 DEF LinkInv

\* A store-conditional that still has its reservation.
LEMMA ConditionalStoreOne ==
    ASSUME IInv, DataInv, NEW c \in Caches, Answered(c), NEW a \in Found(c), ConditionalStore(c, a)
    PROVE  DataInv' /\ OneStep
<1> USE DEF IInv, DataInv
<1> DEFINE l == access[c].line
           s == access[c].data
<1>1. /\ Close(c) /\ UNCHANGED <<cached, loaded>> /\ s \in Stores /\ a.state # "UniqueDirty"
      /\ access[c].kind \in {"LoadLinked", "StoreConditional"}
      /\ reserved = <<l, c>> /\ reserved' = <<Nothing, Nothing>>
      /\ memory' = [memory EXCEPT ![l] = Merge(@, s)]
      /\ link' = Spent(c, l)
  BY DEF ConditionalStore, AccessInv, Spent
<1>2. /\ l \in Lines /\ \A d \in Caches : cached[d][l] = Absent
      /\ \A m \in Lines, d \in Caches : Asks(d, m)' => m # l /\ Asks(d, m) /\ reply'[d] = reply[d]
      /\ \A m \in Lines \ {l} : ~Clean(m) =>
            \/ \E d \in Caches : State(d, m) = "UniqueDirty"
            \/ \E d, e \in Caches : Asks(d, m)' /\ reply'[d][e].state = "UniqueDirty"
  BY <1>1, EvictFacts
<1>3. Clean(l) /\ Value(l) = memory[l]
  BY <1>1, EvictFacts
<1> HIDE DEF l, s
<1>4. link[c] = l
  BY <1>1, <1>2, <1>3 DEF LinkInv
<1>5. /\ memory'[l] = Merge(Value(l), s) /\ \A m \in Lines \ {l} : memory'[m] = memory[m]
      /\ \A m \in Lines, d \in Caches : reserved' # <<m, d>>
  BY <1>1, <1>2, <1>3, NothingAssumption DEF TypeOK
<1>6. \A m \in Lines, d \in Caches : cached'[d][m] # Absent =>
        cached'[d][m].data = IF m = l THEN Merge(Value(l), s) ELSE Value(m)
  BY <1>1, <1>2, ValueFacts
<1>7. \A m \in Lines, d, e \in Caches : Asks(d, m)' /\ reply'[d][e] # Absent =>
        m # l /\ reply'[d][e].data = Value(m)
  BY <1>2, ValueFacts
<1>8. ASSUME NEW m \in Lines \ {l}
      PROVE  \/ Clean(m) /\ memory'[m] = memory[m]
             \/ \E d \in Caches : cached'[d][m].state = "UniqueDirty"
             \/ \E d, e \in Caches : Asks(d, m)' /\ reply'[d][e].state = "UniqueDirty"
  BY <1>1, <1>2, <1>5 DEF State
<1>9. \A m \in Lines, d \in Caches : reserved' = <<m, d>> => reserved = <<m, d>>
  BY <1>5
<1>10. loaded' = loaded /\ link[c] = l /\ link' = Spent(c, l)
       /\ l \in Lines /\ s \in Stores
  BY <1>1, <1>2, <1>4
<1>11. memory'[l] = Merge(Value(l), s) /\ \A d \in Caches : reserved' # <<l, d>>
  BY <1>5, <1>10
<1>12. TypeOK /\ DataInv
  OBVIOUS
<1> HIDE DEF IInv, DataInv, Value, Clean
<1> QED  BY <1>6, <1>7, <1>8, <1>9, <1>10, <1>11, <1>12, StoredOne

\* A load-linked.
LEMMA LinkedLoadOne ==
    ASSUME IInv, DataInv, NEW c \in Caches, Answered(c), NEW a \in Found(c), LinkedLoad(c, a)
    PROVE  DataInv' /\ OneStep
<1> USE DEF IInv, DataInv
<1> DEFINE l == access[c].line
           F == Flushed(c, a)
           v == [m \in Lines |-> Value(m)]
<1>1. /\ Close(c) /\ UNCHANGED cached /\ memory' = Behind(F)
      /\ access[c].kind \in {"LoadLinked", "StoreConditional"}
      /\ reserved' = <<l, c>> /\ loaded' = memory'[l] /\ link' = [link EXCEPT ![c] = l]
  BY DEF LinkedLoad
<1>2. /\ l \in Lines /\ \A d \in Caches : cached[d][l] = Absent
      /\ \A m \in Lines, d \in Caches : Asks(d, m)' => Asks(d, m) /\ reply'[d] = reply[d]
      /\ \A m \in Lines \ {l} : ~Clean(m) =>
            \/ \E d \in Caches : State(d, m) = "UniqueDirty"
            \/ \E d, e \in Caches : Asks(d, m)' /\ reply'[d][e].state = "UniqueDirty"
  BY <1>1, EvictFacts
<1>3. /\ DOMAIN F = IF a.state = "UniqueDirty" THEN {l} ELSE {}
      /\ IF a.state = "UniqueDirty" THEN F[l] = Value(l) ELSE Value(l) = memory[l]
  BY <1>1, EvictFacts
<1> HIDE DEF F
<1>4. memory'[l] = Value(l) /\ \A m \in Lines \ {l} : memory'[m] = memory[m]
  BY <1>1, <1>2, <1>3 DEF Behind
<1> HIDE DEF Value
<1>5. \A m \in Lines : v[m] = Value(m)
  OBVIOUS
<1> HIDE DEF v, l
<1>6. link'[c] = l
  BY <1>1 DEF TypeOK
<1>7. \A m \in Lines, d \in Caches : reserved' = <<m, d>> => link'[d] = m
  BY <1>1, <1>6
<1>8. ASSUME NEW m \in Lines
      PROVE  \/ memory'[m] = v[m] /\ \A d \in Caches : reserved' = <<m, d>> => link'[d] = m
             \/ \E d \in Caches : cached'[d][m].state = "UniqueDirty"
             \/ \E d, e \in Caches : Asks(d, m)' /\ reply'[d][e].state = "UniqueDirty"
  <2>1. CASE m = l
    BY <1>4, <1>5, <1>7, <2>1
  <2>2. CASE m # l
    BY <1>1, <1>2, <1>4, <1>5, <1>7, <2>2, ValueFacts DEF State
  <2> QED  BY <2>1, <2>2
<1>9. \A m \in Lines, d \in Caches : cached'[d][m] # Absent => cached'[d][m].data = v[m]
  BY <1>1, <1>5, ValueFacts
<1>10. \A m \in Lines, d, e \in Caches :
        Asks(d, m)' /\ reply'[d][e] # Absent => reply'[d][e].data = v[m]
  BY <1>2, <1>5, ValueFacts
<1>11. DataInv' /\ \A m \in Lines : Value(m)' = v[m]
  BY <1>7, <1>8, <1>9, <1>10, DataStep
<1>12. \A m \in Lines : Value(m)' = Value(m)
  BY <1>5, <1>11
<1> QED  BY <1>1, <1>2, <1>4, <1>11, <1>12, OneFacts DEF OneStep, One!Next

\* Every step.
LEMMA NextOne ==
    ASSUME IInv, DataInv, Next
    PROVE  DataInv' /\ OneStep
<1>1. CASE \E c \in Caches : Resume(c)
  <2>1. PICK c \in Caches : Resume(c)
    BY <1>1
  <2>2. Answered(c) /\ ~Idle(c)
    BY <2>1 DEF Resume, Answered, Idle
  <2>3. CASE StoreAgain(c)
    <3>1. access[c].line \in Lines /\ access[c].data \in Stores /\ trans[c] = "MakeInvalid"
      BY <2>2, <2>3, AccessFacts DEF StoreAgain, IInv, AccessInv
    <3> QED  BY <2>3, <3>1, WriteHitOne, WriteAsksOne DEF StoreAgain, Write
  <2>4. CASE StoreShared(c)
    BY <2>2, <2>4, StoreSharedOne
  <2>5. CASE \E a \in Found(c) : \E V \in Victims(access[c].line) : LoadFill(c, V, a) \/ StoreFill(c, V, a)
    BY <2>2, <2>5, LoadFillOne, StoreFillOne
  <2>6. CASE \E a \in Found(c) : LinkedLoad(c, a) \/ ConditionalStore(c, a) \/ ConditionalFails(c, a)
    BY <2>2, <2>6, LinkedLoadOne, ConditionalStoreOne, ConditionalFailsOne
  <2> QED  BY <2>1, <2>3, <2>4, <2>5, <2>6 DEF Resume
<1>2. CASE \E c \in Caches, l \in Lines : Core(c, l)
  BY <1>2, LoadHitOne, LoadMissOne, InsertOtherOne, WriteHitOne, WriteAsksOne, LockedOpOne
  DEF Core, Store, Write
<1>3. CASE \E c, d \in Caches : Snoop(d, c)
  BY <1>3, SnoopOne
<1>4. CASE Maintenance
  BY <1>4, MaintainOne DEF Maintenance
<1> QED  BY <1>1, <1>2, <1>3, <1>4 DEF Next

-----------------------------------------------------------------------------
(* What cores see of their caches.                                         *)

\* At the start all is in memory.
LEMMA InitOne == Init /\ IInv => DataInv /\ One!Init
<1> SUFFICES ASSUME Init, IInv PROVE DataInv /\ One!Init
  OBVIOUS
<1>1. ASSUME NEW l \in Lines
      PROVE  (\A x \in CopiesOf(l) : x = Absent) /\ Clean(l) /\ Value(l) = memory[l]
  <2>1. \A x \in CopiesOf(l) : x = Absent
    BY CopiesFacts DEF Init, ScuInit, NoReply
  <2>2. Clean(l)
    BY <2>1, CopyFacts DEF Clean, DirtyCopies
  <2> QED  BY <2>1, <2>2 DEF Value, Latest, Clean
<1>2. DataInv
  BY <1>1, NothingAssumption DEF DataInv, Agree, LinkInv, Init, ScuInit
<1>3. One!Init
  BY <1>1 DEF One!Init, Init, ScuInit
<1> QED  BY <1>2, <1>3

\* A step that changes nothing.
LEMMA StutterOne == DataInv /\ UNCHANGED vars => DataInv' /\ OneStep
<1> SUFFICES ASSUME DataInv, UNCHANGED vars PROVE DataInv' /\ OneStep
  OBVIOUS
<1>1. UNCHANGED <<memory, reserved, trans, access, reply, cached, loaded, link>>
  BY DEF vars, scu
<1>2. \A m \in Lines : CopiesOf(m)' = CopiesOf(m) /\ Clean(m)' = Clean(m) /\ Value(m)' = Value(m)
  BY <1>1 DEF CopiesOf, Clean, DirtyCopies, Value, Latest, Asks
<1>3. DataInv'
  BY <1>1, <1>2 DEF DataInv, Agree, LinkInv
<1>4. UNCHANGED <<[l \in Lines |-> Value(l)], loaded, link>>
  BY <1>1, <1>2, OneFacts
<1> QED  BY <1>3, <1>4 DEF OneStep

LEMMA DataAlways == ASSUME Serialised PROVE Spec => [](IInv /\ DataInv)
<1>1. Init => IInv /\ DataInv
  BY InitType, InitCoherent, InitOne DEF IInv
<1>2. IInv /\ DataInv /\ [Next]_vars => (IInv /\ DataInv)'
  BY StutterIInv, NextType, NextCoherent, NextOne, StutterOne DEF IInv
<1> QED  BY <1>1, <1>2, PTL DEF Spec

\* A unique clean copy is what memory has, as ccache.h says of the state.
THEOREM CachesCleanIsMemory == ASSUME Serialised PROVE Spec => []CleanIsMemory
<1>1. IInv /\ DataInv => CleanIsMemory
  <2> SUFFICES ASSUME IInv, DataInv, NEW c \in Caches, NEW l \in Lines, State(c, l) = "UniqueClean"
               PROVE  cached[c][l].data = memory[l]
    BY DEF CleanIsMemory
  <2> USE DEF IInv, CoherenceInv, DataInv
  <2>1. State(c, l) \in Unique /\ cached[c][l] # Absent
    BY CopyFacts DEF Unique, State
  <2>2. \A d \in Caches : State(d, l) # "UniqueDirty"
    BY <2>1, CopyFacts DEF SingleWriter, State
  <2>3. \A b, d \in Caches : Asks(b, l) => reply[b][d].state # "UniqueDirty"
    BY <2>1, CopyFacts DEF ReplyInv, Asks, Idle
  <2> QED  BY <2>1, <2>2, <2>3, ValueFacts
<1> QED  BY <1>1, DataAlways, PTL

\* Loads, stores, load-linked and store-conditional through the caches are
\* those of one memory.
THEOREM CachesAreOneMemory == ASSUME Serialised PROVE Spec => ImplementsOneMemory
<1>1. Init => One!Init
  BY InitType, InitCoherent, InitOne DEF IInv
<1>2. IInv /\ DataInv /\ [Next]_vars => [One!Next]_<<[l \in Lines |-> Value(l)], loaded, link>>
  BY NextOne, StutterOne DEF OneStep
<1> QED  BY <1>1, <1>2, DataAlways, PTL DEF Spec, ImplementsOneMemory, One!Spec

\* A store-conditional through the caches stores only for the core that is linked.
THEOREM CachesConditionalStores == ASSUME Serialised PROVE Spec => ConditionalStoreIsLinked
<1>1. IInv /\ DataInv =>
        [\A c \in Caches : \A a \in Found(c) :
            Answered(c) /\ ConditionalStore(c, a) => link[c] = access[c].line]_vars
  BY ConditionalLinked
<1> QED  BY <1>1, DataAlways, PTL DEF ConditionalStoreIsLinked
=============================================================================

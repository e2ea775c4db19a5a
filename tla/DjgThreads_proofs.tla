------------------------- MODULE DjgThreads_proofs -------------------------
(* The thread table of djgthread.c, for any number of cores, tasks and keys  *)
(* and any program that keeps to the named rules: each thread runs once,     *)
(* join returns what the thread returned, thread-specific data are the       *)
(* thread's own, and all of it implements ForkJoin.                          *)
EXTENDS DjgThreads, FiniteSetTheorems, TLAPS

Idle == {"reset", "await_start", "announce", "poll"}
Booting == {"check_start", "fill_table"}
Filling == {"set_arg", "set_entry", "set_core"}
Creating == {"search", "grow", "set_newt"} \cup Filling
Calling == {"body", "join_read", "key_store"} \cup Creating
Ending == {"retire", "exit_free", "exit_return"}
Labels == Idle \cup Booting \cup Calling \cup Ending \cup {"enter"}

(* Main has made the call that makes key v.                                  *)
KeyMade(v) == \E n \in DOMAIN Plan[0] : n <= done[0] /\ MakesKey(n, v)

(* The identifier of task k, from the store of the core on.                  *)
Tid(k) == IF pc[0] = "set_newt" /\ k = Subject(0).task THEN slot[0] ELSE newt[k]

(* A core is at, or in the middle of, a call.                                *)
InCall(c, call) == /\ done[task[c]] < Len(Plan[task[c]])
                   /\ Subject(c).call = call

-----------------------------------------------------------------------------
(* Types, without those of the keys.                                         *)
BaseTypes ==
    /\ started \in BOOLEAN /\ hwm \in Cores
    /\ nexttid \in 1 .. MaxThreads
    /\ core \in [Slots -> Cores \cup {-1}]
    /\ arg \in [Slots -> Values] /\ entryp \in [Slots -> Tasks]
    /\ current \in [Cores -> Slots \cup {-1}]
    /\ pc \in [Cores -> Labels] /\ task \in [Cores -> Tasks]
    /\ poll \in [Cores -> 0 .. MaxThreads] /\ slot \in [Cores -> 0 .. MaxThreads]
    /\ done \in [Tasks -> Nat]
    /\ newt \in [Tasks -> Slots] /\ got \in [Tasks -> Values] /\ runs \in [Tasks -> Nat]

(* Where the cores are.  A worker that has left the polling loop is at its   *)
(* own slot.                                                                 *)
ControlInv ==
    /\ pc[0] \in Booting \cup Calling
    /\ task[0] = 0 /\ current[0] = 0
    /\ \A k \in Tasks : done[k] <= Len(Plan[k])
    /\ \A c \in Workers :
          /\ pc[c] \notin Booting \cup Creating
          /\ pc[c] \notin Idle => poll[c] = c /\ current[c] = c
          /\ pc[c] \in Calling \cup Ending => task[c] # 0
    /\ \A c \in Cores :
          /\ pc[c] \in Creating => InCall(c, "create")
          /\ pc[c] = "join_read" => InCall(c, "join")
          /\ pc[c] = "key_store" => InCall(c, "key_create")
          /\ pc[c] \in Ending => done[task[c]] = Len(Plan[task[c]])

(* The slots: the first is main's, and every other one is free or its core's.*)
BootInv ==
    pc[0] \in Booting =>
        /\ nexttid = 1 /\ \A c \in Workers : pc[c] \in Idle
        /\ \A i \in Slots : core[i] \in {0, -1} /\ (pc[0] = "fill_table" /\ i < slot[0] => core[i] = -1)
        /\ pc[0] = "check_start" => slot[0] = 0
SlotInv ==
    pc[0] \notin Booting =>
        /\ core[0] = 0
        /\ \A i \in Slots \ {0} :
               /\ core[i] \in {i, -1}
               /\ core[i] = i => i < nexttid /\ Created(entryp[i]) /\ Tid(entryp[i]) = i
CreateInv ==
    /\ nexttid <= hwm + 1
    /\ pc[0] = "grow" => slot[0] = nexttid /\ slot[0] <= hwm
    /\ pc[0] \in Filling => slot[0] \in 1 .. nexttid - 1 /\ core[slot[0]] = -1
    /\ pc[0] = "set_newt" => slot[0] \in 1 .. nexttid - 1
    /\ pc[0] = "set_core" => entryp[slot[0]] = Subject(0).task
TableInv == BootInv /\ SlotInv /\ CreateInv

(* A slot that waits for its core, or whose function is about to be called,  *)
(* has a task that has not run.  A task is executed by one core.             *)
RunInv ==
    /\ \A k \in Tasks : runs[k] \in {0, 1} /\ (runs[k] = 1 => Created(k))
    /\ \A k \in Tasks \ {0} : runs[k] = 0 => done[k] = 0
    /\ \A c \in Workers :
          /\ core[c] = c /\ pc[c] \in Idle \cup {"enter"} => runs[entryp[c]] = 0
          /\ pc[c] \in {"enter"} \cup Calling \cup {"exit_free"} => core[c] = c
          /\ pc[c] \in Calling \cup Ending => runs[task[c]] = 1
    /\ \A c, d \in Cores : pc[c] \in Calling /\ pc[d] \in Calling /\ task[c] = task[d] => c = d

BaseInv == BaseTypes /\ ControlInv /\ TableInv /\ RunInv

-----------------------------------------------------------------------------
(* keyid counts the keys; what main has loaded is not out of date.           *)
KeyTypes ==
    /\ keyid \in 0 .. NKeys /\ fresh \in [Cores -> 0 .. NKeys]
    /\ keyvar \in [KeyVars -> 0 .. NKeys]
    /\ key \in [Slots -> [Fields -> 0 .. NKeys]]
KeyInv ==
    /\ \A v \in KeyVars : KeyMade(v) <=> keyvar[v] # 0
    /\ \A v \in KeyVars : keyvar[v] <= keyid
    /\ \A v, w \in KeyVars : keyvar[v] = keyvar[w] /\ keyvar[v] # 0 => v = w
    /\ keyid = Cardinality({v \in KeyVars : keyvar[v] # 0})
    /\ pc[0] = "key_store" => fresh[0] = keyid

-----------------------------------------------------------------------------
(* A slot that main fills has no core that is not through with its last      *)
(* task; so a task that main has yet to join keeps its slot and its result.  *)
Awaited(k) == \E j \in DOMAIN Plan[0] : done[0] < j /\ Joins(j, k)

HeldInv == \A k \in Tasks \ {0} : \A m \in 1 .. done[k] :
    Plan[k][m].call = "await" /\ Plan[k][m].task = 0 => done[0] >= Plan[k][m].upto
ResultInv == \A i \in Slots :
    arg[i].kind = "result" => done[arg[i].task] = Len(Plan[arg[i].task])
OwnTaskInv == \A c \in Workers :
    /\ pc[c] \in Calling \cup Ending => task[c] = entryp[c]
    /\ pc[c] \in {"exit_free", "exit_return"} => task[c] \in ExitTasks
    /\ pc[c] = "retire" /\ task[c] \notin ExitTasks => arg[c] = Result(task[c]) /\ core[c] = c
    /\ pc[0] \in Filling /\ slot[0] = c => pc[c] \in Idle
Kept(k) ==
    /\ Tid(k) # 0 /\ entryp[Tid(k)] = k
    /\ core[Tid(k)] = Tid(k) \/ arg[Tid(k)] = Result(k)
    /\ pc[0] \in Filling => slot[0] # Tid(k)
KeptInv == \A k \in Tasks \ ExitTasks : Created(k) /\ Awaited(k) => Kept(k)
JoiningInv ==
    /\ \A k \in Tasks : Created(k) \/ newt[k] = 0
    /\ pc[0] = "join_read" => Created(Subject(0).task) /\ core[newt[Subject(0).task]] = -1
(* A thread owns its slot until it is through.                               *)
Through(k) == runs[k] = 1 /\ done[k] = Len(Plan[k])
OwnerInv == \A k \in Tasks \ {0} : Created(k) =>
    Through(k) \/ (Tid(k) # 0 /\ core[Tid(k)] = Tid(k) /\ entryp[Tid(k)] = k)
JoinInv == HeldInv /\ ResultInv /\ OwnTaskInv /\ KeptInv /\ JoiningInv

-----------------------------------------------------------------------------
(* What a thread finds in its slot: each field with a key holds what the     *)
(* thread last stored under it, and a key is missing only if both fields had *)
(* others when the thread first stored under it.                             *)
Sets(c) == {n \in 1 .. done[task[c]] : Plan[task[c]][n].call = "set"}
(* The stores of task k before call m under the key that call m is about.    *)
OwnSets(k, m) == {n \in 1 .. m : Plan[k][n].call = "set" /\ Plan[k][n].upto = Plan[k][m].upto}
KeyOf(c, n) == keyvar[Plan[task[c]][n].upto]
FieldInv(c) ==
    /\ key[current[c]][0] # key[current[c]][1] \/ key[current[c]][1] = 0
    /\ key[current[c]][1] # 0 => key[current[c]][0] # 0
    /\ \A f \in Fields : key[current[c]][f] # 0 =>
          \E n \in Sets(c) :
             /\ KeyOf(c, n) = key[current[c]][f]
             /\ specific[current[c]][f] = Pointer(task[c], n)
             /\ \A o \in Sets(c) : n < o => KeyOf(c, o) # KeyOf(c, n)
    /\ \A n \in Sets(c) :
          \/ \E f \in Fields : key[current[c]][f] = KeyOf(c, n)
          \/ \A f \in Fields : /\ key[current[c]][f] # 0
                              /\ \E o \in Sets(c) : o < n /\ KeyOf(c, o) = key[current[c]][f]

NoKeys == [f \in Fields |-> 0]

SpecificTypes ==
    specific \in [Slots -> [Fields -> Tasks \X Nat]] /\ read \in [Tasks -> Tasks \X Nat]
(* A slot that waits for its core has no keys.                               *)
CleanInv ==
    /\ \A c \in Workers : core[c] = c /\ pc[c] \in Idle \cup {"enter"} => key[c] = NoKeys
    /\ pc[0] \in {"set_entry", "set_core"} => key[slot[0]] = NoKeys
    /\ pc[0] \in Booting => key[0] = NoKeys /\ done[0] = 0
FieldsInv == \A c \in Cores : pc[c] \in Calling => FieldInv(c)
SpecificInv == SpecificTypes /\ CleanInv /\ FieldsInv

-----------------------------------------------------------------------------
(* Programs and their calls.                                                 *)
LEMMA Constants ==
    /\ 0 \in Cores /\ 0 \in Tasks /\ 0 \in Slots /\ Cores \subseteq Slots
    /\ NCores \in Nat /\ MaxThreads \in Nat /\ NCores >= 2 /\ MaxThreads >= NCores
    /\ Workers = 1 .. NCores - 1
    /\ \A c \in Workers : c \in Cores /\ c # 0
    /\ \A c \in Cores : c = 0 \/ c \in Workers
BY CoresAssumption, MaxThreadsAssumption, NTasksAssumption DEF Cores, Tasks, Slots, Workers

LEMMA CallType ==
    ASSUME NEW x \in Calls
    PROVE  /\ x.task \in Tasks
           /\ x.call \in {"create", "join", "await", "key_create", "set", "get"}
           /\ x.call = "await" => x.upto \in Nat
           /\ x.call \in {"key_create", "set", "get"} => x.upto \in KeyVars
BY Constants DEF Calls

LEMMA PlanType ==
    ASSUME NEW k \in Tasks
    PROVE  /\ Plan[k] \in Seq(Calls) /\ Len(Plan[k]) \in Nat
           /\ DOMAIN Plan[k] = 1 .. Len(Plan[k])
           /\ \A n \in 1 .. Len(Plan[k]) : Plan[k][n] \in Calls
BY PlanAssumption

LEMMA SubjectType ==
    ASSUME BaseTypes, NEW c \in Cores, done[task[c]] < Len(Plan[task[c]])
    PROVE  /\ task[c] \in Tasks /\ done[task[c]] \in Nat
           /\ done[task[c]] + 1 \in 1 .. Len(Plan[task[c]])
           /\ Subject(c) = Plan[task[c]][done[task[c]] + 1]
           /\ Subject(c) \in Calls /\ Subject(c).task \in Tasks
<1>1. task[c] \in Tasks /\ done[task[c]] \in Nat
  BY DEF BaseTypes
<1>2. done[task[c]] + 1 \in 1 .. Len(Plan[task[c]])
  BY <1>1, PlanType
<1> QED BY <1>1, <1>2, PlanType, CallType DEF Subject

(* What main has done stays done.                                            *)
LEMMA CreatedStays ==
    ASSUME Effective \in Nat, Effective' \in {Effective, Effective + 1}
    PROVE  \A k : Created(k) => Created(k)'
<1> QED BY PlanType, Constants DEF Created, Creates

LEMMA InitBase == Init => BaseInv
<1> SUFFICES ASSUME Init PROVE BaseInv
  OBVIOUS
<1>1. BaseTypes
  <2>1. arg \in [Slots -> Values] /\ got \in [Tasks -> Values]
    BY Constants DEF Init, Values, Nothing
  <2>2. pc \in [Cores -> Labels]
    BY DEF Init, Labels, Idle, Booting
  <2>3. nexttid \in 1 .. MaxThreads /\ hwm \in Cores
    BY Constants DEF Init
  <2>4. 0 \in Cores \cup {-1} /\ 0 \in Slots \cup {-1} /\ 0 \in 0 .. MaxThreads /\ 0 \in Nat
    BY Constants
  <2>5. core \in [Slots -> Cores \cup {-1}] /\ entryp \in [Slots -> Tasks]
    BY <2>4, Constants DEF Init
  <2>6. current \in [Cores -> Slots \cup {-1}] /\ task \in [Cores -> Tasks]
    BY <2>4, Constants DEF Init
  <2>7. poll \in [Cores -> 0 .. MaxThreads] /\ slot \in [Cores -> 0 .. MaxThreads]
    BY <2>4 DEF Init
  <2>8. done \in [Tasks -> Nat] /\ runs \in [Tasks -> Nat] /\ newt \in [Tasks -> Slots]
    BY Constants DEF Init
  <2> QED BY <2>1, <2>2, <2>3, <2>5, <2>6, <2>7, <2>8 DEF Init, BaseTypes
<1>2. ControlInv
  <2>1. pc[0] = "check_start" /\ \A c \in Workers : pc[c] = "reset"
    BY Constants DEF Init
  <2>2. \A c \in Cores : pc[c] \in {"check_start", "reset"}
    BY DEF Init
  <2>3. \A k \in Tasks : done[k] <= Len(Plan[k])
    BY PlanType DEF Init
  <2> QED BY <2>1, <2>2, <2>3, Constants
      DEF Init, ControlInv, Idle, Booting, Calling, Creating, Filling, Ending
<1>3. TableInv
  BY Constants DEF Init, TableInv, BootInv, SlotInv, CreateInv, Booting, Idle, Filling, Cores, Workers
<1>4. RunInv
  BY Constants DEF Init, RunInv, Booting, Idle, Calling, Creating, Filling, Ending, Workers, Cores
<1> QED BY <1>1, <1>2, <1>3, <1>4 DEF BaseInv

-----------------------------------------------------------------------------
(* Types are kept, by main while it starts, by main in djgthread_create, by  *)
(* the workers, and by the other calls.                                      *)
LEMMA LabelType ==
    /\ Idle \subseteq Labels /\ Booting \subseteq Labels /\ Calling \subseteq Labels
    /\ Ending \subseteq Labels /\ "enter" \in Labels
    /\ "body" \in Calling /\ "join_read" \in Calling /\ "key_store" \in Calling
    /\ Creating \subseteq Calling /\ Filling \subseteq Creating
    /\ "search" \in Creating /\ "grow" \in Creating /\ "set_newt" \in Creating
BY DEF Labels, Calling, Creating

LEMMA PcType ==
    ASSUME BaseTypes, NEW c, NEW l \in Labels, pc' = [pc EXCEPT ![c] = l]
    PROVE  pc' \in [Cores -> Labels]
BY DEF BaseTypes

LEMMA ValueType ==
    ASSUME NEW k \in Tasks
    PROVE  {Nothing, Arg(k), Result(k), Leftover(k)} \subseteq Values
BY Constants DEF Nothing, Arg, Result, Leftover, Values

LEMMA Counting ==
    ASSUME NEW D, NEW x \in D
    PROVE  /\ \A f \in [D -> 0 .. MaxThreads] :
                 /\ f[x] < MaxThreads => [f EXCEPT ![x] = @ + 1] \in [D -> 0 .. MaxThreads]
                 /\ [f EXCEPT ![x] = 0] \in [D -> 0 .. MaxThreads]
           /\ \A f \in [D -> Nat] : [f EXCEPT ![x] = @ + 1] \in [D -> Nat]
<1>1. ASSUME NEW f \in [D -> 0 .. MaxThreads], f[x] < MaxThreads
      PROVE  [f EXCEPT ![x] = @ + 1] \in [D -> 0 .. MaxThreads]
  <2>1. f[x] + 1 \in 0 .. MaxThreads
    BY <1>1, Constants
  <2> QED BY <1>1, <2>1
<1>2. ASSUME NEW f \in [D -> 0 .. MaxThreads]
      PROVE  [f EXCEPT ![x] = 0] \in [D -> 0 .. MaxThreads]
  BY Constants
<1>3. ASSUME NEW f \in [D -> Nat]
      PROVE  [f EXCEPT ![x] = @ + 1] \in [D -> Nat]
  <2>1. f[x] + 1 \in Nat
    OBVIOUS
  <2> QED BY <1>3, <2>1
<1> QED BY <1>1, <1>2, <1>3

LEMMA NexttidType ==
    ASSUME BaseTypes
    PROVE  /\ nexttid \in Nat /\ nexttid <= MaxThreads /\ nexttid >= 1
           /\ \A c \in Cores : poll[c] \in Nat /\ slot[c] \in Nat
BY Constants DEF BaseTypes

(* What main knows while it creates a thread.                                *)
LEMMA CreatorKnows ==
    ASSUME BaseInv, pc[0] \in Creating
    PROVE  /\ Subject(0).task \in Tasks /\ Creates(done[0] + 1, Subject(0).task)
           /\ done[0] < Len(Plan[0])
           /\ pc[0] \in Filling \cup {"set_newt"} =>
                 slot[0] \in Workers /\ slot[0] \in Cores /\ slot[0] \in Slots /\ slot[0] # 0
           /\ pc[0] = "grow" => slot[0] \in Slots /\ slot[0] # 0 /\ slot[0] + 1 <= NCores
<1>1. InCall(0, "create") /\ task[0] = 0
  BY Constants DEF BaseInv, ControlInv
<1>2. Subject(0).task \in Tasks /\ Creates(done[0] + 1, Subject(0).task) /\ done[0] < Len(Plan[0])
  BY <1>1, Constants, SubjectType, PlanType DEF BaseInv, InCall, Creates
<1>3. hwm \in 0 .. NCores - 1 /\ nexttid \in 1 .. MaxThreads /\ slot[0] \in 0 .. MaxThreads
  BY Constants DEF BaseInv, BaseTypes, Cores
<1>4. CASE pc[0] \in Filling \cup {"set_newt"}
  <2>1. slot[0] \in 1 .. nexttid - 1 /\ nexttid <= hwm + 1
    BY <1>4 DEF BaseInv, TableInv, CreateInv
  <2> QED BY <1>2, <1>3, <1>4, <2>1, Constants DEF Filling, Cores, Slots, Workers
<1>5. CASE pc[0] = "grow"
  <2>1. slot[0] = nexttid /\ slot[0] <= hwm
    BY <1>5 DEF BaseInv, TableInv, CreateInv
  <2> QED BY <1>2, <1>3, <1>5, <2>1, Constants DEF Filling, Slots
<1> QED BY <1>2, <1>4, <1>5

(* The steps, by what they have in common: main starting, main in            *)
(* djgthread_create, a worker outside its task's calls, and the beginning    *)
(* and the end of any other call.                                            *)
MainCreates ==
    \/ CreateCall(0) \/ SlotBusy(0) \/ SlotFree(0) \/ NeedSlot(0) \/ GrowTable(0)
    \/ SearchAgain(0) \/ SetArg(0) \/ SetEntry(0) \/ SetCore(0) \/ SetNewt(0)
Works(c) == WorkLoop(c) \/ ExitStore(c) \/ ExitFree(c) \/ ExitReturn(c)
Begins(c) == JoinSeeFree(c) \/ KeyLoad(c)
Ends(c) == \/ JoinRead(c) \/ AwaitOther(c) \/ KeyStore(c)
           \/ StoreSpecific(c) \/ TooManyKeys(c) \/ ReadSpecific(c)

LEMMA Steps ==
    ASSUME OneCreator, BaseInv, NEW c \in Cores, CoreStep(c)
    PROVE  \/ c = 0 /\ (CheckStart \/ MainCreates)
           \/ c \in Workers /\ Works(c)
           \/ Begins(c) \/ Ends(c)
<1> DEFINE Search == \/ SlotBusy(c) \/ SlotFree(c) \/ NeedSlot(c) \/ GrowTable(c)
                     \/ SearchAgain(c) \/ SetArg(c) \/ SetEntry(c) \/ SetCore(c) \/ SetNewt(c)
<1>1. ASSUME c # 0 PROVE ~CreateCall(c)
  <2> SUFFICES ASSUME CreateCall(c) PROVE FALSE
    OBVIOUS
  <2>1. c \in Workers /\ pc[c] \in Calling /\ task[c] # 0 /\ task[c] \in Tasks
    BY <1>1, Constants, LabelType DEF CreateCall, AtCall, BaseInv, ControlInv, BaseTypes
  <2>2. done[task[c]] + 1 \in DOMAIN Plan[task[c]] /\ Plan[task[c]][done[task[c]] + 1].call = "create"
    BY SubjectType, PlanType, <2>1 DEF CreateCall, AtCall, BaseInv
  <2> QED BY <2>1, <2>2 DEF OneCreator, OnlyMain
<1>2. ASSUME c # 0 PROVE ~Search
  <2>1. c \in Workers /\ pc[c] \notin Creating
    BY <1>2, Constants DEF BaseInv, ControlInv
  <2>2. Search => pc[c] \in Creating
    BY DEF SlotBusy, SlotFree, NeedSlot, GrowTable, SearchAgain, SetArg, SetEntry, SetCore, SetNewt, Goto,
           Creating, Filling
  <2> QED BY <2>1, <2>2
<1>3. ASSUME c = 0 PROVE ~(ExitStore(c) \/ ExitFree(c) \/ ExitReturn(c))
  <2>1. pc[0] \in Booting \cup Calling
    BY DEF BaseInv, ControlInv
  <2> QED BY <1>3, <2>1 DEF ExitStore, ExitFree, ExitReturn, Goto, Booting, Calling, Creating, Filling
<1>4. CASE c = 0
  <2> HIDE DEF Search
  <2>1. TaskStep(c) => CreateCall(c) \/ Search \/ Begins(c) \/ Ends(c)
    BY <1>3, <1>4 DEF TaskStep, Begins, Ends, Search
  <2>2. CreateCall(c) \/ Search => MainCreates
    BY <1>4 DEF MainCreates, Search
  <2> QED BY <1>4, <2>1, <2>2 DEF CoreStep
<1>5. CASE c # 0
  <2>1. c \in Workers
    BY <1>5, Constants
  <2>2. TaskStep(c) => Works(c) \/ Begins(c) \/ Ends(c)
    BY <1>1, <1>2, <1>5 DEF TaskStep, Works, Begins, Ends
  <2> QED BY <1>5, <2>1, <2>2 DEF CoreStep, Works
<1> QED BY <1>4, <1>5

(* The beginning and the end of a call leave the table alone.                *)
LEMMA BeginShape ==
    ASSUME BaseInv, NEW c \in Cores, Begins(c)
    PROVE  /\ pc[c] = "body"
           /\ \/ pc' = [pc EXCEPT ![c] = "join_read"] /\ InCall(c, "join")
              \/ pc' = [pc EXCEPT ![c] = "key_store"] /\ InCall(c, "key_create")
           /\ UNCHANGED <<started, hwm, nexttid, core, arg, entryp, current, task, poll, slot,
                          done, newt, got, runs>>
BY DEF Begins, JoinSeeFree, KeyLoad, AtCall, Subject, InCall, table, client

LEMMA EndShape ==
    ASSUME BaseInv, NEW c \in Cores, Ends(c)
    PROVE  /\ pc[c] \in {"body", "join_read", "key_store"}
           /\ pc' = [pc EXCEPT ![c] = "body"]
           /\ task[c] \in Tasks /\ done[task[c]] < Len(Plan[task[c]])
           /\ done' = [done EXCEPT ![task[c]] = @ + 1]
           /\ got' \in [Tasks -> Values]
           /\ UNCHANGED <<started, hwm, nexttid, core, arg, entryp, current, task, poll, slot, newt, runs>>
<1> USE DEF table, client, CallDone
<1>1. pc \in [Cores -> Labels] /\ task[c] \in Tasks /\ got \in [Tasks -> Values]
  BY DEF BaseInv, BaseTypes
<1>2. CASE JoinRead(c)
  <2>1. InCall(c, "join")
    BY <1>2 DEF JoinRead, Goto, BaseInv, ControlInv
  <2>2. Subject(c).task \in Tasks
    BY <2>1, SubjectType DEF InCall, BaseInv
  <2>3. got' \in [Tasks -> Values]
    BY <1>2, <2>2 DEF JoinRead, BaseInv, BaseTypes
  <2> QED BY <1>1, <1>2, <2>1, <2>3 DEF JoinRead, Goto, InCall
<1>3. CASE KeyStore(c)
  <2>1. InCall(c, "key_create")
    BY <1>3 DEF KeyStore, Goto, BaseInv, ControlInv
  <2> QED BY <1>1, <1>3, <2>1 DEF KeyStore, Goto, InCall
<1>4. CASE AwaitOther(c)
  BY <1>1, <1>4 DEF AwaitOther, AtCall
<1>5. CASE StoreSpecific(c)
  BY <1>1, <1>5 DEF StoreSpecific, AtCall
<1>6. CASE TooManyKeys(c)
  BY <1>1, <1>6 DEF TooManyKeys, AtCall
<1>7. CASE ReadSpecific(c)
  BY <1>1, <1>7 DEF ReadSpecific, AtCall
<1> QED BY <1>2, <1>3, <1>4, <1>5, <1>6, <1>7 DEF Ends

LEMMA BootTypes ==
    ASSUME BaseInv, CheckStart
    PROVE  BaseTypes'
<1> USE Constants DEF BaseInv, table, client
<1>1. CASE SetStarted
  <2>1. pc' \in [Cores -> Labels]
    BY <1>1, PcType, LabelType DEF SetStarted, Goto, Booting
  <2> QED BY <1>1, <2>1 DEF SetStarted, BaseTypes
<1>2. CASE FillTable
  <2>1. core' \in [Slots -> Cores \cup {-1}]
    BY <1>2 DEF FillTable, BaseTypes
  <2>2. slot' \in [Cores -> 0 .. MaxThreads]
    BY <1>2, Counting DEF FillTable, BaseTypes
  <2> QED BY <1>2, <2>1, <2>2 DEF FillTable, BaseTypes
<1>3. CASE TakeCoreZero
  <2>1. pc' \in [Cores -> Labels]
    BY <1>3, PcType, LabelType DEF TakeCoreZero, Goto, Booting
  <2>2. core' \in [Slots -> Cores \cup {-1}]
    BY <1>3 DEF TakeCoreZero, BaseTypes
  <2> QED BY <1>3, <2>1, <2>2 DEF TakeCoreZero, BaseTypes
<1> QED BY <1>1, <1>2, <1>3 DEF CheckStart

LEMMA CreateTypes ==
    ASSUME BaseInv, MainCreates
    PROVE  BaseTypes'
<1> USE Constants DEF BaseInv, table, client
<1>1. CASE CreateCall(0)
  <2>1. pc' \in [Cores -> Labels]
    BY <1>1, PcType, LabelType DEF CreateCall, Goto, Creating
  <2>2. slot' \in [Cores -> 0 .. MaxThreads]
    BY <1>1 DEF CreateCall, BaseTypes
  <2> QED BY <1>1, <2>1, <2>2 DEF CreateCall, BaseTypes
<1>2. CASE SlotBusy(0)
  <2>1. slot' \in [Cores -> 0 .. MaxThreads]
    <3>1. slot[0] < MaxThreads
      BY <1>2, NexttidType DEF SlotBusy
    <3> QED BY <1>2, <3>1, Counting DEF SlotBusy, BaseTypes
  <2> QED BY <1>2, <2>1 DEF SlotBusy, BaseTypes
<1>3. CASE SlotFree(0)
  <2>1. pc' \in [Cores -> Labels]
    BY <1>3, PcType, LabelType DEF SlotFree, Goto, Creating, Filling
  <2> QED BY <1>3, <2>1 DEF SlotFree, BaseTypes
<1>4. CASE NeedSlot(0)
  <2>1. pc' \in [Cores -> Labels]
    BY <1>4, PcType, LabelType DEF NeedSlot, Goto, Creating, Filling
  <2> QED BY <1>4, <2>1 DEF NeedSlot, BaseTypes
<1>5. CASE GrowTable(0)
  <2>1. pc' \in [Cores -> Labels]
    BY <1>5, PcType, LabelType DEF GrowTable, Goto, Creating, Filling
  <2>2. nexttid' \in 1 .. MaxThreads
    <3>1. slot[0] = nexttid /\ slot[0] + 1 <= NCores /\ nexttid' \in {slot[0] + 1, nexttid + 1}
      BY <1>5, CreatorKnows, LabelType DEF GrowTable, Goto, TableInv, CreateInv
    <3> QED BY <3>1, NexttidType
  <2> QED BY <1>5, <2>1, <2>2 DEF GrowTable, BaseTypes
<1>6. CASE SearchAgain(0)
  <2>1. slot' \in [Cores -> 0 .. MaxThreads]
    BY <1>6 DEF SearchAgain, BaseTypes
  <2> QED BY <1>6, <2>1 DEF SearchAgain, BaseTypes
<1>7. CASE SetArg(0)
  <2>1. pc' \in [Cores -> Labels]
    BY <1>7, PcType, LabelType DEF SetArg, Goto, Creating, Filling
  <2>2. arg' \in [Slots -> Values]
    BY <1>7, CreatorKnows, LabelType, ValueType DEF SetArg, BaseTypes, Goto, Filling
  <2> QED BY <1>7, <2>1, <2>2 DEF SetArg, BaseTypes
<1>8. CASE SetEntry(0)
  <2>1. pc' \in [Cores -> Labels]
    BY <1>8, PcType, LabelType DEF SetEntry, Goto, Creating, Filling
  <2>2. entryp' \in [Slots -> Tasks]
    BY <1>8, CreatorKnows, LabelType DEF SetEntry, BaseTypes, Goto, Filling
  <2> QED BY <1>8, <2>1, <2>2 DEF SetEntry, BaseTypes
<1>9. CASE SetCore(0)
  <2>1. pc' \in [Cores -> Labels]
    BY <1>9, PcType, LabelType DEF SetCore, Goto, Creating, Filling
  <2>2. core' \in [Slots -> Cores \cup {-1}]
    BY <1>9, CreatorKnows, LabelType DEF SetCore, BaseTypes, Goto, Filling
  <2> QED BY <1>9, <2>1, <2>2 DEF SetCore, BaseTypes
<1>10. CASE SetNewt(0)
  <2>1. pc' \in [Cores -> Labels]
    BY <1>10, PcType, LabelType DEF SetNewt, Goto
  <2>2. newt' \in [Tasks -> Slots]
    BY <1>10, CreatorKnows, LabelType DEF SetNewt, BaseTypes, Goto
  <2>3. done' \in [Tasks -> Nat]
    BY <1>10, Counting DEF SetNewt, BaseTypes, Goto, CallDone
  <2> QED BY <1>10, <2>1, <2>2, <2>3 DEF SetNewt, BaseTypes
<1> QED BY <1>1, <1>2, <1>3, <1>4, <1>5, <1>6, <1>7, <1>8, <1>9, <1>10 DEF MainCreates

LEMMA WorkerTypes ==
    ASSUME BaseInv, NEW c \in Workers, Works(c)
    PROVE  BaseTypes'
<1> USE Constants DEF BaseInv, table, client
<1>1. CASE ResetCurrent(c)
  <2>1. pc' \in [Cores -> Labels]
    BY <1>1, PcType, LabelType DEF ResetCurrent, Goto, Idle
  <2>2. current' \in [Cores -> Slots \cup {-1}]
    BY <1>1 DEF ResetCurrent, BaseTypes
  <2> QED BY <1>1, <2>1, <2>2 DEF ResetCurrent, BaseTypes
<1>2. CASE SeeStarted(c)
  <2>1. pc' \in [Cores -> Labels]
    BY <1>2, PcType, LabelType DEF SeeStarted, Goto, Idle
  <2> QED BY <1>2, <2>1 DEF SeeStarted, BaseTypes
<1>3. CASE Announce(c)
  <2>1. pc' \in [Cores -> Labels]
    BY <1>3, PcType, LabelType DEF Announce, Goto, Idle
  <2>2. hwm' \in Cores
    BY <1>3 DEF Announce, BaseTypes, Cores
  <2> QED BY <1>3, <2>1, <2>2 DEF Announce, BaseTypes
<1>4. CASE PollOther(c)
  <2>1. poll' \in [Cores -> 0 .. MaxThreads]
    <3>1. poll[c] < MaxThreads
      BY <1>4, NexttidType DEF PollOther
    <3> QED BY <1>4, <3>1, Counting DEF PollOther, BaseTypes
  <2> QED BY <1>4, <2>1 DEF PollOther, BaseTypes
<1>5. CASE PollWrap(c)
  <2>1. poll' \in [Cores -> 0 .. MaxThreads]
    BY <1>5, Counting DEF PollWrap, BaseTypes
  <2> QED BY <1>5, <2>1 DEF PollWrap, BaseTypes
<1>6. CASE PollFound(c)
  <2>1. pc' \in [Cores -> Labels]
    BY <1>6, PcType, LabelType DEF PollFound, Goto, Idle
  <2>2. current' \in [Cores -> Slots \cup {-1}]
    <3>1. poll[c] \in Slots
      BY <1>6, NexttidType DEF PollFound, Slots
    <3> QED BY <1>6, <3>1 DEF PollFound, BaseTypes
  <2> QED BY <1>6, <2>1, <2>2 DEF PollFound, BaseTypes
<1>7. CASE EnterTask(c)
  <2>1. pc' \in [Cores -> Labels]
    BY <1>7, PcType, LabelType DEF EnterTask, Goto, Idle
  <2>2. entryp[poll[c]] \in Tasks
    BY <1>7 DEF EnterTask, BaseTypes, ControlInv, Goto, Idle
  <2>3. task' \in [Cores -> Tasks]
    BY <1>7, <2>2 DEF EnterTask, BaseTypes
  <2>4. runs' \in [Tasks -> Nat]
    BY <1>7, <2>2, Counting DEF EnterTask, BaseTypes
  <2> QED BY <1>7, <2>1, <2>3, <2>4 DEF EnterTask, BaseTypes
<1>8. CASE ReturnTask(c)
  <2>1. pc' \in [Cores -> Labels]
    BY <1>8, PcType, LabelType DEF ReturnTask, Goto, Ending
  <2>2. arg' \in [Slots -> Values]
    BY <1>8, ValueType DEF ReturnTask, BaseTypes
  <2> QED BY <1>8, <2>1, <2>2 DEF ReturnTask, BaseTypes
<1>9. CASE Retire(c)
  <2>1. pc' \in [Cores -> Labels]
    BY <1>9, PcType, LabelType DEF Retire, Goto, Idle
  <2>2. core' \in [Slots -> Cores \cup {-1}]
    BY <1>9 DEF Retire, BaseTypes
  <2>3. poll' \in [Cores -> 0 .. MaxThreads]
    <3>1. poll[c] < MaxThreads
      BY <1>9 DEF Retire, ControlInv, Goto, Idle, Cores
    <3> QED BY <1>9, <3>1, Counting DEF Retire, BaseTypes
  <2> QED BY <1>9, <2>1, <2>2, <2>3 DEF Retire, BaseTypes
<1>10. CASE ExitStore(c)
  <2>1. pc' \in [Cores -> Labels]
    BY <1>10, PcType, LabelType DEF ExitStore, Goto, Ending
  <2>2. arg' \in [Slots -> Values]
    BY <1>10, ValueType DEF ExitStore, BaseTypes
  <2> QED BY <1>10, <2>1, <2>2 DEF ExitStore, BaseTypes
<1>11. CASE ExitFree(c)
  <2>1. pc' \in [Cores -> Labels]
    BY <1>11, PcType, LabelType DEF ExitFree, Goto, Ending
  <2>2. core' \in [Slots -> Cores \cup {-1}]
    BY <1>11 DEF ExitFree, BaseTypes
  <2> QED BY <1>11, <2>1, <2>2 DEF ExitFree, BaseTypes
<1>12. CASE ExitReturn(c)
  <2>1. pc' \in [Cores -> Labels]
    BY <1>12, PcType, LabelType DEF ExitReturn, Goto, Ending
  <2>2. arg' \in [Slots -> Values]
    BY <1>12, ValueType DEF ExitReturn, BaseTypes
  <2> QED BY <1>12, <2>1, <2>2 DEF ExitReturn, BaseTypes
<1> QED BY <1>1, <1>2, <1>3, <1>4, <1>5, <1>6, <1>7, <1>8, <1>9, <1>10, <1>11, <1>12 DEF WorkLoop, Works

LEMMA StepTypes ==
    ASSUME OneCreator, BaseInv, NEW c \in Cores, CoreStep(c)
    PROVE  BaseTypes'
<1>1. CASE Begins(c)
  <2>1. pc' \in [Cores -> Labels]
    BY <1>1, BeginShape, PcType, LabelType DEF BaseInv
  <2> QED BY <1>1, <2>1, BeginShape DEF BaseInv, BaseTypes
<1>2. CASE Ends(c)
  <2>1. pc' \in [Cores -> Labels]
    BY <1>2, EndShape, PcType, LabelType DEF BaseInv
  <2>2. done' \in [Tasks -> Nat]
    <3>1. task[c] \in Tasks /\ done' = [done EXCEPT ![task[c]] = @ + 1]
      BY <1>2, EndShape
    <3> QED BY <3>1, Counting DEF BaseInv, BaseTypes
  <2> QED BY <1>2, <2>1, <2>2, EndShape DEF BaseInv, BaseTypes
<1> QED BY <1>1, <1>2, Steps, BootTypes, CreateTypes, WorkerTypes

LEMMA LabelsApart ==
    /\ Booting \cap Calling = {} /\ Idle \cap (Booting \cup Calling \cup Ending \cup {"enter"}) = {}
    /\ Calling \cap (Ending \cup {"enter"}) = {} /\ Creating \subseteq Calling
    /\ "enter" \notin Booting \cup Ending
BY DEF Booting, Calling, Creating, Filling, Idle, Ending

LEMMA CreateLabels ==
    ASSUME BaseInv, MainCreates
    PROVE  pc[0] \in Creating \cup {"body"} /\ pc'[0] \in Creating \cup {"body"}
<1>1. pc \in [Cores -> Labels] /\ 0 \in Cores
  BY Constants DEF BaseInv, BaseTypes
<1> QED BY <1>1 DEF MainCreates, CreateCall, AtCall, SlotBusy, SlotFree, NeedSlot, GrowTable, SearchAgain,
                    SetArg, SetEntry, SetCore, SetNewt, Goto, Creating, Filling

LEMMA WorkShape ==
    ASSUME BaseInv, NEW c \in Workers, Works(c)
    PROVE  /\ UNCHANGED <<started, nexttid, entryp, slot, done, newt, got>>
           /\ hwm' \in Nat /\ hwm \in Nat /\ hwm' >= hwm
           /\ \/ core' = core
              \/ pc[c] \in Ending /\ core' = [core EXCEPT ![c] = -1]
<1> USE DEF table, client, Goto
<1>1. hwm \in Nat /\ c \in Nat /\ c \in Cores /\ (pc[c] \notin Idle => poll[c] = c /\ current[c] = c)
  BY Constants DEF BaseInv, BaseTypes, ControlInv, Cores
<1>2. CASE Announce(c)
  BY <1>1, <1>2 DEF Announce
<1>3. CASE \/ ResetCurrent(c) \/ SeeStarted(c) \/ PollOther(c) \/ PollWrap(c) \/ PollFound(c)
           \/ EnterTask(c) \/ ReturnTask(c) \/ ExitStore(c) \/ ExitReturn(c)
  BY <1>1, <1>3 DEF ResetCurrent, SeeStarted, PollOther, PollWrap, PollFound,
                    EnterTask, ReturnTask, ExitStore, ExitReturn
<1>4. CASE Retire(c)
  <2>1. pc[c] \in Ending /\ poll[c] = c
    BY <1>1, <1>4 DEF Retire, Ending, Idle
  <2> QED BY <1>1, <1>4, <2>1 DEF Retire
<1>5. CASE ExitFree(c)
  <2>1. pc[c] \in Ending /\ current[c] = c
    BY <1>1, <1>5 DEF ExitFree, Ending, Idle
  <2> QED BY <1>1, <1>5, <2>1 DEF ExitFree
<1> QED BY <1>2, <1>3, <1>4, <1>5 DEF Works, WorkLoop

-----------------------------------------------------------------------------
(* A step of one core leaves the others where they are, and does not change  *)
(* how far their tasks have come.                                            *)
LEMMA Others ==
    ASSUME OneCreator, BaseInv, NEW c \in Cores, CoreStep(c), NEW d \in Cores, d # c
    PROVE  /\ pc'[d] = pc[d] /\ task'[d] = task[d]
           /\ poll'[d] = poll[d] /\ current'[d] = current[d] /\ slot'[d] = slot[d]
           /\ pc[d] \in Calling \cup Ending => done'[task[d]] = done[task[d]]
<1> USE DEF table, client, Goto
<1>1. CASE c = 0 /\ CheckStart
  BY <1>1 DEF CheckStart, SetStarted, FillTable, TakeCoreZero, BaseInv, BaseTypes
<1>2. CASE c = 0 /\ MainCreates
  <2>1. CASE SetNewt(0)
    <3>1. task[0] = 0 /\ (pc[d] \in Calling \cup Ending => task[d] # 0) /\ done \in [Tasks -> Nat]
      BY <1>2, Constants DEF BaseInv, ControlInv, BaseTypes
    <3> QED BY <1>2, <2>1, <3>1, Constants DEF SetNewt, CallDone, BaseInv, BaseTypes
  <2>2. CASE ~SetNewt(0)
    BY <1>2, <2>2 DEF MainCreates, CreateCall, SlotBusy, SlotFree, NeedSlot, GrowTable, SearchAgain,
                      SetArg, SetEntry, SetCore, BaseInv, BaseTypes
  <2> QED BY <2>1, <2>2
<1>3. CASE c \in Workers /\ Works(c)
  <2>1. CASE WorkLoop(c)
    BY <2>1 DEF WorkLoop, ResetCurrent, SeeStarted, Announce, PollOther, PollWrap,
                PollFound, EnterTask, ReturnTask, Retire, BaseInv, BaseTypes
  <2>2. CASE ExitStore(c) \/ ExitFree(c) \/ ExitReturn(c)
    BY <2>2 DEF ExitStore, ExitFree, ExitReturn, BaseInv, BaseTypes
  <2> QED BY <1>3, <2>1, <2>2 DEF Works
<1>4. CASE Begins(c)
  BY <1>4, BeginShape DEF BaseInv, BaseTypes
<1>5. CASE Ends(c)
  <2>1. pc[c] \in Calling /\ done[task[c]] < Len(Plan[task[c]])
    BY <1>5, EndShape, LabelType
  <2>2. pc[d] \in Calling => task[c] # task[d]
    BY <2>1 DEF BaseInv, RunInv
  <2>3. pc[d] \in Ending => done[task[d]] = Len(Plan[task[d]])
    BY DEF BaseInv, ControlInv
  <2>4. pc[d] \in Ending => task[c] # task[d]
    <3>1. task[c] \in Tasks /\ done[task[c]] \in Nat /\ Len(Plan[task[c]]) \in Nat
      BY PlanType DEF BaseInv, BaseTypes
    <3> QED BY <2>1, <2>3, <3>1
  <2>5. done' = [done EXCEPT ![task[c]] = @ + 1] /\ pc' = [pc EXCEPT ![c] = "body"]
        /\ UNCHANGED <<task, poll, current, slot>>
    BY <1>5, EndShape
  <2>6. pc[d] \in Calling \cup Ending => done'[task[d]] = done[task[d]]
    BY <2>2, <2>4, <2>5 DEF BaseInv, BaseTypes
  <2> QED BY <2>5, <2>6 DEF BaseInv, BaseTypes
<1> QED BY <1>1, <1>2, <1>3, <1>4, <1>5, Steps

(* What main has created, and the identifiers, change when a core is stored; *)
(* the end of djgthread_create leaves them as they are.                      *)
LEMMA Handing ==
    ASSUME OneCreator, BaseInv, NEW c \in Cores, CoreStep(c)
    PROVE  /\ Effective \in Nat /\ Effective' \in {Effective, Effective + 1}
           /\ done[0] \in Nat /\ Effective \in {done[0], done[0] + 1}
           /\ Effective' # Effective => c = 0 /\ (SetCore(0) \/ Ends(0)) /\ Effective = done[0]
           /\ c = 0 /\ SetCore(0) =>
                 /\ pc[0] = "set_core" /\ pc[0] \in Filling /\ pc'[0] = "set_newt"
                 /\ Effective = done[0] /\ Effective' = done[0] + 1
                 /\ \A k \in Tasks : Tid(k)' = IF k = Subject(0).task THEN slot[0] ELSE Tid(k)
           /\ ~(c = 0 /\ SetCore(0)) => \A k \in Tasks : Tid(k)' = Tid(k)
<1> USE DEF table, client, Goto
<1>0. /\ pc \in [Cores -> Labels] /\ done \in [Tasks -> Nat] /\ newt \in [Tasks -> Slots]
      /\ done[0] \in Nat /\ 0 \in Cores /\ 0 \in Tasks /\ task[0] = 0 /\ task[c] \in Tasks
  BY Constants DEF BaseInv, BaseTypes, ControlInv
<1>1. Effective \in Nat /\ Effective \in {done[0], done[0] + 1}
  BY <1>0 DEF Effective
<1>2. CASE c # 0
  <2>1. pc'[0] = pc[0] /\ slot'[0] = slot[0] /\ task'[0] = task[0]
    BY <1>0, <1>2, Others
  <2>2. Works(c) \/ Begins(c) \/ Ends(c)
    BY <1>2, Steps
  <2>3. newt' = newt
    BY <1>2, <2>2, Constants, WorkShape, BeginShape, EndShape
  <2>4. done'[0] = done[0]
    <3>1. CASE Works(c) \/ Begins(c)
      BY <1>2, <3>1, Constants, WorkShape, BeginShape
    <3>2. CASE Ends(c)
      <4>1. pc[c] \in Calling /\ done' = [done EXCEPT ![task[c]] = @ + 1]
        BY <3>2, EndShape, LabelType
      <4>2. task[c] # 0
        BY <1>2, <4>1, Constants DEF BaseInv, ControlInv
      <4> QED BY <1>0, <4>1, <4>2
    <3> QED BY <2>2, <3>1, <3>2
  <2>5. Effective' = Effective /\ Subject(0)' = Subject(0)
    BY <1>0, <2>1, <2>4 DEF Effective, Subject
  <2> QED BY <1>0, <1>1, <1>2, <2>1, <2>3, <2>5 DEF Tid
<1>3. CASE c = 0 /\ SetCore(0)
  <2>1. /\ pc[0] = "set_core" /\ pc'[0] = "set_newt" /\ UNCHANGED <<done, task, slot, newt>>
    BY <1>0, <1>3 DEF SetCore
  <2>2. Subject(0)' = Subject(0) /\ Effective = done[0] /\ Effective' = done[0] + 1
    BY <2>1 DEF Subject, Effective
  <2>3. \A k \in Tasks : Tid(k)' = IF k = Subject(0).task THEN slot[0] ELSE Tid(k)
    BY <2>1, <2>2 DEF Tid
  <2> QED BY <1>0, <1>1, <1>3, <2>1, <2>2, <2>3 DEF Filling
<1>4. CASE c = 0 /\ SetNewt(0)
  <2>1. pc[0] = "set_newt" /\ pc'[0] = "body" /\ newt' = [newt EXCEPT ![Subject(0).task] = slot[0]]
        /\ done'[0] = done[0] + 1
    BY <1>0, <1>4 DEF SetNewt, CallDone
  <2>2. Effective' = Effective
    BY <2>1 DEF Effective
  <2>3. \A k \in Tasks : Tid(k)' = Tid(k)
    BY <1>0, <2>1 DEF Tid
  <2>4. ~SetCore(0)
    BY <2>1 DEF SetCore
  <2> QED BY <1>0, <1>1, <1>4, <2>2, <2>3, <2>4
<1>5. CASE c = 0 /\ ~SetCore(0) /\ ~SetNewt(0)
  <2>1. pc[0] # "set_newt" /\ pc'[0] # "set_newt" /\ newt' = newt
        /\ (done'[0] = done[0] \/ (Ends(0) /\ done'[0] = done[0] + 1))
    <3>1. CASE CheckStart
      BY <1>0, <3>1 DEF CheckStart, SetStarted, FillTable, TakeCoreZero
    <3>2. CASE MainCreates
      BY <1>0, <1>5, <3>2 DEF MainCreates, CreateCall, AtCall, SlotBusy, SlotFree, NeedSlot, GrowTable,
                              SearchAgain, SetArg, SetEntry
    <3>3. CASE Begins(0)
      BY <1>0, <3>3, BeginShape
    <3>4. CASE Ends(0)
      BY <1>0, <3>4, EndShape
    <3> QED BY <1>5, <3>1, <3>2, <3>3, <3>4, Steps, Constants
  <2>2. Effective = done[0] /\ Effective' = done'[0] /\ \A k : Tid(k)' = Tid(k)
    BY <2>1 DEF Effective, Tid
  <2> QED BY <1>0, <1>1, <1>5, <2>1, <2>2
<1> QED BY <1>2, <1>3, <1>4, <1>5

LEMMA TidType ==
    ASSUME BaseInv
    PROVE  \A k \in Tasks : Tid(k) \in Slots
BY CreatorKnows, LabelType DEF BaseInv, BaseTypes, Tid

(* Calls are counted one by one.                                             *)
LEMMA DoneGrows ==
    ASSUME OneCreator, BaseInv, NEW c \in Cores, CoreStep(c), NEW k \in Tasks
    PROVE  /\ done'[k] \in {done[k], done[k] + 1}
           /\ done'[k] # done[k] => k = task[c] /\ pc[c] \in Calling /\ done[k] < Len(Plan[k])
           /\ \A j : Created(j) => Created(j)'
<1> USE DEF table, client, Goto
<1>1. done \in [Tasks -> Nat] /\ done[k] \in Nat
  BY DEF BaseInv, BaseTypes
<1>2. \/ done' = done
      \/ /\ done' = [done EXCEPT ![task[c]] = @ + 1]
         /\ task[c] \in Tasks /\ pc[c] \in Calling /\ done[task[c]] < Len(Plan[task[c]])
  <2>1. CASE c = 0 /\ CheckStart
    BY <2>1 DEF CheckStart, SetStarted, FillTable, TakeCoreZero
  <2>2. CASE c = 0 /\ MainCreates
    <3>1. CASE SetNewt(0)
      BY <2>2, <3>1, CreatorKnows, Constants, LabelType
         DEF SetNewt, CallDone, BaseInv, ControlInv, Filling, Creating
    <3>2. CASE ~SetNewt(0)
      BY <2>2, <3>2 DEF MainCreates, CreateCall, SlotBusy, SlotFree, NeedSlot, GrowTable, SearchAgain,
                        SetArg, SetEntry, SetCore, SetNewt
    <3> QED BY <3>1, <3>2
  <2>3. CASE c \in Workers /\ Works(c)
    BY <2>3 DEF Works, WorkLoop, ResetCurrent, SeeStarted, Announce, PollOther, PollWrap,
                PollFound, EnterTask, ReturnTask, Retire, ExitStore, ExitFree, ExitReturn
  <2>4. CASE Begins(c)
    BY <2>4, BeginShape
  <2>5. CASE Ends(c)
    BY <2>5, EndShape, LabelType
  <2> QED BY <2>1, <2>2, <2>3, <2>4, <2>5, Steps
<1>3. \A x \in Tasks : done'[x] \in {done[x], done[x] + 1}
  BY <1>1, <1>2
<1>4. \A j : Created(j) => Created(j)'
  BY Handing, CreatedStays
<1> QED BY <1>1, <1>2, <1>3, <1>4

LEMMA SameCall ==
    ASSUME NEW d, NEW call, task'[d] = task[d], done'[task[d]] = done[task[d]]
    PROVE  InCall(d, call) => InCall(d, call)'
BY DEF InCall, Subject

(* A worker enters a task that main has put in its slot and that has not     *)
(* run.                                                                      *)
LEMMA Entering ==
    ASSUME OneCreator, BaseInv, NEW c \in Workers, EnterTask(c)
    PROVE  /\ pc[0] \notin Booting /\ pc[c] = "enter" /\ poll[c] = c /\ core[c] = c
           /\ entryp[c] \in Tasks /\ entryp[c] # 0 /\ Created(entryp[c]) /\ Tid(entryp[c]) = c
           /\ runs[entryp[c]] = 0 /\ runs' = [runs EXCEPT ![entryp[c]] = 1]
           /\ pc' = [pc EXCEPT ![c] = "body"] /\ task' = [task EXCEPT ![c] = entryp[c]]
           /\ UNCHANGED <<core, entryp, newt, done, nexttid, arg>>
<1> USE DEF table, client, Goto
<1>1. c \in Slots \ {0} /\ c \in Cores /\ pc[c] = "enter" /\ poll[c] = c /\ core[c] = c
  BY Constants DEF EnterTask, BaseInv, RunInv, ControlInv, Idle
<1>2. pc[0] \notin Booting
  BY <1>1 DEF BaseInv, TableInv, BootInv, Idle
<1>3. Created(entryp[c]) /\ Tid(entryp[c]) = c /\ entryp[c] \in Tasks /\ runs[entryp[c]] = 0
  BY <1>1, <1>2 DEF BaseInv, TableInv, SlotInv, RunInv, BaseTypes
<1>4. entryp[c] # 0
  BY <1>3 DEF Created, OneCreator, Creates
<1>5. runs' = [runs EXCEPT ![entryp[c]] = 1]
  BY <1>1, <1>3 DEF EnterTask, BaseInv, BaseTypes
<1> QED BY <1>1, <1>2, <1>3, <1>4, <1>5 DEF EnterTask

(* Where a core's own step leads.                                            *)
LEMMA OwnControl ==
    ASSUME OneCreator, BaseInv, NEW c \in Cores, CoreStep(c)
    PROVE  /\ c = 0 => pc'[0] \in Booting \cup Calling /\ task'[0] = 0 /\ current'[0] = 0
           /\ c \in Workers =>
                 /\ pc'[c] \notin Booting \cup Creating
                 /\ pc'[c] \notin Idle => poll'[c] = c /\ current'[c] = c
                 /\ pc'[c] \in Calling \cup Ending => task'[c] # 0
           /\ pc'[c] \in Creating => InCall(c, "create")'
           /\ pc'[c] = "join_read" => InCall(c, "join")'
           /\ pc'[c] = "key_store" => InCall(c, "key_create")'
           /\ pc'[c] \in Ending => done'[task'[c]] = Len(Plan[task'[c]])
<1> USE DEF table, client, Goto
<1>0. pc \in [Cores -> Labels] /\ task \in [Cores -> Tasks] /\ done \in [Tasks -> Nat]
      /\ poll \in [Cores -> 0 .. MaxThreads] /\ current \in [Cores -> Slots \cup {-1}]
  BY DEF BaseInv, BaseTypes
<1>1. CASE c = 0 /\ CheckStart
  <2>1. pc'[0] \in Booting \cup {"body"} /\ task' = task /\ current' = current /\ done' = done
    BY <1>0, <1>1, Constants DEF CheckStart, SetStarted, FillTable, TakeCoreZero, Booting
  <2> QED BY <1>1, <2>1, Constants
          DEF BaseInv, ControlInv, Booting, Calling, Creating, Filling, Ending
<1>2. CASE c = 0 /\ MainCreates
  <2>1. pc'[0] = "body" \/ (pc'[0] \in Creating /\ done' = done /\ InCall(0, "create"))
    <3>1. CASE CreateCall(0)
      BY <1>0, <1>2, <3>1 DEF CreateCall, AtCall, InCall, Subject, Creating
    <3>2. CASE SetNewt(0)
      BY <1>0, <1>2, <3>2 DEF SetNewt
    <3>3. CASE \/ SlotBusy(0) \/ SlotFree(0) \/ NeedSlot(0) \/ GrowTable(0)
               \/ SearchAgain(0) \/ SetArg(0) \/ SetEntry(0) \/ SetCore(0)
      <4>1. pc[0] \in Creating /\ pc'[0] \in Creating /\ done' = done
        BY <1>0, <1>2, <3>3
           DEF SlotBusy, SlotFree, NeedSlot, GrowTable, SearchAgain, SetArg, SetEntry, SetCore, Creating, Filling
      <4> QED BY <1>2, <4>1 DEF BaseInv, ControlInv
    <3> QED BY <1>2, <3>1, <3>2, <3>3 DEF MainCreates
  <2>2. task' = task /\ current' = current
    BY <1>2 DEF MainCreates, CreateCall, SlotBusy, SlotFree, NeedSlot, GrowTable, SearchAgain,
                SetArg, SetEntry, SetCore, SetNewt
  <2>3. pc'[0] \in Creating => InCall(0, "create")'
    BY <2>1, <2>2, SameCall DEF Creating, Filling
  <2> QED BY <1>2, <2>1, <2>2, <2>3, Constants
          DEF BaseInv, ControlInv, Booting, Calling, Creating, Filling, Ending
<1>3. CASE c \in Workers /\ Works(c)
  <2>0. /\ c # 0 /\ c \in Cores /\ done' = done
        /\ pc[c] \notin Idle => poll[c] = c /\ current[c] = c
        /\ pc[c] \in Calling \cup Ending => task[c] # 0
        /\ pc[c] \in Ending => done[task[c]] = Len(Plan[task[c]])
    <3>1. done' = done
      BY <1>3 DEF Works, WorkLoop, ResetCurrent, SeeStarted, Announce, PollOther, PollWrap,
                  PollFound, EnterTask, ReturnTask, Retire, ExitStore, ExitFree, ExitReturn
    <3> QED BY <1>3, <3>1, Constants DEF BaseInv, ControlInv
  <2>1. CASE pc'[c] \in Idle
    BY <1>3, <2>0, <2>1 DEF Idle, Booting, Calling, Creating, Filling, Ending
  <2>2. CASE PollFound(c)
    <3>1. poll[c] \in Slots /\ core[poll[c]] = c
      BY <2>2, NexttidType, Constants DEF PollFound, Slots, BaseInv
    <3>2. poll[c] = c
      <4>1. CASE pc[0] \in Booting
        BY <2>0, <3>1, <4>1, Constants DEF BaseInv, TableInv, BootInv, Cores
      <4>2. CASE pc[0] \notin Booting
        BY <2>0, <3>1, <4>2, Constants DEF BaseInv, TableInv, SlotInv, Cores
      <4> QED BY <4>1, <4>2
    <3> QED BY <1>0, <2>0, <2>2, <3>2
            DEF PollFound, Idle, Booting, Calling, Creating, Filling, Ending
  <2>3. CASE EnterTask(c)
    <3>1. pc'[c] = "body" /\ poll'[c] = c /\ current'[c] = c /\ task'[c] # 0
      BY <1>0, <1>3, <2>0, <2>3, Entering DEF EnterTask, Idle
    <3> QED BY <2>0, <3>1
            DEF Idle, Booting, Calling, Creating, Filling, Ending
  <2>4. CASE ReturnTask(c) \/ ExitStore(c)
    BY <1>0, <2>0, <2>4
       DEF ReturnTask, ExitStore, Idle, Booting, Calling, Creating, Filling, Ending
  <2>5. CASE ExitFree(c) \/ ExitReturn(c)
    BY <1>0, <2>0, <2>5
       DEF ExitFree, ExitReturn, Idle, Booting, Calling, Creating, Filling, Ending
  <2>6. CASE \/ ResetCurrent(c) \/ SeeStarted(c) \/ Announce(c)
             \/ PollOther(c) \/ PollWrap(c) \/ Retire(c)
    <3>1. pc'[c] \in Idle
      BY <1>0, <2>6 DEF ResetCurrent, SeeStarted, Announce, PollOther, PollWrap, Retire, Idle
    <3> QED BY <2>1, <3>1
  <2> QED BY <1>3, <2>2, <2>3, <2>4, <2>5, <2>6 DEF Works, WorkLoop
<1>4. CASE Begins(c)
  <2>1. /\ \/ pc'[c] = "join_read" /\ InCall(c, "join")'
           \/ pc'[c] = "key_store" /\ InCall(c, "key_create")'
        /\ pc[c] = "body" /\ UNCHANGED <<poll, task, current>>
    BY <1>0, <1>4, BeginShape, SameCall
  <2> QED BY <2>1, Constants DEF BaseInv, ControlInv, Idle, Booting, Calling, Creating, Filling, Ending
<1>5. CASE Ends(c)
  <2>1. pc'[c] = "body" /\ UNCHANGED <<poll, task, current>>
        /\ pc[c] \in {"body", "join_read", "key_store"}
    BY <1>0, <1>5, EndShape
  <2> QED BY <2>1, Constants DEF BaseInv, ControlInv, Idle, Booting, Calling, Creating, Filling, Ending
<1> QED BY <1>1, <1>2, <1>3, <1>4, <1>5, Steps

LEMMA StepControl ==
    ASSUME OneCreator, BaseInv, NEW c \in Cores, CoreStep(c)
    PROVE  ControlInv'
<1>1. pc'[0] \in Booting \cup Calling /\ task'[0] = 0 /\ current'[0] = 0
  BY OwnControl, Others, Constants DEF BaseInv, ControlInv
<1>2. ASSUME NEW k \in Tasks PROVE done'[k] <= Len(Plan[k])
  <2>1. done[k] \in Nat /\ Len(Plan[k]) \in Nat /\ done[k] <= Len(Plan[k])
    BY PlanType DEF BaseInv, ControlInv, BaseTypes
  <2>2. done'[k] \in {done[k], done[k] + 1} /\ (done'[k] # done[k] => done[k] < Len(Plan[k]))
    BY DoneGrows
  <2> QED BY <2>1, <2>2
<1>3. ASSUME NEW d \in Workers
      PROVE  /\ pc'[d] \notin Booting \cup Creating
             /\ pc'[d] \notin Idle => poll'[d] = d /\ current'[d] = d
             /\ pc'[d] \in Calling \cup Ending => task'[d] # 0
  BY <1>3, OwnControl, Others, Constants DEF BaseInv, ControlInv
<1>4. ASSUME NEW d \in Cores, d # c
      PROVE  /\ pc'[d] \in Creating => InCall(d, "create")'
             /\ pc'[d] = "join_read" => InCall(d, "join")'
             /\ pc'[d] = "key_store" => InCall(d, "key_create")'
             /\ pc'[d] \in Ending => done'[task'[d]] = Len(Plan[task'[d]])
  <2>1. pc'[d] = pc[d] /\ task'[d] = task[d]
        /\ (pc[d] \in Calling \cup Ending => done'[task[d]] = done[task[d]])
    BY <1>4, Others
  <2> QED BY <1>4, <2>1, SameCall, LabelType DEF BaseInv, ControlInv
<1> QED BY <1>1, <1>2, <1>3, <1>4, OwnControl DEF ControlInv

-----------------------------------------------------------------------------
(* The slots.                                                                *)
LEMMA StepBoot ==
    ASSUME OneCreator, BaseInv, NEW c \in Cores, CoreStep(c), pc'[0] \in Booting
    PROVE  BootInv'
<1> USE DEF table, client, Goto
<1>0. /\ pc \in [Cores -> Labels] /\ core \in [Slots -> Cores \cup {-1}]
      /\ slot \in [Cores -> 0 .. MaxThreads] /\ BootInv /\ 0 \in Cores
  BY Constants DEF BaseInv, BaseTypes, TableInv
<1>1. CASE c = 0 /\ CheckStart
  <2>1. pc[0] \in Booting
    BY <1>1 DEF CheckStart, SetStarted, FillTable, TakeCoreZero, Booting
  <2>2. \A d \in Workers : pc'[d] = pc[d]
    BY <1>1, Others, Constants
  <2>3. nexttid' = 1 /\ \A d \in Workers : pc'[d] \in Idle
    BY <1>0, <1>1, <2>1, <2>2 DEF BootInv, CheckStart, SetStarted, FillTable, TakeCoreZero
  <2>4. CASE SetStarted
    BY <1>0, <2>1, <2>3, <2>4 DEF BootInv, SetStarted, Slots
  <2>5. CASE FillTable
    <3>1. pc'[0] = "fill_table" /\ slot'[0] = slot[0] + 1 /\ core' = [core EXCEPT ![slot[0]] = -1]
      BY <1>0, <2>5 DEF FillTable
    <3>2. \A i \in Slots : core'[i] \in {0, -1} /\ (i < slot'[0] => core'[i] = -1)
      BY <1>0, <2>1, <2>5, <3>1 DEF BootInv, FillTable, Slots
    <3> QED BY <2>3, <3>1, <3>2 DEF BootInv
  <2>6. CASE TakeCoreZero
    BY <1>0, <2>6 DEF TakeCoreZero, Booting
  <2> QED BY <1>1, <2>4, <2>5, <2>6 DEF CheckStart
<1>2. CASE c = 0 /\ MainCreates
  BY <1>2, CreateLabels, LabelsApart, LabelType
<1>3. CASE c \in Workers /\ Works(c)
  <2>1. pc'[0] = pc[0] /\ pc[c] \in Idle /\ \A d \in Workers \ {c} : pc'[d] = pc[d]
    BY <1>0, <1>3, Others, Constants DEF BootInv
  <2>2. ~PollFound(c)
    <3> SUFFICES ASSUME PollFound(c) PROVE FALSE
      OBVIOUS
    <3>1. poll[c] \in Slots /\ core[poll[c]] = c
      BY NexttidType, Constants DEF PollFound, Slots, BaseInv
    <3> QED BY <1>0, <1>3, <2>1, <3>1, Constants DEF BootInv, Cores
  <2>3. pc'[c] \in Idle
    BY <1>0, <1>3, <2>1, <2>2 DEF Works, WorkLoop, ResetCurrent, SeeStarted, Announce, PollOther, PollWrap,
             EnterTask, ReturnTask, Retire, ExitStore, ExitFree, ExitReturn, Idle
  <2>4. UNCHANGED <<nexttid, core, slot>>
    BY <1>3, <2>1, WorkShape, LabelsApart
  <2> QED BY <1>0, <2>1, <2>3, <2>4 DEF BootInv
<1>4. CASE Begins(c) \/ Ends(c)
  <2>1. pc[c] \in Calling /\ pc'[c] \in Calling
    BY <1>0, <1>4, BeginShape, EndShape, LabelType
  <2>2. c # 0 /\ pc[0] \in Booting
    BY <1>0, <2>1, Others, LabelsApart
  <2> QED BY <1>0, <2>1, <2>2, Constants, LabelsApart DEF BootInv
<1> QED BY <1>1, <1>2, <1>3, <1>4, Steps

(* Main creates a task that it has not created before.                       *)
LEMMA CreatesNew ==
    ASSUME OneCreator, BaseInv, pc[0] \in Creating
    PROVE  Subject(0).task # 0 /\ (pc[0] # "set_newt" => ~Created(Subject(0).task))
<1>1. Creates(done[0] + 1, Subject(0).task) /\ done[0] \in Nat /\ Subject(0).task \in Tasks
  BY CreatorKnows, Constants DEF BaseInv, BaseTypes
<1>2. \A n \in DOMAIN Plan[0] : Creates(n, Subject(0).task) => n = done[0] + 1 /\ Subject(0).task # 0
  BY <1>1 DEF OneCreator, Creates
<1>3. Subject(0).task # 0
  BY <1>1, <1>2 DEF Creates
<1> QED BY <1>1, <1>2, <1>3 DEF Created, Effective

(* A slot that main fills is free; the one that it adds is too.              *)
LEMMA StepCreate ==
    ASSUME OneCreator, BaseInv, NEW c \in Cores, CoreStep(c)
    PROVE  CreateInv'
<1> USE DEF table, client, Goto
<1>0. /\ pc \in [Cores -> Labels] /\ core \in [Slots -> Cores \cup {-1}]
      /\ slot \in [Cores -> 0 .. MaxThreads] /\ entryp \in [Slots -> Tasks]
      /\ nexttid \in Nat /\ hwm \in Nat /\ slot[0] \in Nat /\ CreateInv /\ 0 \in Cores
  <2>1. nexttid \in Nat /\ slot[0] \in Nat /\ 0 \in Cores
    BY Constants, NexttidType DEF BaseInv
  <2>2. hwm \in Nat
    BY DEF BaseInv, BaseTypes, Cores
  <2> QED BY <2>1, <2>2 DEF BaseInv, BaseTypes, TableInv
<1>1. CASE c = 0 /\ CheckStart
  BY <1>0, <1>1 DEF CheckStart, SetStarted, FillTable, TakeCoreZero, CreateInv, Filling
<1>2. CASE c = 0 /\ MainCreates
  <2>1. pc[0] \notin Booting
    BY <1>2, CreateLabels, LabelsApart, LabelType
  <2>2. core[0] = 0 /\ \A i \in Slots \ {0} : core[i] \in {i, -1} /\ (core[i] = i => i < nexttid)
    BY <2>1 DEF BaseInv, TableInv, SlotInv
  <2>3. CASE CreateCall(0) \/ SlotBusy(0) \/ SearchAgain(0) \/ SetCore(0) \/ SetNewt(0)
    BY <1>0, <1>2, <2>3 DEF CreateInv, CreateCall, SlotBusy, SearchAgain, SetCore, SetNewt, AtCall, Filling
  <2>4. CASE SlotFree(0)
    <3>1. slot[0] \in Slots /\ slot[0] # 0 /\ slot[0] < nexttid /\ core[slot[0]] = -1
      <4>1. slot[0] \in Slots
        BY <1>0, <2>4, NexttidType, Constants DEF SlotFree, Slots, BaseInv
      <4>2. core[slot[0]] \in {slot[0], -1} \/ slot[0] = 0
        BY <2>2, <4>1
      <4> QED BY <1>0, <2>2, <2>4, <4>1, <4>2 DEF SlotFree
    <3>2. pc'[0] = "set_arg" /\ UNCHANGED <<core, slot, nexttid, hwm>>
      BY <1>0, <2>4 DEF SlotFree
    <3> QED BY <1>0, <3>1, <3>2 DEF CreateInv, Filling
  <2>5. CASE NeedSlot(0)
    BY <1>0, <2>5 DEF CreateInv, NeedSlot, Filling
  <2>6. CASE GrowTable(0)
    <3>1. slot[0] = nexttid /\ slot[0] <= hwm /\ slot[0] \in Slots /\ slot[0] # 0
      BY <2>6, <1>0, CreatorKnows, LabelType DEF CreateInv, GrowTable
    <3>2. core[slot[0]] = -1
      BY <1>0, <2>2, <3>1
    <3>3. pc'[0] = "set_arg" /\ nexttid' = nexttid + 1 /\ UNCHANGED <<core, slot, hwm>>
      BY <1>0, <2>6, <3>1 DEF GrowTable
    <3> QED BY <1>0, <3>1, <3>2, <3>3 DEF CreateInv, Filling
  <2>7. CASE SetArg(0)
    BY <1>0, <2>7 DEF CreateInv, SetArg, Filling
  <2>8. CASE SetEntry(0)
    <3>1. slot[0] \in Slots /\ pc[0] \in Filling
      BY <2>8, CreatorKnows, LabelType DEF SetEntry, Filling
    <3>2. entryp'[slot[0]] = Subject(0).task /\ Subject(0)' = Subject(0) /\ pc'[0] = "set_core"
      BY <1>0, <2>8, <3>1 DEF SetEntry, Subject
    <3> QED BY <1>0, <2>8, <3>1, <3>2 DEF CreateInv, SetEntry, Filling
  <2> QED BY <1>2, <2>3, <2>4, <2>5, <2>6, <2>7, <2>8 DEF MainCreates
<1>3. CASE c \in Workers /\ Works(c)
  <2>1. pc'[0] = pc[0] /\ slot'[0] = slot[0] /\ Subject(0)' = Subject(0)
    BY <1>0, <1>3, Others, WorkShape, Constants DEF Subject
  <2>2. nexttid' = nexttid /\ entryp' = entryp /\ hwm' \in Nat /\ hwm' >= hwm
    BY <1>3, WorkShape
  <2>3. pc[0] \in Filling => core'[slot[0]] = -1
    <3> SUFFICES ASSUME pc[0] \in Filling PROVE core'[slot[0]] = -1
      OBVIOUS
    <3>1. slot[0] \in Slots /\ core[slot[0]] = -1
      BY <1>0, CreatorKnows, LabelType DEF CreateInv
    <3> QED BY <1>0, <1>3, <3>1, WorkShape
  <2>4. pc'[0] = "grow" => slot'[0] = nexttid' /\ slot'[0] <= hwm'
    BY <1>0, <2>1, <2>2 DEF CreateInv
  <2>5. nexttid' <= hwm' + 1
    <3>1. nexttid <= hwm + 1
      BY <1>0 DEF CreateInv
    <3>2. nexttid' \in Nat /\ hwm \in Nat /\ hwm' \in Nat /\ hwm' >= hwm /\ nexttid' <= hwm + 1
      BY <1>0, <2>2, <3>1
    <3>3. \A x, y, z \in Nat : x <= z + 1 /\ y >= z => x <= y + 1
      OBVIOUS
    <3> QED BY <3>2, <3>3
  <2> QED BY <1>0, <2>1, <2>2, <2>3, <2>4, <2>5 DEF CreateInv
<1>4. CASE Begins(c) \/ Ends(c)
  <2>1. /\ UNCHANGED <<nexttid, hwm, core, slot, entryp>>
        /\ c = 0 => pc'[0] \in {"body", "join_read", "key_store"}
    BY <1>0, <1>4, BeginShape, EndShape
  <2>2. CASE c = 0
    BY <1>0, <2>1, <2>2 DEF CreateInv, Filling
  <2>3. CASE c # 0
    <3>1. pc'[0] = pc[0] /\ (pc[0] \in Calling => Subject(0)' = Subject(0))
      BY <1>0, <2>3, Others DEF Subject
    <3> QED BY <1>0, <2>1, <3>1 DEF CreateInv, Calling, Creating, Filling
  <2> QED BY <2>2, <2>3
<1> QED BY <1>1, <1>2, <1>3, <1>4, Steps

LEMMA StepSlots ==
    ASSUME OneCreator, BaseInv, NEW c \in Cores, CoreStep(c), pc'[0] \notin Booting
    PROVE  SlotInv'
<1> USE DEF table, client, Goto
<1>0. /\ pc \in [Cores -> Labels] /\ core \in [Slots -> Cores \cup {-1}]
      /\ slot \in [Cores -> 0 .. MaxThreads] /\ entryp \in [Slots -> Tasks] /\ newt \in [Tasks -> Slots]
      /\ nexttid \in Nat /\ slot[0] \in Nat /\ 0 \in Cores /\ 0 \in Slots
      /\ \A i \in Slots : i \in Nat
      /\ \A j : Created(j) => Created(j)'
  <2>1. nexttid \in Nat /\ slot[0] \in Nat /\ 0 \in Cores /\ 0 \in Slots /\ 0 \in Tasks
    BY Constants, NexttidType DEF BaseInv
  <2>2. \A j : Created(j) => Created(j)'
    BY <2>1, DoneGrows
  <2>3. \A i \in Slots : i \in Nat
    BY DEF Slots
  <2> QED BY <2>1, <2>2, <2>3 DEF BaseInv, BaseTypes
<1>1. CASE c = 0 /\ CheckStart
  <2>1. TakeCoreZero
    BY <1>0, <1>1 DEF CheckStart, SetStarted, FillTable, Booting
  <2>2. \A i \in Slots : i < slot[0] /\ core[i] = -1
    BY <1>0, <2>1 DEF TakeCoreZero, BaseInv, TableInv, BootInv, Booting, Slots
  <2> QED BY <1>0, <2>1, <2>2 DEF TakeCoreZero, SlotInv
<1>2. ASSUME pc[0] \notin Booting,
             \A k \in Tasks : Tid(k)' = Tid(k), nexttid' \in Nat, nexttid' >= nexttid,
             \A i \in Slots \ {0} : core[i] = i => entryp'[i] = entryp[i],
             core' = core \/ \E d \in Workers : core' = [core EXCEPT ![d] = -1]
      PROVE  SlotInv'
  <2>1. core'[0] = 0 /\ \A i \in Slots \ {0} : core'[i] \in {core[i], -1}
    BY <1>0, <1>2, Constants DEF BaseInv, TableInv, SlotInv
  <2> QED BY <1>0, <1>2, <2>1 DEF BaseInv, TableInv, SlotInv
<1>3. CASE c = 0 /\ MainCreates
  <2>1. pc[0] \notin Booting
    BY <1>3, CreateLabels, LabelsApart, LabelType
  <2>2. CASE SetCore(0)
    <3> PICK k \in Tasks : k = Subject(0).task
      BY <2>2, CreatorKnows, LabelType DEF SetCore, Filling
    <3>1. /\ slot[0] \in Slots /\ slot[0] # 0 /\ slot[0] < nexttid /\ entryp[slot[0]] = k
          /\ k \in Tasks /\ Creates(done[0] + 1, k) /\ done[0] < Len(Plan[0]) /\ ~Created(k)
      <4>1. pc[0] \in Filling /\ pc[0] = "set_core"
        BY <2>2 DEF SetCore, Filling
      <4> QED BY <1>0, <4>1, CreatorKnows, CreatesNew, LabelType DEF BaseInv, TableInv, CreateInv
    <3>2. core' = [core EXCEPT ![slot[0]] = slot[0]] /\ UNCHANGED <<nexttid, entryp>>
          /\ Tid(k)' = slot[0] /\ (\A j \in Tasks : j # k => Tid(j)' = Tid(j))
          /\ Effective' = done[0] + 1 /\ done[0] \in Nat
      BY <1>3, <2>2, Handing DEF SetCore
    <3>3. Created(k)'
      BY <3>1, <3>2 DEF Created, Creates
    <3>4. ASSUME NEW i \in Slots \ {0}
          PROVE  /\ core'[i] \in {i, -1}
                 /\ core'[i] = i => i < nexttid' /\ Created(entryp[i])' /\ Tid(entryp[i])' = i
      <4>1. CASE i = slot[0]
        BY <1>0, <3>1, <3>2, <3>3, <4>1
      <4>2. CASE i # slot[0]
        <5>1. core'[i] = core[i] /\ (core[i] = i => Created(entryp[i]) /\ Tid(entryp[i]) = i)
          BY <1>0, <2>1, <3>2, <4>2 DEF BaseInv, TableInv, SlotInv
        <5>2. core[i] = i => entryp[i] # k
          BY <3>1, <5>1
        <5>3. core[i] \in {i, -1} /\ (core[i] = i => i < nexttid)
          BY <2>1 DEF BaseInv, TableInv, SlotInv
        <5>4. core[i] = i => Created(entryp[i])'
          BY <1>0, <3>2, <5>1
        <5>5. core[i] = i => Tid(entryp[i])' = i
          BY <1>0, <3>2, <5>1, <5>2
        <5> QED BY <3>2, <5>1, <5>3, <5>4, <5>5
      <4> QED BY <4>1, <4>2
    <3>5. core'[0] = 0
      BY <1>0, <2>1, <3>1, <3>2 DEF BaseInv, TableInv, SlotInv
    <3> QED BY <3>4, <3>5 DEF SlotInv
  <2>3. CASE SetEntry(0)
    <3>1. core[slot[0]] = -1 /\ slot[0] \in Slots
      BY <2>3, CreatorKnows, LabelType DEF SetEntry, Filling, BaseInv, TableInv, CreateInv
    <3>2. \A k \in Tasks : Tid(k)' = Tid(k)
      BY <1>3, <2>3, Handing DEF SetEntry, SetCore
    <3> QED BY <1>0, <1>2, <2>1, <2>3, <3>1, <3>2 DEF SetEntry
  <2>4. CASE GrowTable(0)
    <3>1. nexttid' \in Nat /\ nexttid' >= nexttid
      BY <1>0, <2>4 DEF GrowTable, BaseInv, TableInv, CreateInv
    <3>2. \A k \in Tasks : Tid(k)' = Tid(k)
      BY <1>3, <2>4, Handing DEF GrowTable, SetCore
    <3> QED BY <1>2, <2>1, <2>4, <3>1, <3>2 DEF GrowTable
  <2>5. CASE \/ CreateCall(0) \/ SlotBusy(0) \/ SlotFree(0) \/ NeedSlot(0)
             \/ SearchAgain(0) \/ SetArg(0) \/ SetNewt(0)
    <3>1. ~SetCore(0)
      BY <1>0, <2>5 DEF CreateCall, AtCall, SlotBusy, SlotFree, NeedSlot, SearchAgain, SetArg, SetNewt, SetCore
    <3>2. \A k \in Tasks : Tid(k)' = Tid(k)
      BY <1>3, <3>1, Handing
    <3> QED BY <1>0, <1>2, <2>1, <2>5, <3>2
            DEF CreateCall, SlotBusy, SlotFree, NeedSlot, SearchAgain, SetArg, SetNewt
  <2> QED BY <1>3, <2>2, <2>3, <2>4, <2>5 DEF MainCreates
<1>4. CASE c \in Workers /\ Works(c)
  <2>1. pc'[0] = pc[0]
    BY <1>0, <1>4, Others, Constants
  <2>2. \A k \in Tasks : Tid(k)' = Tid(k)
    BY <1>4, Constants, Handing
  <2> QED BY <1>0, <1>2, <1>4, <2>1, <2>2, WorkShape
<1>5. CASE Begins(c) \/ Ends(c)
  <2>1. pc[0] \notin Booting
    <3>1. CASE c = 0
      BY <1>5, <3>1, BeginShape, EndShape, LabelType, LabelsApart
    <3>2. CASE c # 0
      BY <1>0, <3>2, Others
    <3> QED BY <3>1, <3>2
  <2>2. ~(c = 0 /\ SetCore(0))
    BY <1>0, <1>5, BeginShape, EndShape DEF SetCore
  <2>3. \A k \in Tasks : Tid(k)' = Tid(k)
    BY <2>2, Handing
  <2> QED BY <1>0, <1>2, <1>5, <2>1, <2>3, BeginShape, EndShape
<1> QED BY <1>1, <1>3, <1>4, <1>5, Steps

LEMMA StepTable ==
    ASSUME OneCreator, BaseInv, NEW c \in Cores, CoreStep(c)
    PROVE  TableInv'
BY StepBoot, StepSlots, StepCreate DEF TableInv, BootInv, SlotInv

-----------------------------------------------------------------------------
(* Each task is executed once.                                               *)

(* Only the entry to a task changes runs; the worker's other steps stay with *)
(* the task it executes.                                                     *)
LEMMA RunShape ==
    ASSUME OneCreator, BaseInv, NEW c \in Cores, CoreStep(c)
    PROVE  \/ c \in Workers /\ EnterTask(c)
           \/ /\ runs' = runs /\ task' = task
              /\ pc'[c] \in Calling => pc[c] \in Booting \cup Calling
              /\ pc'[c] \in Ending => pc[c] \in Calling \cup Ending
              /\ pc'[c] \in {"enter"} \cup Idle => pc[c] \in Idle \/ (pc[c] = "retire" /\ pc'[c] = "poll")
              /\ pc'[c] = "exit_free" => pc[c] = "body"
              /\ c \in Workers => core' = core \/ core' = [core EXCEPT ![c] = -1]
              /\ c \in Workers /\ core' # core => pc[c] \in {"retire", "exit_free"}
              /\ c \in Workers => entryp' = entryp
<1> USE DEF table, client, Goto
<1>0. pc \in [Cores -> Labels] /\ (c \in Workers => c # 0)
  BY Constants DEF BaseInv, BaseTypes
<1>1. CASE c = 0 /\ CheckStart
  BY <1>0, <1>1 DEF CheckStart, SetStarted, FillTable, TakeCoreZero, Booting, Calling, Creating, Filling,
                    Ending, Idle
<1>2. CASE c = 0 /\ MainCreates
  <2>1. runs' = runs /\ task' = task
    BY <1>2 DEF MainCreates, CreateCall, SlotBusy, SlotFree, NeedSlot, GrowTable, SearchAgain,
                SetArg, SetEntry, SetCore, SetNewt
  <2>2. pc[0] \in Calling /\ pc'[0] \in Calling
    BY <1>2, CreateLabels, LabelType
  <2> QED BY <1>0, <1>2, <2>1, <2>2 DEF Calling, Creating, Filling, Ending, Idle
<1>3. CASE c \in Workers /\ Works(c)
  <2>1. (poll[c] = c /\ current[c] = c) \/ pc[c] \in Idle
    BY <1>3 DEF BaseInv, ControlInv
  <2>2. CASE WorkLoop(c)
    <3>1. CASE \/ ResetCurrent(c) \/ SeeStarted(c) \/ Announce(c)
               \/ PollOther(c) \/ PollWrap(c) \/ PollFound(c)
      <4>1. UNCHANGED <<runs, task, core, entryp>> /\ pc[c] \in Idle /\ pc'[c] \in Idle \cup {"enter"}
        BY <1>0, <1>3, <3>1 DEF ResetCurrent, SeeStarted, Announce, PollOther, PollWrap, PollFound, Idle
      <4>2. pc'[c] \notin Calling \cup Ending /\ pc'[c] # "exit_free"
        BY <4>1 DEF Calling, Creating, Filling, Ending, Idle
      <4> QED BY <4>1, <4>2
    <3>2. CASE ReturnTask(c) \/ Retire(c)
      BY <1>0, <1>3, <2>1, <3>2
         DEF ReturnTask, Retire, Calling, Creating, Filling, Ending, Idle
    <3> QED BY <1>3, <2>2, <3>1, <3>2 DEF WorkLoop
  <2>3. CASE ExitStore(c) \/ ExitFree(c) \/ ExitReturn(c)
    BY <1>0, <1>3, <2>1, <2>3
       DEF ExitStore, ExitFree, ExitReturn, Calling, Creating, Filling, Ending, Idle
  <2> QED BY <1>3, <2>2, <2>3 DEF Works
<1>4. CASE Begins(c) \/ Ends(c)
  <2>1. pc[c] \in Calling /\ pc'[c] \in Calling /\ UNCHANGED <<runs, task, core, entryp>>
    BY <1>0, <1>4, BeginShape, EndShape, LabelType
  <2> QED BY <2>1 DEF Calling, Creating, Filling, Ending, Idle
<1> QED BY <1>1, <1>2, <1>3, <1>4, Steps

LEMMA StepRuns ==
    ASSUME OneCreator, BaseInv, NEW c \in Cores, CoreStep(c), NEW k \in Tasks
    PROVE  /\ runs'[k] \in {0, 1} /\ (runs'[k] = 1 => Created(k)')
           /\ runs[k] = 1 => runs'[k] = 1
           /\ k # 0 /\ runs'[k] = 0 => done'[k] = 0
<1>1. runs[k] \in {0, 1} /\ (runs[k] = 1 => Created(k)) /\ (k # 0 /\ runs[k] = 0 => done[k] = 0)
  BY DEF BaseInv, RunInv
<1>2. runs'[k] \in {0, 1} /\ (runs'[k] = 1 => Created(k)) /\ (runs[k] = 1 => runs'[k] = 1)
  <2>1. CASE c \in Workers /\ EnterTask(c)
    BY <1>1, <2>1, Entering DEF BaseInv, BaseTypes
  <2>2. CASE runs' = runs
    BY <1>1, <2>2
  <2> QED BY <2>1, <2>2, RunShape
<1>3. Created(k) => Created(k)'
  BY DoneGrows
<1>4. ASSUME k # 0, runs[k] = 0 PROVE done'[k] = done[k]
  <2> SUFFICES ASSUME done'[k] # done[k] PROVE FALSE
    OBVIOUS
  <2>1. k = task[c] /\ pc[c] \in Calling
    BY DoneGrows
  <2>2. c \in Workers
    BY <1>4, <2>1, Constants DEF BaseInv, ControlInv
  <2> QED BY <1>4, <2>1, <2>2 DEF BaseInv, RunInv
<1> QED BY <1>1, <1>2, <1>3, <1>4

(* A waiting slot's task has not run.                                        *)
LEMMA StepWaiting ==
    ASSUME OneCreator, BaseInv, NEW c \in Cores, CoreStep(c), NEW d \in Workers,
           core'[d] = d, pc'[d] \in Idle \cup {"enter"}
    PROVE  runs'[entryp'[d]] = 0
<1> USE DEF table, client, Goto
<1>0. /\ d \in Cores /\ d \in Slots /\ d # 0 /\ d # -1 /\ c \in Slots
      /\ core \in [Slots -> Cores \cup {-1}] /\ entryp \in [Slots -> Tasks] /\ runs \in [Tasks -> Nat]
  <2>1. d \in Cores /\ d \in Slots /\ d # 0 /\ d # -1 /\ c \in Slots
    BY Constants DEF Cores
  <2> QED BY <2>1 DEF BaseInv, BaseTypes
<1>1. ASSUME core[d] = d, pc[d] \in Idle \cup {"enter"} PROVE runs[entryp[d]] = 0
  BY <1>1 DEF BaseInv, RunInv
<1>2. CASE c \in Workers /\ EnterTask(c)
  <2>1. d # c
    BY <1>0, <1>2, Entering, LabelsApart, LabelType DEF BaseInv, BaseTypes
  <2>2. pc[d] \in Idle \cup {"enter"} /\ core[d] = d /\ runs[entryp[d]] = 0
    BY <1>0, <1>1, <1>2, <2>1, Entering, Others
  <2>3. Tid(entryp[d]) = d
    BY <1>0, <1>2, <2>2, Entering DEF BaseInv, TableInv, SlotInv
  <2>4. entryp[d] # entryp[c]
    BY <1>2, <2>1, <2>3, Entering
  <2> QED BY <1>0, <1>2, <2>2, <2>4, Entering
<1>3. CASE d = c /\ ~EnterTask(c)
  <2>1. c # 0 /\ runs' = runs /\ entryp' = entryp
    BY <1>0, <1>3, RunShape
  <2>2. CASE pc[c] \in Idle
    <3>1. core' = core
      BY <1>0, <1>3, <2>2, RunShape DEF Idle
    <3> QED BY <1>1, <1>3, <2>1, <2>2, <3>1
  <2>3. CASE pc[c] = "retire" /\ pc'[c] = "poll"
    <3>1. Retire(c)
      <4>1. Works(c)
        BY <1>0, <1>3, <2>1, <2>3, Steps, BeginShape, EndShape
      <4>2. pc \in [Cores -> Labels]
        BY DEF BaseInv, BaseTypes
      <4> QED BY <1>0, <1>3, <2>3, <4>1, <4>2
              DEF Works, WorkLoop, ResetCurrent, SeeStarted, Announce, PollOther, PollWrap,
                  PollFound, EnterTask, ReturnTask, ExitStore, ExitFree, ExitReturn
    <3>2. poll[c] = c
      BY <1>0, <1>3, <2>3 DEF BaseInv, ControlInv, Idle
    <3> QED BY <1>0, <1>3, <3>1, <3>2 DEF Retire
  <2> QED BY <1>0, <1>3, <2>2, <2>3, RunShape
<1>4. CASE d # c /\ c \in Workers /\ ~EnterTask(c)
  <2>1. pc[d] \in Idle \cup {"enter"} /\ runs' = runs /\ entryp' = entryp /\ core[d] = d
    BY <1>0, <1>4, Others, RunShape
  <2> QED BY <1>1, <2>1
<1>5. CASE c = 0
  <2>0. pc[d] \in Idle \cup {"enter"} /\ runs' = runs
    BY <1>0, <1>5, Others, RunShape, Constants
  <2>1. CASE CheckStart
    <3>1. core'[d] \in {core[d], -1} /\ entryp' = entryp
      BY <1>0, <2>1 DEF CheckStart, SetStarted, FillTable, TakeCoreZero
    <3> QED BY <1>0, <1>1, <2>0, <3>1
  <2>2. CASE SetCore(0)
    <3>1. pc[0] \in Creating /\ pc[0] \in Filling /\ pc[0] = "set_core"
      BY <2>2, LabelType DEF SetCore, Filling
    <3>2. entryp[slot[0]] = Subject(0).task /\ ~Created(Subject(0).task) /\ Subject(0).task \in Tasks
      BY <3>1, CreatesNew, CreatorKnows DEF BaseInv, TableInv, CreateInv
    <3>3. runs[Subject(0).task] = 0
      BY <3>2 DEF BaseInv, RunInv
    <3>4. core' = [core EXCEPT ![slot[0]] = slot[0]] /\ entryp' = entryp
      BY <2>2 DEF SetCore
    <3> QED BY <1>0, <1>1, <2>0, <3>2, <3>3, <3>4
  <2>3. CASE SetEntry(0)
    <3>1. core[slot[0]] = -1
      BY <2>3 DEF SetEntry, Filling, BaseInv, TableInv, CreateInv
    <3>2. core' = core /\ entryp'[d] = entryp[d]
      BY <1>0, <2>3, <3>1 DEF SetEntry
    <3> QED BY <1>1, <2>0, <3>2
  <2>4. CASE \/ CreateCall(0) \/ SlotBusy(0) \/ SlotFree(0) \/ NeedSlot(0) \/ GrowTable(0)
             \/ SearchAgain(0) \/ SetArg(0) \/ SetNewt(0)
    <3>1. UNCHANGED <<core, entryp>>
      BY <2>4 DEF CreateCall, SlotBusy, SlotFree, NeedSlot, GrowTable, SearchAgain, SetArg, SetNewt
    <3> QED BY <1>1, <2>0, <3>1
  <2>5. CASE Begins(c) \/ Ends(c)
    <3>1. UNCHANGED <<core, entryp>>
      BY <2>5, BeginShape, EndShape
    <3> QED BY <1>1, <2>0, <3>1
  <2> QED BY <1>5, <2>1, <2>2, <2>3, <2>4, <2>5, Steps, Constants DEF MainCreates
<1> QED BY <1>2, <1>3, <1>4, <1>5, Constants

(* A core that executes a task has its slot.                                 *)
LEMMA StepBusy ==
    ASSUME OneCreator, BaseInv, NEW c \in Cores, CoreStep(c), NEW d \in Workers
    PROVE  /\ pc'[d] \in {"enter"} \cup Calling \cup {"exit_free"} => core'[d] = d
           /\ pc'[d] \in Calling \cup Ending => runs'[task'[d]] = 1
<1> USE DEF table, client, Goto
<1>0. /\ d \in Cores /\ d \in Slots /\ d # 0 /\ (c = 0 \/ c \in Workers)
      /\ core \in [Slots -> Cores \cup {-1}] /\ task[d] \in Tasks /\ pc \in [Cores -> Labels]
  BY Constants DEF BaseInv, BaseTypes
<1>1. pc[d] \in Calling \cup Ending => runs[task[d]] = 1
  BY DEF BaseInv, RunInv
<1>2. pc[d] \in {"enter"} \cup Calling \cup {"exit_free"} => core[d] = d
  BY DEF BaseInv, RunInv
<1>3. CASE d = c /\ EnterTask(c)
  BY <1>0, <1>3, Entering DEF BaseInv, BaseTypes
<1>4. CASE d = c /\ ~EnterTask(c)
  <2>1. pc'[c] \in Calling \cup Ending => pc[c] \in Calling \cup Ending
    BY <1>0, <1>4, RunShape, LabelsApart DEF BaseInv, ControlInv
  <2>2. runs' = runs /\ task' = task
    BY <1>4, RunShape
  <2>3. ASSUME pc'[c] \in {"enter"} \cup Calling \cup {"exit_free"} PROVE core'[c] = c
    <3>1. CASE pc'[c] = "enter"
      <4>1. pc[c] \in Idle
        BY <1>0, <1>4, <3>1, RunShape
      <4>2. PollFound(c)
        <5>1. Works(c)
          BY <1>0, <1>4, <3>1, <4>1, Steps, BeginShape, EndShape, LabelsApart, LabelType
        <5> QED BY <1>0, <1>4, <3>1, <5>1
                DEF Works, WorkLoop, ResetCurrent, SeeStarted, Announce, PollOther, PollWrap,
                    ReturnTask, Retire, ExitStore, ExitFree, ExitReturn, EnterTask, Idle
      <4>3. poll'[c] = c
        BY <1>0, <1>4, <3>1, OwnControl, LabelsApart
      <4> QED BY <1>0, <4>2, <4>3 DEF PollFound
    <3>2. CASE pc'[c] \in Calling \cup {"exit_free"}
      <4>1. pc[c] \in Calling
        BY <1>0, <1>4, <3>2, RunShape, LabelType DEF BaseInv, ControlInv
      <4>2. core' = core
        BY <1>0, <1>4, <4>1, RunShape, LabelsApart DEF Ending
      <4> QED BY <1>2, <1>4, <4>1, <4>2
    <3> QED BY <2>3, <3>1, <3>2
  <2> QED BY <1>1, <1>4, <2>1, <2>2, <2>3
<1>5. CASE d # c
  <2>1. pc'[d] = pc[d] /\ task'[d] = task[d]
    BY <1>0, <1>5, Others
  <2>2. runs[task[d]] = 1 => runs'[task[d]] = 1
    BY <1>0, StepRuns
  <2>3. ASSUME pc[d] \in {"enter"} \cup Calling \cup {"exit_free"} PROVE core'[d] = core[d]
    <3>1. CASE c \in Workers
      BY <1>0, <1>5, <3>1, Entering, RunShape
    <3>2. CASE c = 0 /\ CheckStart
      <4>1. pc[0] \in Booting
        BY <3>2 DEF CheckStart, SetStarted, FillTable, TakeCoreZero, Booting
      <4> QED BY <2>3, <4>1, LabelsApart DEF BaseInv, TableInv, BootInv, Idle, Calling, Creating, Filling
    <3>3. CASE c = 0 /\ MainCreates
      <4>1. SetCore(0) => slot[0] # d
        BY <1>2, <2>3, <1>0 DEF SetCore, BaseInv, TableInv, CreateInv, Filling
      <4> QED BY <1>0, <3>3, <4>1
              DEF MainCreates, CreateCall, SlotBusy, SlotFree, NeedSlot, GrowTable, SearchAgain,
                  SetArg, SetEntry, SetCore, SetNewt
    <3>4. CASE Begins(c) \/ Ends(c)
      BY <3>4, BeginShape, EndShape
    <3> QED BY <1>0, <3>1, <3>2, <3>3, <3>4, Steps
  <2> QED BY <1>1, <1>2, <2>1, <2>2, <2>3
<1> QED BY <1>3, <1>4, <1>5

(* No two cores execute one task.                                            *)
LEMMA StepApart ==
    ASSUME OneCreator, BaseInv, NEW c \in Cores, CoreStep(c), NEW a \in Cores, NEW b \in Cores,
           pc'[a] \in Calling, pc'[b] \in Calling, task'[a] = task'[b]
    PROVE  a = b
<1>1. CASE c \in Workers /\ EnterTask(c)
  <2>1. ASSUME NEW d \in Cores, d # c, pc'[d] \in Calling PROVE task'[d] # task'[c]
    <3>1. pc[d] \in Calling /\ task'[d] = task[d] /\ task'[c] = entryp[c]
      BY <1>1, <2>1, Others, Entering DEF BaseInv, BaseTypes
    <3>2. CASE d = 0
      <4>1. entryp[c] # 0
        BY <1>1, Entering
      <4>2. task[0] = 0
        BY DEF BaseInv, ControlInv
      <4> QED BY <3>1, <3>2, <4>1, <4>2
    <3>3. CASE d \in Workers
      BY <1>1, <3>1, <3>3, Entering DEF BaseInv, RunInv
    <3> QED BY <3>1, <3>2, <3>3, Constants
  <2> QED BY <2>1, <1>1, Others, Entering DEF BaseInv, RunInv
<1>2. CASE ~(c \in Workers /\ EnterTask(c))
  <2>1. ASSUME NEW d \in Cores, pc'[d] \in Calling
        PROVE  task'[d] = task[d] /\ (pc[d] \in Calling \/ (d = 0 /\ pc[0] \in Booting))
    <3>1. pc[d] \in Calling \cup Booting /\ task'[d] = task[d]
      BY <1>2, <2>1, RunShape, Others
    <3> QED BY <3>1, Constants DEF BaseInv, ControlInv
  <2>2. CASE pc[0] \in Booting
    <3>1. \A d \in Workers : pc[d] \notin Calling
      BY <2>2, LabelsApart DEF BaseInv, TableInv, BootInv
    <3>2. pc[0] \notin Calling
      BY <2>2, LabelsApart
    <3> QED BY <2>1, <3>1, <3>2, Constants
  <2>3. CASE pc[0] \notin Booting
    BY <2>1, <2>3 DEF BaseInv, RunInv
  <2> QED BY <2>2, <2>3
<1> QED BY <1>1, <1>2

LEMMA StepBase ==
    ASSUME OneCreator, BaseInv, NEW c \in Cores, CoreStep(c)
    PROVE  BaseInv'
<1>1. RunInv'
  BY StepRuns, StepWaiting, StepBusy, StepApart DEF RunInv
<1> QED BY <1>1, StepTypes, StepControl, StepTable DEF BaseInv

LEMMA StutterBase == BaseInv /\ UNCHANGED vars => BaseInv'
<1> SUFFICES ASSUME BaseInv, UNCHANGED vars PROVE BaseInv'
  OBVIOUS
<1> USE DEF vars, table, client
<1>1. BaseTypes'
  BY DEF BaseInv, BaseTypes
<1>2. ControlInv'
  BY DEF BaseInv, ControlInv, InCall, Subject
<1>3. TableInv'
  BY DEF BaseInv, TableInv, BootInv, SlotInv, CreateInv, Created, Effective, Tid, Subject
<1>4. RunInv'
  BY DEF BaseInv, RunInv, Created, Effective
<1> QED BY <1>1, <1>2, <1>3, <1>4 DEF BaseInv

LEMMA BaseInvariant == ASSUME OneCreator PROVE Spec => []BaseInv
<1>1. BaseInv /\ [Next]_vars => BaseInv'
  BY StepBase, StutterBase DEF Next
<1> QED BY <1>1, InitBase, PTL DEF Spec

(* Each thread that main creates is executed once, and by one core: the slot *)
(* of a core that polls has a task that has not run, and there is no other   *)
(* such slot.                                                                *)
THEOREM EachTaskOnce ==
    ASSUME OneCreator
    PROVE  Spec => []TasksRunOnce
<1>1. BaseInv => TasksRunOnce
  BY DEF BaseInv, RunInv, TasksRunOnce
<1> QED BY <1>1, BaseInvariant, PTL

-----------------------------------------------------------------------------
(* The keys.                                                                 *)
LEMMA InitKeys == Init => KeyTypes /\ KeyInv
<1> SUFFICES ASSUME Init PROVE KeyTypes /\ KeyInv
  OBVIOUS
<1>1. keyid = 0 /\ keyvar = [v \in KeyVars |-> 0] /\ pc[0] # "key_store" /\ done[0] = 0
  BY Constants DEF Init
<1>2. KeyTypes
  BY NKeysAssumption DEF Init, KeyTypes
<1>3. \A v \in KeyVars : ~KeyMade(v)
  BY <1>1, PlanType, Constants DEF KeyMade, MakesKey
<1>4. Cardinality({v \in KeyVars : keyvar[v] # 0}) = 0
  <2>1. {v \in KeyVars : keyvar[v] # 0} = {}
    BY <1>1
  <2> QED BY <2>1, FS_EmptySet
<1> QED BY <1>1, <1>2, <1>3, <1>4 DEF KeyInv

(* Only main makes keys, and not the key it has made before.                 *)
LEMMA KeyMaker ==
    ASSUME OneKeyMaker, BaseInv, NEW c \in Cores, pc[c] \in Calling, InCall(c, "key_create")
    PROVE  /\ c = 0 /\ Subject(0).upto \in KeyVars /\ ~KeyMade(Subject(0).upto)
           /\ MakesKey(done[0] + 1, Subject(0).upto)
<1>1. task[c] \in Tasks /\ done[task[c]] + 1 \in DOMAIN Plan[task[c]]
      /\ Plan[task[c]][done[task[c]] + 1].call = "key_create" /\ Subject(c) \in Calls
      /\ Subject(c) = Plan[task[c]][done[task[c]] + 1]
  BY SubjectType, PlanType DEF InCall, BaseInv
<1>2. task[c] = 0
  BY <1>1 DEF OneKeyMaker, OnlyMain
<1>3. c = 0
  BY <1>2, Constants DEF BaseInv, ControlInv
<1>4. Subject(0).upto \in KeyVars
  BY <1>1, <1>3, CallType
<1>5. MakesKey(done[0] + 1, Subject(0).upto)
  BY <1>1, <1>2, <1>3 DEF MakesKey
<1>6. ~KeyMade(Subject(0).upto)
  <2> SUFFICES ASSUME NEW n \in DOMAIN Plan[0], n <= done[0], MakesKey(n, Subject(0).upto) PROVE FALSE
    BY DEF KeyMade
  <2>1. n = done[0] + 1
    BY <1>1, <1>2, <1>4, <1>5 DEF OneKeyMaker
  <2>2. done[0] \in Nat
    BY Constants DEF BaseInv, BaseTypes
  <2> QED BY <2>1, <2>2
<1> QED BY <1>3, <1>4, <1>5, <1>6

LEMMA MadeSoFar ==
    ASSUME OneCreator, BaseInv, NEW c \in Cores, CoreStep(c), NEW v \in KeyVars
    PROVE  /\ done'[0] = done[0] => (KeyMade(v)' <=> KeyMade(v))
           /\ done'[0] = done[0] + 1 => (KeyMade(v)' <=> KeyMade(v) \/ MakesKey(done[0] + 1, v))
<1>1. done[0] \in Nat
  BY Constants DEF BaseInv, BaseTypes
<1>2. DOMAIN Plan[0] \subseteq Nat
  BY PlanType, Constants
<1>3. \A n \in Nat : n <= done[0] + 1 <=> n <= done[0] \/ n = done[0] + 1
  BY <1>1
<1>4. \A n : MakesKey(n, v) => n \in DOMAIN Plan[0]
  BY DEF MakesKey
<1>5. ASSUME done'[0] = done[0] + 1
      PROVE  KeyMade(v)' <=> KeyMade(v) \/ MakesKey(done[0] + 1, v)
  <2>1. KeyMade(v)' <=> \E n \in DOMAIN Plan[0] : n <= done[0] + 1 /\ MakesKey(n, v)
    BY <1>5 DEF KeyMade, MakesKey
  <2> QED BY <1>1, <1>2, <1>3, <1>4, <2>1 DEF KeyMade
<1> QED BY <1>5 DEF KeyMade, MakesKey

(* The steps, by what they do to the keys.                                   *)
LEMMA KeySteps ==
    ASSUME OneCreator, OneKeyMaker, BaseInv, NEW c \in Cores, CoreStep(c)
    PROVE  \/ c = 0 /\ (KeyLoad(0) \/ KeyStore(0))
           \/ /\ UNCHANGED <<keyid, fresh, keyvar>>
              /\ \A v \in KeyVars : KeyMade(v)' <=> KeyMade(v)
              /\ pc'[0] = "key_store" => pc[0] = "key_store"
              /\ \/ key' = key /\ specific' = specific
                 \/ c = 0 /\ SetArg(0)
                 \/ StoreSpecific(c)
              /\ read' = read \/ ReadSpecific(c)
<1> USE DEF table, client, tsd, Goto
<1>0. pc \in [Cores -> Labels] /\ done \in [Tasks -> Nat] /\ done[0] \in Nat /\ 0 \in Cores
      /\ task[c] \in Tasks
  BY Constants DEF BaseInv, BaseTypes
<1>1. ASSUME done' = done PROVE \A v \in KeyVars : KeyMade(v)' <=> KeyMade(v)
  BY <1>1, MadeSoFar
<1>2. ASSUME done'[0] = done[0] + 1, Subject(0).call # "key_create", task[0] = 0
      PROVE  \A v \in KeyVars : KeyMade(v)' <=> KeyMade(v)
  BY <1>2, MadeSoFar DEF MakesKey, Subject
<1>3. CASE c = 0 /\ CheckStart
  BY <1>0, <1>1, <1>3 DEF CheckStart, SetStarted, FillTable, TakeCoreZero
<1>4. CASE c = 0 /\ MainCreates
  <2>1. pc'[0] # "key_store"
    BY <1>4, CreateLabels DEF Creating, Filling
  <2>2. CASE SetNewt(0)
    <3>1. task[0] = 0 /\ Subject(0).call = "create"
      BY <1>0, <2>2 DEF SetNewt, BaseInv, ControlInv, Creating, InCall
    <3>2. done'[0] = done[0] + 1
      BY <1>0, <2>2, <3>1, Constants DEF SetNewt, CallDone
    <3> QED BY <1>2, <2>1, <2>2, <3>1, <3>2 DEF SetNewt
  <2>3. CASE SetArg(0)
    BY <1>1, <1>4, <2>1, <2>3 DEF SetArg
  <2>4. CASE \/ CreateCall(0) \/ SlotBusy(0) \/ SlotFree(0) \/ NeedSlot(0) \/ GrowTable(0)
             \/ SearchAgain(0) \/ SetEntry(0) \/ SetCore(0)
    <3>1. UNCHANGED <<tsd, done>>
      BY <2>4 DEF CreateCall, SlotBusy, SlotFree, NeedSlot, GrowTable, SearchAgain, SetEntry, SetCore
    <3> QED BY <1>1, <2>1, <3>1
  <2> QED BY <1>4, <2>2, <2>3, <2>4 DEF MainCreates
<1>5. CASE c \in Workers /\ Works(c)
  <2>1. UNCHANGED <<tsd, done>>
    BY <1>5 DEF Works, WorkLoop, ResetCurrent, SeeStarted, Announce, PollOther, PollWrap,
                PollFound, EnterTask, ReturnTask, Retire, ExitStore, ExitFree, ExitReturn
  <2>2. pc'[0] = pc[0]
    BY <1>0, <1>5, Others, Constants
  <2> QED BY <1>1, <2>1, <2>2
<1>6. CASE KeyLoad(c) \/ KeyStore(c)
  <2>1. pc[c] \in Calling /\ InCall(c, "key_create")
    BY <1>6, LabelType DEF KeyLoad, KeyStore, AtCall, Subject, InCall, BaseInv, ControlInv
  <2> QED BY <1>6, <2>1, KeyMaker
<1>7. CASE JoinSeeFree(c)
  <2>1. UNCHANGED <<tsd, done>> /\ (pc'[0] = pc[0] \/ pc'[0] = "join_read")
    BY <1>0, <1>7 DEF JoinSeeFree
  <2> QED BY <1>1, <2>1
<1>8. CASE JoinRead(c) \/ AwaitOther(c) \/ StoreSpecific(c) \/ TooManyKeys(c) \/ ReadSpecific(c)
  <2>1. /\ UNCHANGED <<keyid, fresh, keyvar>>
        /\ (key' = key /\ specific' = specific) \/ StoreSpecific(c)
        /\ read' = read \/ ReadSpecific(c)
    BY <1>8 DEF JoinRead, AwaitOther, StoreSpecific, TooManyKeys, ReadSpecific
  <2>2. Subject(c).call # "key_create" /\ Ends(c)
    BY <1>8 DEF JoinRead, AwaitOther, StoreSpecific, TooManyKeys, ReadSpecific, AtCall, Subject, Ends,
                BaseInv, ControlInv, InCall
  <2>3. pc'[0] = pc[0] \/ pc'[0] = "body"
    BY <1>0, <2>2, EndShape
  <2>4. \A v \in KeyVars : KeyMade(v)' <=> KeyMade(v)
    <3>1. CASE c = 0
      <4>1. task[0] = 0 /\ done' = [done EXCEPT ![0] = @ + 1]
        BY <2>2, <3>1, EndShape DEF BaseInv, ControlInv
      <4> QED BY <1>0, <1>2, <2>2, <3>1, <4>1, Constants
    <3>2. CASE c # 0
      <4>1. done'[0] = done[0]
        BY <3>2, DoneGrows, Constants, LabelType DEF BaseInv, ControlInv
      <4> QED BY <4>1, MadeSoFar
    <3> QED BY <3>1, <3>2
  <2> QED BY <2>1, <2>3, <2>4
<1> QED BY <1>3, <1>4, <1>5, <1>6, <1>7, <1>8, Steps DEF Begins, Ends

(* A new key is the next number, and there is one left for it.               *)
LEMMA NewKey ==
    ASSUME OneCreator, OneKeyMaker, BaseInv, KeyTypes, KeyInv, KeyStore(0)
    PROVE  \E v \in KeyVars :
              /\ v = Subject(0).upto /\ MakesKey(done[0] + 1, v) /\ keyvar[v] = 0
              /\ done'[0] = done[0] + 1 /\ pc'[0] = "body"
              /\ keyid \in Nat /\ keyid + 1 \in 1 .. NKeys
              /\ keyid' = keyid + 1 /\ keyvar' = [keyvar EXCEPT ![v] = keyid + 1]
              /\ keyid' = Cardinality({w \in KeyVars : keyvar'[w] # 0})
              /\ UNCHANGED <<key, fresh>>
<1> USE DEF Goto
<1>0. pc \in [Cores -> Labels] /\ done \in [Tasks -> Nat] /\ 0 \in Cores /\ 0 \in Tasks
      /\ keyid \in Nat /\ keyvar \in [KeyVars -> 0 .. NKeys] /\ NKeys \in Nat
  <2>1. keyid \in Nat /\ keyvar \in [KeyVars -> 0 .. NKeys] /\ NKeys \in Nat
    BY NKeysAssumption DEF KeyTypes
  <2> QED BY <2>1, Constants DEF BaseInv, BaseTypes
<1>1. pc[0] = "key_store" /\ pc[0] \in Calling /\ InCall(0, "key_create") /\ task[0] = 0
  BY <1>0, LabelType DEF KeyStore, BaseInv, ControlInv
<1> PICK v \in KeyVars : v = Subject(0).upto /\ ~KeyMade(v) /\ MakesKey(done[0] + 1, v)
  BY <1>0, <1>1, KeyMaker
<1>2. keyvar[v] = 0 /\ fresh[0] = keyid
  BY <1>1 DEF KeyInv
<1>3. keyid' = keyid + 1 /\ keyvar' = [keyvar EXCEPT ![v] = keyid + 1] /\ pc'[0] = "body"
      /\ done'[0] = done[0] + 1 /\ UNCHANGED <<key, fresh>>
  BY <1>0, <1>1, <1>2 DEF KeyStore, CallDone
<1> DEFINE Made == {w \in KeyVars : keyvar[w] # 0}
           MadeNext == {w \in KeyVars : keyvar'[w] # 0}
<1>4. IsFiniteSet(KeyVars) /\ Cardinality(KeyVars) = NKeys
  BY <1>0, FS_Interval DEF KeyVars
<1>5. Made \in SUBSET KeyVars /\ MadeNext \in SUBSET KeyVars /\ v \notin Made /\ MadeNext = Made \cup {v}
  BY <1>0, <1>2, <1>3
<1>6. keyid = Cardinality(Made)
  BY DEF KeyInv
<1> HIDE DEF Made, MadeNext
<1>7. Cardinality(MadeNext) = Cardinality(Made) + 1
  <2>1. IsFiniteSet(Made)
    BY <1>4, <1>5, FS_Subset
  <2> QED BY <1>5, <2>1, FS_AddElement
<1>8. Cardinality(MadeNext) <= NKeys
  BY <1>4, <1>5, FS_Subset
<1>9. keyid + 1 \in 1 .. NKeys
  BY <1>0, <1>6, <1>7, <1>8
<1> QED BY <1>0, <1>2, <1>3, <1>6, <1>7, <1>9 DEF MadeNext

LEMMA StepKeyTypes ==
    ASSUME OneCreator, OneKeyMaker, BaseInv, KeyTypes, KeyInv, NEW c \in Cores, CoreStep(c)
    PROVE  KeyTypes'
<1>0. /\ keyid \in 0 .. NKeys /\ fresh \in [Cores -> 0 .. NKeys] /\ keyvar \in [KeyVars -> 0 .. NKeys]
      /\ key \in [Slots -> [Fields -> 0 .. NKeys]] /\ NKeys \in Nat
  BY NKeysAssumption DEF KeyTypes
<1>1. CASE KeyLoad(0)
  BY <1>0, <1>1 DEF KeyLoad, KeyTypes
<1>2. CASE KeyStore(0)
  <2> PICK v \in KeyVars :
              /\ keyid \in Nat /\ keyid + 1 \in 1 .. NKeys
              /\ keyid' = keyid + 1 /\ keyvar' = [keyvar EXCEPT ![v] = keyid + 1]
              /\ UNCHANGED <<key, fresh>>
    BY <1>2, NewKey
  <2>1. keyid + 1 \in 0 .. NKeys
    BY <1>0
  <2> QED BY <1>0, <2>1 DEF KeyTypes
<1>3. CASE UNCHANGED <<keyid, fresh, keyvar>> /\ key' = key
  BY <1>0, <1>3 DEF KeyTypes
<1>4. CASE UNCHANGED <<keyid, fresh, keyvar>> /\ SetArg(0)
  <2>1. [f \in Fields |-> 0] \in [Fields -> 0 .. NKeys]
    BY <1>0
  <2>2. key' \in [Slots -> [Fields -> 0 .. NKeys]]
    BY <1>0, <1>4, <2>1 DEF SetArg
  <2> QED BY <1>0, <1>4, <2>2 DEF KeyTypes
<1>5. CASE UNCHANGED <<keyid, fresh, keyvar>> /\ StoreSpecific(c)
  <2>1. Subject(c).upto \in KeyVars
    <3>1. done[task[c]] < Len(Plan[task[c]]) /\ Subject(c).call = "set"
      BY <1>5 DEF StoreSpecific, AtCall, Subject
    <3> QED BY <3>1, SubjectType, CallType DEF BaseInv
  <2>2. keyvar[Subject(c).upto] \in 0 .. NKeys
    BY <1>0, <2>1
  <2>3. key' \in [Slots -> [Fields -> 0 .. NKeys]]
    BY <1>0, <1>5, <2>2 DEF StoreSpecific
  <2> QED BY <1>0, <1>5, <2>3 DEF KeyTypes
<1> QED BY <1>1, <1>2, <1>3, <1>4, <1>5, KeySteps

LEMMA StepKeyInv ==
    ASSUME OneCreator, OneKeyMaker, BaseInv, KeyTypes, KeyInv, NEW c \in Cores, CoreStep(c)
    PROVE  KeyInv'
<1>0. keyid \in Nat /\ keyvar \in [KeyVars -> 0 .. NKeys] /\ NKeys \in Nat
  BY NKeysAssumption DEF KeyTypes
<1>1. CASE KeyLoad(0)
  <2>1. fresh'[0] = keyid /\ UNCHANGED <<keyid, keyvar, done>>
    BY <1>1, Constants DEF KeyLoad, KeyTypes, client
  <2>2. \A v \in KeyVars : KeyMade(v)' <=> KeyMade(v)
    BY <2>1, MadeSoFar
  <2> QED BY <2>1, <2>2 DEF KeyInv
<1>2. CASE KeyStore(0)
  <2> PICK v \in KeyVars :
              /\ v = Subject(0).upto /\ MakesKey(done[0] + 1, v) /\ keyvar[v] = 0
              /\ done'[0] = done[0] + 1 /\ pc'[0] = "body"
              /\ keyid \in Nat /\ keyid + 1 \in 1 .. NKeys
              /\ keyid' = keyid + 1 /\ keyvar' = [keyvar EXCEPT ![v] = keyid + 1]
              /\ keyid' = Cardinality({w \in KeyVars : keyvar'[w] # 0})
    BY <1>2, NewKey
  <2>1. \A w \in KeyVars : MakesKey(done[0] + 1, w) <=> w = v
    BY DEF MakesKey
  <2>2. \A w \in KeyVars : KeyMade(w)' <=> KeyMade(w) \/ w = v
    BY <2>1, MadeSoFar
  <2>3. \A w \in KeyVars : keyvar'[w] = IF w = v THEN keyid + 1 ELSE keyvar[w]
    BY <1>0
  <2>4. \A w \in KeyVars : keyvar[w] \in Nat /\ keyvar[w] <= keyid /\ (KeyMade(w) <=> keyvar[w] # 0)
    BY <1>0 DEF KeyInv
  <2>5. \A w \in KeyVars : (KeyMade(w)' <=> keyvar'[w] # 0) /\ keyvar'[w] <= keyid'
    BY <1>0, <2>2, <2>3, <2>4
  <2>6. \A u, w \in KeyVars : keyvar'[u] = keyvar'[w] /\ keyvar'[u] # 0 => u = w
    BY <1>0, <2>3, <2>4 DEF KeyInv
  <2> QED BY <2>5, <2>6 DEF KeyInv
<1>3. CASE /\ UNCHANGED <<keyid, fresh, keyvar>>
           /\ \A v \in KeyVars : KeyMade(v)' <=> KeyMade(v)
           /\ pc'[0] = "key_store" => pc[0] = "key_store"
  BY <1>3 DEF KeyInv
<1> QED BY <1>1, <1>2, <1>3, KeySteps

LEMMA StutterKeys == KeyTypes /\ KeyInv /\ UNCHANGED vars => KeyTypes' /\ KeyInv'
BY DEF KeyTypes, KeyInv, KeyMade, vars, client, tsd

LEMMA KeyInvariant == ASSUME OneCreator, OneKeyMaker PROVE Spec => [](BaseInv /\ KeyTypes /\ KeyInv)
<1>1. BaseInv /\ KeyTypes /\ KeyInv /\ [Next]_vars => (BaseInv /\ KeyTypes /\ KeyInv)'
  BY StepBase, StutterBase, StepKeyTypes, StepKeyInv, StutterKeys DEF Next
<1> QED BY <1>1, InitBase, InitKeys, PTL DEF Spec

(* Nothing in the table or of a core leaves its type: nexttid does not pass  *)
(* the end of the table, the loops do not either, and there is a number for  *)
(* each key.                                                                 *)
THEOREM TableTypes ==
    ASSUME OneCreator, OneKeyMaker
    PROVE  Spec => []TypeOK
<1>1. BaseInv /\ KeyTypes /\ KeyInv => TypeOK
  BY DEF BaseInv, BaseTypes, KeyTypes, TypeOK
<1> QED BY <1>1, KeyInvariant, PTL

-----------------------------------------------------------------------------
(* What join returns.                                                        *)
LEMMA InitJoin == Init => JoinInv /\ JoinReturnsResult
<1> SUFFICES ASSUME Init PROVE JoinInv /\ JoinReturnsResult
  OBVIOUS
<1>1. /\ \A k \in Tasks : done[k] = 0 /\ newt[k] = 0 /\ got[k] = Nothing
      /\ \A i \in Slots : arg[i] = Nothing
      /\ \A c \in Cores : pc[c] \in {"check_start", "reset"}
      /\ 0 \in Cores /\ 0 \in Tasks
  BY Constants DEF Init
<1>2. \A k : ~Created(k)
  BY <1>1, PlanType DEF Created, Creates, Effective
<1>3. HeldInv
  BY <1>1 DEF HeldInv
<1>4. ResultInv
  BY <1>1 DEF ResultInv, Nothing
<1>5. OwnTaskInv
  BY <1>1, Constants DEF OwnTaskInv, Calling, Creating, Filling, Ending
<1>6. KeptInv /\ JoiningInv
  BY <1>1, <1>2 DEF KeptInv, JoiningInv
<1> QED BY <1>1, <1>3, <1>4, <1>5, <1>6 DEF JoinInv, JoinReturnsResult

(* The steps of a worker, by what they do to its slot.                       *)
LEMMA WorkerSteps ==
    ASSUME OneCreator, BaseInv, NEW c \in Workers, Works(c)
    PROVE  \/ EnterTask(c)
           \/ /\ task' = task
              /\ \/ /\ pc[c] \in Idle /\ pc'[c] \in Idle \cup {"enter"}
                    /\ UNCHANGED <<core, arg>>
                 \/ /\ pc[c] = "body" /\ pc'[c] = "retire" /\ task[c] \notin ExitTasks
                    /\ done[task[c]] = Len(Plan[task[c]])
                    /\ core' = core /\ arg' = [arg EXCEPT ![c] = Result(task[c])]
                 \/ /\ pc[c] = "body" /\ pc'[c] = "exit_free" /\ task[c] \in ExitTasks
                    /\ done[task[c]] = Len(Plan[task[c]])
                    /\ core' = core /\ arg' = [arg EXCEPT ![c] = Result(task[c])]
                 \/ /\ pc[c] = "exit_free" /\ pc'[c] = "exit_return"
                    /\ arg' = arg /\ core' = [core EXCEPT ![c] = -1]
                 \/ /\ pc[c] = "exit_return" /\ pc'[c] = "retire"
                    /\ core' = core /\ arg' = [arg EXCEPT ![c] = Leftover(task[c])]
                 \/ /\ pc[c] = "retire" /\ pc'[c] = "poll"
                    /\ arg' = arg /\ core' = [core EXCEPT ![c] = -1]
<1> USE DEF table, client, Goto
<1>1. pc \in [Cores -> Labels] /\ c \in Cores /\ (pc[c] \notin Idle => poll[c] = c /\ current[c] = c)
  BY Constants DEF BaseInv, BaseTypes, ControlInv
<1>2. CASE \/ ResetCurrent(c) \/ SeeStarted(c) \/ Announce(c)
           \/ PollOther(c) \/ PollWrap(c) \/ PollFound(c)
  BY <1>1, <1>2 DEF ResetCurrent, SeeStarted, Announce, PollOther, PollWrap, PollFound, Idle
<1>3. CASE ReturnTask(c)
  <2>1. poll[c] = c
    BY <1>1, <1>3 DEF ReturnTask, Idle
  <2> QED BY <1>1, <1>3, <2>1 DEF ReturnTask
<1>4. CASE Retire(c)
  <2>1. poll[c] = c
    BY <1>1, <1>4 DEF Retire, Idle
  <2> QED BY <1>1, <1>4, <2>1 DEF Retire
<1>5. CASE ExitStore(c)
  <2>1. current[c] = c
    BY <1>1, <1>5 DEF ExitStore, Idle
  <2> QED BY <1>1, <1>5, <2>1 DEF ExitStore
<1>6. CASE ExitFree(c)
  <2>1. current[c] = c
    BY <1>1, <1>6 DEF ExitFree, Idle
  <2> QED BY <1>1, <1>6, <2>1 DEF ExitFree
<1>7. CASE ExitReturn(c)
  <2>1. poll[c] = c
    BY <1>1, <1>7 DEF ExitReturn, Idle
  <2> QED BY <1>1, <1>7, <2>1 DEF ExitReturn
<1> QED BY <1>2, <1>3, <1>4, <1>5, <1>6, <1>7 DEF Works, WorkLoop

(* Main's steps in djgthread_create, by what they do to the slot.            *)
TakesSlot == /\ pc'[0] = "set_arg" /\ slot' = slot /\ core[slot[0]] = -1
             /\ slot[0] \in Workers /\ pc[0] \in {"search", "grow"}
             /\ UNCHANGED <<core, arg, entryp, task>>
LEMMA CreatorSteps ==
    ASSUME OneCreator, BaseInv, MainCreates, CreateInv'
    PROVE  \/ /\ pc'[0] \notin Filling \cup {"join_read"}
              /\ UNCHANGED <<core, arg, entryp, task>>
           \/ TakesSlot
           \/ /\ pc[0] \in Filling /\ slot' = slot /\ slot[0] \in Workers /\ task' = task
              /\ \/ /\ SetArg(0) /\ pc'[0] = "set_entry" /\ UNCHANGED <<core, entryp>>
                    /\ arg' = [arg EXCEPT ![slot[0]] = Arg(Subject(0).task)]
                 \/ /\ SetEntry(0) /\ pc'[0] = "set_core" /\ UNCHANGED <<core, arg>>
                    /\ entryp' = [entryp EXCEPT ![slot[0]] = Subject(0).task]
                 \/ /\ SetCore(0) /\ pc'[0] = "set_newt" /\ UNCHANGED <<arg, entryp>>
                    /\ core' = [core EXCEPT ![slot[0]] = slot[0]]
<1> USE DEF table, client, Goto
<1>1. pc \in [Cores -> Labels] /\ 0 \in Cores /\ task[0] = 0
  BY Constants DEF BaseInv, BaseTypes, ControlInv
<1>2. CASE CreateCall(0) \/ SlotBusy(0) \/ NeedSlot(0) \/ SearchAgain(0) \/ SetNewt(0)
  BY <1>1, <1>2 DEF CreateCall, SlotBusy, NeedSlot, SearchAgain, SetNewt, Filling
<1>3. CASE SlotFree(0) \/ GrowTable(0)
  <2>1. pc'[0] = "set_arg" /\ slot' = slot /\ UNCHANGED <<core, arg, entryp, task>>
        /\ pc[0] \in {"search", "grow"}
    BY <1>1, <1>3 DEF SlotFree, GrowTable
  <2>2. slot[0] \in 1 .. nexttid' - 1 /\ core[slot[0]] = -1
    BY <2>1 DEF CreateInv, Filling
  <2>3. nexttid' <= NCores /\ slot[0] \in Workers
    <3>1. CASE SlotFree(0)
      <4>1. slot[0] < nexttid /\ nexttid <= hwm + 1 /\ hwm \in 0 .. NCores - 1 /\ nexttid \in Nat
            /\ nexttid' = nexttid
        BY <3>1, NexttidType DEF SlotFree, BaseInv, TableInv, CreateInv, BaseTypes, Cores
      <4> QED BY <2>2, <4>1, Constants
    <3>2. CASE GrowTable(0)
      <4>1. slot[0] = nexttid /\ slot[0] + 1 <= NCores /\ nexttid' \in {slot[0] + 1, nexttid + 1}
        BY <3>2, CreatorKnows, LabelType DEF GrowTable, BaseInv, TableInv, CreateInv
      <4> QED BY <2>2, <4>1, Constants, NexttidType DEF BaseInv
    <3> QED BY <1>3, <3>1, <3>2
  <2> QED BY <2>1, <2>2, <2>3 DEF TakesSlot
<1>4. CASE SetArg(0) \/ SetEntry(0) \/ SetCore(0)
  <2>1. pc[0] \in Filling /\ slot[0] \in Workers
    BY <1>4, CreatorKnows, LabelType DEF SetArg, SetEntry, SetCore, Filling
  <2> QED BY <1>1, <1>4, <2>1 DEF SetArg, SetEntry, SetCore
<1> QED BY <1>2, <1>3, <1>4 DEF MainCreates

(* While main creates a thread, those it holds back have not finished.       *)
LEMMA NotThrough ==
    ASSUME OneCreator, JoinsAreSafe, BaseInv, HeldInv, pc[0] \in Creating, pc[0] # "set_newt",
           NEW k \in Tasks, Created(k), k \in ExitTasks \/ Awaited(k)
    PROVE  done[k] # Len(Plan[k])
<1> SUFFICES ASSUME done[k] = Len(Plan[k]) PROVE FALSE
  OBVIOUS
<1> DEFINE n == done[0] + 1
<1>1. done[0] \in Nat /\ n \in DOMAIN Plan[0] /\ Plan[0][n].call = "create" /\ DOMAIN Plan[0] \subseteq Nat
  <2>1. done[0] \in Nat /\ DOMAIN Plan[0] \subseteq Nat
    <3>1. DOMAIN Plan[0] = 1 .. Len(Plan[0]) /\ Len(Plan[0]) \in Nat
      BY PlanType, Constants
    <3> QED BY <3>1, Constants DEF BaseInv, BaseTypes
  <2>2. n \in DOMAIN Plan[0] /\ Plan[0][n].call = "create"
    BY CreatorKnows DEF Creates
  <2> QED BY <2>1, <2>2
<1> PICK p \in DOMAIN Plan[0] : p <= done[0] /\ Creates(p, k)
  BY DEF Created, Effective
<1>2. k # 0 /\ p < n
  BY <1>1 DEF OneCreator
<1>3. k \in ExitTasks \/ \E j \in DOMAIN Plan[0] : n < j /\ Joins(j, k)
  <2> SUFFICES ASSUME NEW j \in DOMAIN Plan[0], done[0] < j, Joins(j, k) PROVE n < j
    BY DEF Awaited
  <2>1. j # n
    BY <1>1 DEF Joins
  <2> QED BY <1>1, <2>1
<1>4. HeldBack(k, n)
  BY <1>1, <1>2, <1>3 DEF JoinsAreSafe
<1> PICK m \in DOMAIN Plan[k] : Plan[k][m].call = "await" /\ Plan[k][m].task = 0 /\ Plan[k][m].upto >= n
  BY <1>4 DEF HeldBack
<1>5. m \in 1 .. done[k] /\ Plan[k][m].upto \in Nat
  BY PlanType, CallType
<1>6. done[0] >= Plan[k][m].upto
  BY <1>2, <1>5 DEF HeldInv
<1> QED BY <1>1, <1>5, <1>6

(* So the slot that it takes has a polling core, and is nobody's that it has *)
(* yet to join.                                                              *)
LEMMA Reuse ==
    ASSUME OneCreator, JoinsAreSafe, BaseInv, JoinInv, TakesSlot
    PROVE  /\ pc[slot[0]] \in Idle
           /\ \A k \in Tasks \ ExitTasks : Created(k) /\ Awaited(k) => Tid(k) # slot[0]
<1> DEFINE s == slot[0]
<1>1. s \in Workers /\ s \in Cores /\ core[s] = -1 /\ s # -1 /\ s # 0 /\ pc[s] \in Labels /\ task[s] \in Tasks
      /\ pc[0] \in Creating /\ pc[0] # "set_newt"
  <2>1. s \in Workers /\ s \in Cores /\ s # -1 /\ s # 0
    BY Constants DEF TakesSlot
  <2> QED BY <2>1, LabelType DEF TakesSlot, BaseInv, BaseTypes
<1> HIDE DEF s
<1>2. pc[s] \in Idle
  <2> SUFFICES ASSUME pc[s] \notin Idle PROVE FALSE
    OBVIOUS
  <2>1. pc[s] \in {"retire", "exit_return"}
    BY <1>1 DEF BaseInv, RunInv, ControlInv, Labels, Ending
  <2>2. task[s] \in ExitTasks
    BY <1>1, <2>1 DEF JoinInv, OwnTaskInv
  <2>3. done[task[s]] = Len(Plan[task[s]]) /\ Created(task[s])
    BY <1>1, <2>1 DEF BaseInv, ControlInv, RunInv, Ending
  <2> QED BY <1>1, <2>2, <2>3, NotThrough DEF JoinInv
<1>3. ASSUME NEW k \in Tasks \ ExitTasks, Created(k), Awaited(k), Tid(k) = s
      PROVE  FALSE
  <2>1. arg[s] = Result(k)
    BY <1>1, <1>3 DEF JoinInv, KeptInv, Kept
  <2>2. done[k] = Len(Plan[k])
    <3>1. s \in Slots
      BY <1>1, Constants
    <3> QED BY <2>1, <3>1 DEF JoinInv, ResultInv, Result
  <2> QED BY <1>1, <1>3, <2>2, NotThrough DEF JoinInv
<1> QED BY <1>2, <1>3 DEF s

LEMMA StepHeld ==
    ASSUME OneCreator, BaseInv, HeldInv, NEW c \in Cores, CoreStep(c)
    PROVE  HeldInv'
<1> SUFFICES ASSUME NEW k \in Tasks \ {0}, NEW m \in 1 .. done'[k],
                    Plan[k][m].call = "await", Plan[k][m].task = 0
             PROVE  done'[0] >= Plan[k][m].upto
  BY DEF HeldInv
<1>1. done[0] \in Nat /\ done[k] \in Nat /\ done'[0] \in {done[0], done[0] + 1}
      /\ done'[k] \in {done[k], done[k] + 1} /\ done'[k] <= Len(Plan[k]) /\ 0 \in Tasks
  BY DoneGrows, Constants, StepControl DEF BaseInv, BaseTypes, ControlInv
<1>2. Plan[k][m].upto \in Nat
  <2>1. m \in 1 .. Len(Plan[k])
    BY <1>1, PlanType
  <2> QED BY <2>1, PlanType, CallType
<1>3. CASE m \in 1 .. done[k]
  <2>1. done[0] >= Plan[k][m].upto
    BY <1>3 DEF HeldInv
  <2> QED BY <1>1, <1>2, <2>1
<1>4. CASE m \notin 1 .. done[k]
  <2>1. m = done[k] + 1 /\ done'[k] # done[k] /\ k = task[c] /\ c # 0 /\ pc[c] \in Calling
    BY <1>1, <1>4, DoneGrows DEF BaseInv, ControlInv
  <2>2. Ends(c)
    <3>1. c \in Workers /\ (Works(c) => done' = done) /\ (Begins(c) => done' = done)
      BY <2>1, Constants, WorkShape, BeginShape
    <3> QED BY <2>1, <3>1, Steps
  <2>3. Subject(c) = Plan[k][m]
    BY <2>1 DEF Subject
  <2>4. AwaitOther(c)
    BY <2>2, <2>3 DEF Ends, JoinRead, KeyStore, StoreSpecific, TooManyKeys, ReadSpecific, AtCall, Subject, Goto,
                      BaseInv, ControlInv, InCall
  <2> QED BY <1>1, <1>2, <2>3, <2>4 DEF AwaitOther
<1> QED BY <1>3, <1>4

LEMMA StepResult ==
    ASSUME OneCreator, BaseInv, ResultInv, NEW c \in Cores, CoreStep(c)
    PROVE  ResultInv'
<1> SUFFICES ASSUME NEW i \in Slots, arg'[i].kind = "result"
             PROVE  done'[arg'[i].task] = Len(Plan[arg'[i].task])
  BY DEF ResultInv
<1>1. arg \in [Slots -> Values] /\ done \in [Tasks -> Nat] /\ arg[i].task \in Tasks /\ task[c] \in Tasks
  BY DEF BaseInv, BaseTypes, Values
<1>2. ASSUME NEW k \in Tasks, done[k] = Len(Plan[k]) PROVE done'[k] = Len(Plan[k])
  BY <1>1, <1>2, PlanType, DoneGrows
<1>3. \/ arg'[i] = arg[i]
      \/ arg'[i] = Result(task[c]) /\ done[task[c]] = Len(Plan[task[c]])
  <2>1. CASE c = 0 /\ CheckStart
    BY <2>1 DEF CheckStart, SetStarted, FillTable, TakeCoreZero, table
  <2>2. CASE c = 0 /\ MainCreates
    <3>1. arg' = arg \/ arg' = [arg EXCEPT ![slot[0]] = Arg(Subject(0).task)]
      BY <2>2, CreatorSteps, StepCreate DEF TakesSlot
    <3> QED BY <1>1, <3>1 DEF Arg
  <2>3. CASE c \in Workers /\ Works(c)
    BY <1>1, <2>3, WorkerSteps, Entering DEF Leftover
  <2>4. CASE Begins(c) \/ Ends(c)
    BY <2>4, BeginShape, EndShape
  <2> QED BY <2>1, <2>2, <2>3, <2>4, Steps
<1> QED BY <1>1, <1>2, <1>3 DEF Result, ResultInv

(* A worker's own task and slot.                                             *)
LEMMA StepOwnTask ==
    ASSUME OneCreator, JoinsAreSafe, BaseInv, JoinInv, NEW c \in Cores, CoreStep(c), NEW d \in Workers
    PROVE  /\ pc'[d] \in Calling \cup Ending => task'[d] = entryp'[d]
           /\ pc'[d] \in {"exit_free", "exit_return"} => task'[d] \in ExitTasks
           /\ pc'[d] = "retire" /\ task'[d] \notin ExitTasks =>
                 arg'[d] = Result(task'[d]) /\ core'[d] = d
<1>0. /\ d \in Cores /\ d \in Slots /\ d # 0 /\ (c = 0 \/ c \in Workers)
      /\ core \in [Slots -> Cores \cup {-1}] /\ arg \in [Slots -> Values] /\ entryp \in [Slots -> Tasks]
      /\ task \in [Cores -> Tasks] /\ pc \in [Cores -> Labels]
  BY Constants DEF BaseInv, BaseTypes
<1>1. /\ pc[d] \in Calling \cup Ending => task[d] = entryp[d]
      /\ pc[d] \in {"exit_free", "exit_return"} => task[d] \in ExitTasks
      /\ pc[d] = "retire" /\ task[d] \notin ExitTasks => arg[d] = Result(task[d]) /\ core[d] = d
      /\ pc[0] \in Filling /\ slot[0] = d => pc[d] \in Idle
  BY DEF JoinInv, OwnTaskInv
<1>2. CASE d = c /\ EnterTask(c)
  <2>1. pc'[d] = "body" /\ task'[d] = entryp[d] /\ entryp' = entryp
    BY <1>0, <1>2, Entering
  <2> QED BY <2>1
<1>3. CASE d = c /\ ~EnterTask(c)
  <2>1. entryp' = entryp /\ task' = task
    BY <1>0, <1>3, RunShape
  <2>2. CASE Works(c)
    <3>1. pc[c] = "body" => core[c] = c /\ pc[c] \in Calling
      BY <1>0, <1>3, LabelType DEF BaseInv, RunInv
    <3>2. pc[c] \in Idle => pc'[c] \in Idle \cup {"enter"}
      BY <1>0, <1>3, <2>2, WorkerSteps DEF Idle
    <3> QED BY <1>0, <1>1, <1>3, <2>1, <2>2, <3>1, <3>2, WorkerSteps
            DEF Calling, Creating, Filling, Ending, Idle
  <2>3. CASE Begins(c) \/ Ends(c)
    <3>1. pc[c] \in Calling /\ pc'[c] \in Calling
      BY <1>0, <2>3, BeginShape, EndShape, LabelType
    <3> QED BY <1>1, <1>3, <2>1, <3>1 DEF Calling, Creating, Filling
  <2> QED BY <1>0, <1>3, <2>2, <2>3, Steps
<1>4. CASE d # c
  <2>1. pc'[d] = pc[d] /\ task'[d] = task[d]
    BY <1>0, <1>4, Others
  <2>2. ASSUME pc[d] \notin Idle \cup {"enter"}
        PROVE  /\ core'[d] = core[d] \/ core'[d] = d
               /\ arg'[d] = arg[d] /\ entryp'[d] = entryp[d]
    <3>1. CASE c = 0 /\ CheckStart
      <4>1. pc[0] \in Booting
        BY <3>1 DEF CheckStart, SetStarted, FillTable, TakeCoreZero, Goto, Booting
      <4> QED BY <2>2, <4>1 DEF BaseInv, TableInv, BootInv
    <3>2. CASE c = 0 /\ MainCreates
      <4>1. pc[0] \in Filling => slot[0] # d
        BY <1>1, <2>2
      <4> QED BY <1>0, <3>2, <4>1, CreatorSteps, StepCreate DEF TakesSlot
    <3>3. CASE c \in Workers /\ Works(c)
      BY <1>0, <1>4, <3>3, WorkerSteps, Entering, WorkShape
    <3>4. CASE Begins(c) \/ Ends(c)
      BY <3>4, BeginShape, EndShape
    <3> QED BY <3>1, <3>2, <3>3, <3>4, Steps
  <2> QED BY <1>1, <2>1, <2>2 DEF Calling, Creating, Filling, Ending, Idle
<1> QED BY <1>2, <1>3, <1>4

LEMMA StepFilling ==
    ASSUME OneCreator, JoinsAreSafe, BaseInv, JoinInv, NEW c \in Cores, CoreStep(c),
           pc'[0] \in Filling
    PROVE  /\ slot' = slot /\ slot[0] \in Workers /\ slot[0] \in Cores
           /\ pc'[slot[0]] \in Idle
           /\ \A k \in Tasks \ ExitTasks : Created(k) /\ Awaited(k) => Tid(k) # slot[0]
<1>1. CASE c = 0 /\ CheckStart
  BY <1>1, Constants DEF CheckStart, SetStarted, FillTable, TakeCoreZero, Goto, Filling, BaseInv, BaseTypes
<1>2. ASSUME pc[0] \in Filling
      PROVE  /\ slot[0] \in Workers /\ slot[0] \in Cores /\ pc[slot[0]] \in Idle
             /\ \A k \in Tasks \ ExitTasks : Created(k) /\ Awaited(k) => Tid(k) # slot[0]
  <2>1. slot[0] \in Workers /\ slot[0] \in Cores
    BY <1>2, CreatorKnows, LabelType
  <2> QED BY <1>2, <2>1 DEF JoinInv, OwnTaskInv, KeptInv, Kept
<1>3. CASE c = 0 /\ MainCreates
  <2>1. slot' = slot /\ (TakesSlot \/ pc[0] \in Filling)
    BY <1>3, CreatorSteps, StepCreate DEF TakesSlot
  <2>2. /\ slot[0] \in Workers /\ pc[slot[0]] \in Idle
        /\ \A k \in Tasks \ ExitTasks : Created(k) /\ Awaited(k) => Tid(k) # slot[0]
    BY <1>2, <2>1, Reuse DEF TakesSlot
  <2> QED BY <1>3, <2>1, <2>2, Others, Constants
<1>4. CASE c \in Workers /\ Works(c)
  <2>1. pc[0] \in Filling /\ slot' = slot
    BY <1>4, Others, WorkShape, Constants
  <2>2. CASE slot[0] = c
    <3>1. pc'[c] \in Idle \cup {"enter"}
      BY <1>2, <1>4, <2>1, <2>2, WorkerSteps, Entering, LabelsApart DEF Idle
    <3>2. pc'[c] # "enter"
      <4>1. core[c] = -1 /\ c # -1
        BY <1>4, <2>1, <2>2, Constants DEF BaseInv, TableInv, CreateInv
      <4>2. core' = core
        BY <1>2, <1>4, <2>1, <2>2, WorkShape, LabelsApart
      <4> QED BY <1>4, <4>1, <4>2, StepBusy
    <3> QED BY <1>2, <2>1, <2>2, <3>1, <3>2
  <2>3. CASE slot[0] # c
    BY <1>2, <2>1, <2>3, Others
  <2> QED BY <2>2, <2>3
<1>5. CASE Begins(c) \/ Ends(c)
  <2>1. pc[c] \in Calling /\ pc'[c] \in {"body", "join_read", "key_store"} /\ slot' = slot
    <3>1. pc \in [Cores -> Labels]
      BY DEF BaseInv, BaseTypes
    <3> QED BY <1>5, <3>1, BeginShape, EndShape, LabelType
  <2>2. c # 0 /\ pc[0] \in Filling
    BY <2>1, Others, Constants DEF Filling
  <2>3. slot[0] # c
    BY <1>2, <2>1, <2>2, LabelsApart
  <2> QED BY <1>2, <2>1, <2>2, <2>3, Others
<1> QED BY <1>1, <1>3, <1>4, <1>5, Steps

(* Only the store of a core makes a task created.                            *)
LEMMA NewlyCreated ==
    ASSUME OneCreator, BaseInv, NEW c \in Cores, CoreStep(c), NEW k \in Tasks, Created(k)', ~Created(k)
    PROVE  c = 0 /\ SetCore(0) /\ k = Subject(0).task
<1>1. task[0] = 0
  BY DEF BaseInv, ControlInv
<1> PICK n \in DOMAIN Plan[0] : n <= Effective' /\ Creates(n, k)
  BY DEF Created, Creates
<1>2. n \in Nat /\ ~(n <= Effective)
  <2>1. DOMAIN Plan[0] = 1 .. Len(Plan[0]) /\ Len(Plan[0]) \in Nat
    BY PlanType, Constants
  <2> QED BY <2>1 DEF Created
<1>3. n = done[0] + 1 /\ c = 0 /\ (SetCore(0) \/ Ends(0))
  BY <1>2, Handing
<1>4. Subject(0).call = "create" /\ Subject(0).task = k
  BY <1>1, <1>3 DEF Subject, Creates
<1>5. ~Ends(0)
  BY <1>4, <1>1, Constants DEF Ends, JoinRead, AwaitOther, KeyStore, StoreSpecific, TooManyKeys, ReadSpecific,
                    AtCall, Subject, Goto, BaseInv, ControlInv, InCall
<1> QED BY <1>3, <1>4, <1>5

LEMMA StepKept ==
    ASSUME OneCreator, JoinsAreSafe, BaseInv, JoinInv, NEW c \in Cores, CoreStep(c),
           NEW k \in Tasks \ ExitTasks, Created(k)', Awaited(k)'
    PROVE  Kept(k)'
<1>0. /\ core \in [Slots -> Cores \cup {-1}] /\ arg \in [Slots -> Values] /\ entryp \in [Slots -> Tasks]
      /\ pc \in [Cores -> Labels]
      /\ \A x \in Slots : x \in Nat /\ x # -1
  <2>1. \A x \in Slots : x \in Nat /\ x # -1
    BY DEF Slots
  <2> QED BY <2>1 DEF BaseInv, BaseTypes
<1>1. CASE ~Created(k)
  <2>1. c = 0 /\ SetCore(0) /\ k = Subject(0).task /\ pc[0] = "set_core" /\ pc[0] \in Filling
    BY <1>1, NewlyCreated DEF SetCore, Goto, Filling
  <2>2. entryp[slot[0]] = k /\ slot[0] \in Slots /\ slot[0] # 0
    BY <2>1, CreatorKnows, LabelType DEF BaseInv, TableInv, CreateInv
  <2>3. pc'[0] = "set_newt" /\ entryp' = entryp /\ Tid(k)' = slot[0] /\ core'[slot[0]] = slot[0]
    BY <1>0, <2>1, <2>2, Handing DEF SetCore
  <2> QED BY <2>2, <2>3 DEF Kept, Filling
<1>2. CASE Created(k)
  <2> DEFINE i == Tid(k)
  <2>1. Awaited(k)
    <3>1. done[0] \in Nat /\ done'[0] \in {done[0], done[0] + 1}
      BY DoneGrows, Constants DEF BaseInv, BaseTypes
    <3>2. DOMAIN Plan[0] = 1 .. Len(Plan[0]) /\ Len(Plan[0]) \in Nat
      BY PlanType, Constants
    <3> QED BY <3>1, <3>2 DEF Awaited, Joins
  <2>2. /\ i # 0 /\ i \in Slots /\ entryp[i] = k /\ (core[i] = i \/ arg[i] = Result(k))
        /\ pc[0] \in Filling => slot[0] # i
    BY <1>0, <1>2, <2>1, TidType DEF JoinInv, KeptInv, Kept
  <2>3. Tid(k)' = i
    <3>1. c = 0 /\ SetCore(0) => Subject(0).task # k
      BY <1>2, CreatesNew, LabelType, Handing
    <3> QED BY <3>1, Handing
  <2>4. entryp'[i] = k /\ (core'[i] = i \/ arg'[i] = Result(k))
    <3> HIDE DEF i
    <3>1. CASE c = 0 /\ CheckStart
      <4>1. pc[0] \in Booting /\ UNCHANGED <<arg, entryp>>
        BY <3>1 DEF CheckStart, SetStarted, FillTable, TakeCoreZero, Goto, Booting, table, client
      <4>2. core[i] # i
        BY <1>0, <2>2, <4>1 DEF BaseInv, TableInv, BootInv
      <4> QED BY <2>2, <4>1, <4>2 DEF i
    <3>2. CASE c = 0 /\ MainCreates
      BY <1>0, <2>2, <3>2, CreatorSteps, StepCreate, LabelType DEF TakesSlot, i
    <3>3. CASE c \in Workers /\ Works(c)
      <4>1. entryp' = entryp
        BY <3>3, WorkShape
      <4>2. CASE i # c
        <5>1. core'[i] = core[i] /\ arg'[i] = arg[i]
          BY <1>0, <2>2, <3>3, <4>2, WorkerSteps, Entering
        <5> QED BY <2>2, <4>1, <5>1 DEF i
      <4>3. CASE i = c
        <5>1. pc[c] \in {"body"} \cup Ending => task[c] = k
          BY <2>2, <3>3, <4>3, LabelType DEF JoinInv, OwnTaskInv
        <5>2. pc[c] \notin {"exit_free", "exit_return"}
          BY <3>3, <5>1 DEF JoinInv, OwnTaskInv, Ending
        <5>3. pc[c] = "retire" => arg[c] = Result(k)
          BY <3>3, <5>1 DEF JoinInv, OwnTaskInv, Ending
        <5>4. core'[c] = c \/ arg'[c] = Result(k)
          <6>1. c \in Slots /\ (core[c] = c \/ arg[c] = Result(k))
            BY <2>2, <4>3
          <6>2. CASE EnterTask(c)
            BY <3>3, <6>1, <6>2, Entering
          <6>3. CASE ~EnterTask(c) /\ pc[c] = "body"
            <7>1. task[c] = k
              BY <5>1, <6>3
            <7>2. core' = core /\ arg' = [arg EXCEPT ![c] = Result(k)]
              BY <3>3, <6>3, <7>1, WorkerSteps DEF Idle
            <7> QED BY <1>0, <6>1, <7>2
          <6>4. CASE ~EnterTask(c) /\ pc[c] # "body"
            <7>1. arg' = arg /\ (core' = core \/ pc[c] = "retire")
              BY <3>3, <5>2, <6>4, WorkerSteps
            <7> QED BY <5>3, <6>1, <7>1
          <6> QED BY <6>2, <6>3, <6>4
        <5> QED BY <2>2, <4>1, <4>3, <5>4 DEF i
      <4> QED BY <4>2, <4>3
    <3>4. CASE Begins(c) \/ Ends(c)
      BY <2>2, <3>4, BeginShape, EndShape DEF i
    <3> QED BY <3>1, <3>2, <3>3, <3>4, Steps
  <2>5. pc'[0] \in Filling => slot'[0] # i
    BY <1>2, <2>1, StepFilling
  <2> QED BY <2>2, <2>3, <2>4, <2>5 DEF Kept
<1> QED BY <1>1, <1>2

LEMMA StepJoining ==
    ASSUME OneCreator, JoinsAreSafe, BaseInv, JoinInv, NEW c \in Cores, CoreStep(c)
    PROVE  JoiningInv'
<1>0. /\ core \in [Slots -> Cores \cup {-1}] /\ newt \in [Tasks -> Slots] /\ pc \in [Cores -> Labels]
      /\ 0 \in Cores /\ 0 \in Tasks /\ JoiningInv
  BY Constants DEF BaseInv, BaseTypes, JoinInv
<1>1. ASSUME NEW k \in Tasks PROVE Created(k)' \/ newt'[k] = 0
  <2>1. CASE newt'[k] = newt[k]
    BY <1>0, <2>1, DoneGrows DEF JoiningInv
  <2>2. CASE newt'[k] # newt[k]
    <3>1. c = 0 /\ SetNewt(0)
      <4>1. ~(Begins(c) \/ Ends(c)) /\ ~(c \in Workers /\ Works(c)) /\ ~(c = 0 /\ CheckStart)
        BY <2>2, BeginShape, EndShape, WorkShape DEF CheckStart, SetStarted, FillTable, TakeCoreZero, client
      <4>2. c = 0 /\ MainCreates
        BY <4>1, Steps
      <4> QED BY <2>2, <4>2
              DEF MainCreates, CreateCall, SlotBusy, SlotFree, NeedSlot, GrowTable, SearchAgain,
                  SetArg, SetEntry, SetCore, client
    <3>2. pc[0] \in Creating /\ pc[0] = "set_newt"
      BY <3>1 DEF SetNewt, Goto, Creating
    <3>3. k = Subject(0).task /\ Creates(done[0] + 1, k) /\ done[0] \in Nat
      BY <1>0, <2>2, <3>1, <3>2, CreatorKnows DEF SetNewt, BaseInv, BaseTypes, ControlInv
    <3>4. Created(k)
      BY <3>2, <3>3 DEF Created, Creates, Effective
    <3> QED BY <3>4, DoneGrows
  <2> QED BY <2>1, <2>2
<1>2. ASSUME pc'[0] = "join_read"
      PROVE  /\ Subject(0)' = Subject(0) /\ Created(Subject(0).task)
             /\ core'[newt[Subject(0).task]] = -1 /\ newt' = newt
  <2>0. task[0] = 0
    BY DEF BaseInv, ControlInv
  <2>1. CASE c = 0
    <3>1. JoinSeeFree(0)
      <4>1. ~CheckStart /\ ~MainCreates
        BY <1>0, <1>2, CreateLabels
           DEF CheckStart, SetStarted, FillTable, TakeCoreZero, Goto, Creating, Filling,
               BaseInv, ControlInv, Booting, Calling
      <4>2. ~Ends(0) /\ ~KeyLoad(0)
        BY <1>0, <1>2, EndShape DEF KeyLoad
      <4> QED BY <2>1, <4>1, <4>2, Steps, Constants DEF Begins
    <3>2. Subject(0)' = Subject(0) /\ core' = core /\ newt' = newt /\ core[newt[Subject(0).task]] < 0
      BY <3>1 DEF JoinSeeFree, table, client, Subject
    <3>3. Subject(0).task \in Tasks
      BY <1>0, <3>1, SubjectType DEF JoinSeeFree, AtCall, BaseInv
    <3>4. newt[Subject(0).task] \in Slots /\ core[newt[Subject(0).task]] = -1
      BY <1>0, <3>2, <3>3 DEF Cores
    <3>5. newt[Subject(0).task] # 0
      <4>1. core[0] = 0
        BY <3>1, LabelType, LabelsApart DEF JoinSeeFree, AtCall, BaseInv, TableInv, SlotInv
      <4> QED BY <3>4, <4>1
    <3> QED BY <3>2, <3>3, <3>4, <3>5, <1>0 DEF JoiningInv
  <2>2. CASE c # 0
    <3>1. pc[0] = "join_read" /\ c \in Workers /\ "join_read" \in Calling
      BY <1>0, <1>2, <2>2, Others, Constants, LabelType
    <3>2. Subject(0)' = Subject(0)
      BY <1>0, <2>0, <2>2, <3>1, Others DEF Subject
    <3>3. Subject(0).task \in Tasks
      BY <1>0, <3>1, SubjectType DEF BaseInv, ControlInv, InCall
    <3>4. newt[Subject(0).task] \in Slots /\ core[newt[Subject(0).task]] = -1 /\ Created(Subject(0).task)
      BY <1>0, <3>1, <3>3 DEF JoiningInv
    <3>5. newt' = newt /\ (core' = core \/ core' = [core EXCEPT ![c] = -1])
      BY <1>0, <2>2, <3>1, Steps, WorkShape, BeginShape, EndShape
    <3> QED BY <1>0, <3>2, <3>4, <3>5
  <2> QED BY <2>1, <2>2
<1>3. ASSUME pc'[0] = "join_read" PROVE Created(Subject(0).task)'
  <2>1. Subject(0).task \in Tasks
    BY <1>2, <1>3, PlanType, CallType, Constants DEF Created, Creates, Joins
  <2>2. Created(Subject(0).task)'
    BY <1>2, <1>3, <2>1, DoneGrows
  <2> QED BY <2>2
<1> QED BY <1>1, <1>2, <1>3 DEF JoiningInv

LEMMA Returned ==
    ASSUME OneCreator, JoinsAreSafe, BaseInv, JoinInv, NEW c \in Cores, JoinRead(c)
    PROVE  /\ c = 0 /\ pc[0] = "join_read"
           /\ \E k \in Tasks : /\ Created(k) /\ core[newt[k]] = -1
                               /\ k \notin ExitTasks => arg[newt[k]] = Result(k)
                               /\ got' = [got EXCEPT ![k] = arg[newt[k]]]
<1>1. pc[c] = "join_read" /\ pc[c] \in Calling /\ InCall(c, "join")
  BY LabelType DEF JoinRead, Goto, BaseInv, ControlInv
<1>2. /\ task[c] \in Tasks /\ done[task[c]] + 1 \in DOMAIN Plan[task[c]]
      /\ Subject(c) = Plan[task[c]][done[task[c]] + 1] /\ Subject(c).call = "join"
      /\ Subject(c).task \in Tasks
  BY <1>1, SubjectType, PlanType DEF InCall, BaseInv
<1>3. task[c] = 0
  BY <1>2 DEF JoinsAreSafe, OnlyMain
<1>4. c = 0
  BY <1>1, <1>3, Constants DEF BaseInv, ControlInv
<1> PICK k \in Tasks : k = Subject(0).task
  BY <1>2, <1>4
<1>5. Created(k) /\ core[newt[k]] = -1
  BY <1>1, <1>4 DEF JoinInv, JoiningInv
<1>6. Awaited(k)
  <2>1. done[0] \in Nat
    BY Constants DEF BaseInv, BaseTypes
  <2> QED BY <1>2, <1>3, <1>4, <2>1 DEF Awaited, Joins
<1>7. k \notin ExitTasks => arg[newt[k]] = Result(k)
  <2>1. newt[k] \in Slots
    BY DEF BaseInv, BaseTypes
  <2>2. newt[k] # -1
    BY <2>1 DEF Slots
  <2>3. Tid(k) = newt[k]
    BY <1>1, <1>4 DEF Tid
  <2> QED BY <1>5, <1>6, <2>2, <2>3 DEF JoinInv, KeptInv, Kept
<1>8. got' = [got EXCEPT ![k] = arg[newt[k]]]
  BY <1>4 DEF JoinRead
<1> QED BY <1>1, <1>4, <1>5, <1>7, <1>8

LEMMA StepReturns ==
    ASSUME OneCreator, JoinsAreSafe, BaseInv, JoinInv, JoinReturnsResult, NEW c \in Cores, CoreStep(c)
    PROVE  JoinReturnsResult'
<1>1. CASE JoinRead(c)
  <2>1. got \in [Tasks -> Values]
    BY DEF BaseInv, BaseTypes
  <2> PICK k \in Tasks : /\ k \notin ExitTasks => arg[newt[k]] = Result(k)
                         /\ got' = [got EXCEPT ![k] = arg[newt[k]]]
    BY <1>1, Returned
  <2> QED BY <2>1 DEF JoinReturnsResult
<1>2. CASE ~JoinRead(c)
  <2>1. CASE CheckStart
    BY <2>1 DEF CheckStart, SetStarted, FillTable, TakeCoreZero, client, JoinReturnsResult
  <2>2. CASE MainCreates
    BY <2>2 DEF MainCreates, CreateCall, SlotBusy, SlotFree, NeedSlot, GrowTable, SearchAgain,
                SetArg, SetEntry, SetCore, SetNewt, client, JoinReturnsResult
  <2>3. CASE c \in Workers /\ Works(c)
    BY <2>3, WorkShape DEF JoinReturnsResult
  <2>4. CASE Begins(c)
    BY <2>4, BeginShape DEF JoinReturnsResult
  <2>5. CASE Ends(c)
    BY <1>2, <2>5 DEF Ends, AwaitOther, KeyStore, StoreSpecific, TooManyKeys, ReadSpecific, client, JoinReturnsResult
  <2> QED BY <2>1, <2>2, <2>3, <2>4, <2>5, Steps
<1> QED BY <1>1, <1>2

LEMMA StepJoin ==
    ASSUME OneCreator, JoinsAreSafe, BaseInv, JoinInv, NEW c \in Cores, CoreStep(c)
    PROVE  JoinInv'
<1>1. OwnTaskInv'
  <2>1. ASSUME NEW d \in Workers, pc'[0] \in Filling, slot'[0] = d PROVE pc'[d] \in Idle
    BY <2>1, StepFilling
  <2> QED BY <2>1, StepOwnTask DEF OwnTaskInv
<1>2. KeptInv'
  BY StepKept DEF KeptInv
<1>3. HeldInv' /\ ResultInv' /\ JoiningInv'
  BY StepHeld, StepResult, StepJoining DEF JoinInv
<1> QED BY <1>1, <1>2, <1>3 DEF JoinInv

LEMMA StutterJoin == JoinInv /\ JoinReturnsResult /\ UNCHANGED vars => JoinInv' /\ JoinReturnsResult'
<1> SUFFICES ASSUME JoinInv, JoinReturnsResult, UNCHANGED vars PROVE JoinInv' /\ JoinReturnsResult'
  OBVIOUS
<1> USE DEF vars, table, client, JoinInv
<1>1. HeldInv' /\ ResultInv' /\ OwnTaskInv'
  BY DEF HeldInv, ResultInv, OwnTaskInv
<1>2. KeptInv'
  BY DEF KeptInv, Kept, Created, Effective, Tid, Subject, Awaited
<1>3. JoiningInv' /\ JoinReturnsResult'
  BY DEF JoiningInv, Created, Effective, Subject, JoinReturnsResult
<1> QED BY <1>1, <1>2, <1>3

(* If main holds back the threads that it has yet to join while it creates   *)
(* others, join returns what the thread returned: nobody has taken the slot  *)
(* over, and the value was stored before the slot was freed.                 *)
THEOREM JoinReturns ==
    ASSUME OneCreator, JoinsAreSafe
    PROVE  Spec => []JoinReturnsResult
<1> DEFINE Inv == BaseInv /\ JoinInv /\ JoinReturnsResult
<1>1. Inv /\ [Next]_vars => Inv'
  BY StepBase, StutterBase, StepJoin, StepReturns, StutterJoin DEF Next
<1>2. Init => Inv
  BY InitBase, InitJoin
<1> QED BY <1>1, <1>2, PTL DEF Spec

-----------------------------------------------------------------------------
(* Thread-specific data.                                                     *)
LEMMA Smallest ==
    ASSUME NEW T, T \subseteq Nat, T # {}
    PROVE  \E x \in T : \A y \in T : x <= y
<1>1. PICK x \in T : \A y \in T : ~(<<y, x>> \in OpToRel(<, Nat))
  BY NatLessThanWellFounded, WFMin
<1>2. ASSUME NEW y \in T, y < x PROVE FALSE
  <2>1. <<y, x>> \in Nat \X Nat /\ <<y, x>>[1] < <<y, x>>[2]
    BY <1>2
  <2>2. <<y, x>> \in {ss \in Nat \X Nat : ss[1] < ss[2]}
    BY <2>1
  <2> QED BY <1>1, <2>2 DEF OpToRel
<1> QED BY <1>2

LEMMA TwoOf ==
    ASSUME NEW T, NEW x \in T, NEW y \in T, x # y, IsFiniteSet(T)
    PROVE  ~(Cardinality(T) < 2)
<1>1. IsFiniteSet({x}) /\ Cardinality({x}) = 1 /\ y \notin {x}
  BY FS_Singleton
<1>2. Cardinality({x} \cup {y}) = 2
  BY <1>1, FS_AddElement
<1>3. Cardinality({x} \cup {y}) <= Cardinality(T) /\ Cardinality(T) \in Nat
  BY FS_Subset, FS_CardinalityType
<1> QED BY <1>2, <1>3

LEMMA InitSpecific == Init => SpecificInv /\ SpecificIsOwn
<1> SUFFICES ASSUME Init PROVE SpecificInv /\ SpecificIsOwn
  OBVIOUS
<1>1. SpecificTypes
  <2>1. Null \in Tasks \X Nat
    BY Constants DEF Null, Pointer
  <2> QED BY <2>1 DEF Init, SpecificTypes
<1>2. \A i \in Slots : key[i] = NoKeys
  BY DEF Init, NoKeys
<1>3. done[0] = 0 /\ pc[0] = "check_start" /\ \A c \in Cores : pc[c] \in {"check_start", "reset"}
  BY Constants DEF Init
<1>4. CleanInv
  BY <1>2, <1>3, Constants DEF CleanInv
<1>5. FieldsInv
  BY <1>3 DEF FieldsInv, Calling, Creating, Filling
<1>6. SpecificIsOwn
  BY PlanType DEF Init, SpecificIsOwn
<1> QED BY <1>1, <1>4, <1>5, <1>6 DEF SpecificInv

(* The keys that a task stores or reads under have been made, and for good.  *)
LEMMA UsedKey ==
    ASSUME OneCreator, KeysComeFirst, BaseInv, KeyInv, NEW c \in Cores, pc[c] \in Calling,
           NEW n \in 1 .. Len(Plan[task[c]]), n <= done[task[c]] + 1,
           Plan[task[c]][n].call \in {"set", "get"}
    PROVE  /\ Plan[task[c]][n].upto \in KeyVars /\ KeyMade(Plan[task[c]][n].upto)
           /\ keyvar[Plan[task[c]][n].upto] # 0
<1> DEFINE v == Plan[task[c]][n].upto
<1>1. task[c] \in Tasks /\ done[0] \in Nat /\ done[task[c]] \in Nat
  BY Constants DEF BaseInv, BaseTypes
<1>2. n \in DOMAIN Plan[task[c]] /\ v \in KeyVars /\ DOMAIN Plan[0] \subseteq Nat
  <2>1. DOMAIN Plan[0] = 1 .. Len(Plan[0])
    BY PlanType, Constants
  <2>2. n \in DOMAIN Plan[task[c]] /\ Plan[task[c]][n] \in Calls
    BY <1>1, PlanType
  <2> QED BY <2>1, <2>2, CallType
<1>3. \E p \in DOMAIN Plan[0] : p <= done[0] + 1 /\ (IF task[c] = 0 THEN p = n ELSE Creates(p, task[c]))
  <2>1. CASE task[c] = 0
    BY <1>2, <2>1
  <2>2. CASE task[c] # 0
    <3>1. c \in Workers
      BY <2>2, Constants DEF BaseInv, ControlInv
    <3>2. Created(task[c])
      BY <1>1, <3>1 DEF BaseInv, RunInv
    <3>3. \A p \in Nat : p <= done[0] => p <= done[0] + 1
      BY <1>1
    <3> QED BY <1>1, <1>2, <2>2, <3>2, <3>3 DEF Created, Effective
  <2> QED BY <2>1, <2>2
<1> PICK p \in DOMAIN Plan[0] : p <= done[0] + 1 /\ (IF task[c] = 0 THEN p = n ELSE Creates(p, task[c]))
  BY <1>3
<1> PICK m \in DOMAIN Plan[0] : m < p /\ MakesKey(m, v)
  BY <1>1, <1>2 DEF KeysComeFirst
<1>4. m <= done[0]
  BY <1>1, <1>2
<1>5. KeyMade(v)
  BY <1>4 DEF KeyMade
<1> QED BY <1>2, <1>5 DEF KeyInv

LEMMA KeyStable ==
    ASSUME OneCreator, OneKeyMaker, BaseInv, KeyTypes, KeyInv, NEW c \in Cores, CoreStep(c),
           NEW v \in KeyVars, KeyMade(v)
    PROVE  keyvar'[v] = keyvar[v]
<1>1. keyvar[v] # 0 /\ keyvar \in [KeyVars -> 0 .. NKeys]
  BY DEF KeyInv, KeyTypes
<1>2. CASE KeyStore(0)
  BY <1>1, <1>2, NewKey
<1>3. CASE KeyLoad(0)
  BY <1>3 DEF KeyLoad
<1> QED BY <1>2, <1>3, KeySteps

LEMMA OwnCurrent ==
    ASSUME BaseInv, NEW c \in Cores, pc[c] \in Calling
    PROVE  current[c] = c /\ c \in Slots /\ task[c] \in Tasks
BY Constants, LabelsApart DEF BaseInv, ControlInv, BaseTypes

(* A step leaves the fields of the other threads alone.                      *)
LEMMA FieldsAlone ==
    ASSUME OneCreator, OneKeyMaker, BaseInv, KeyTypes, SpecificTypes, NEW c \in Cores, CoreStep(c),
           NEW d \in Cores, pc[d] \in Calling, ~(d = c /\ StoreSpecific(c))
    PROVE  key'[d] = key[d] /\ specific'[d] = specific[d]
<1>0. d \in Slots /\ key \in [Slots -> [Fields -> 0 .. NKeys]]
      /\ specific \in [Slots -> [Fields -> Tasks \X Nat]]
  BY Constants DEF KeyTypes, SpecificTypes
<1>1. CASE KeyLoad(0) \/ KeyStore(0)
  BY <1>1 DEF KeyLoad, KeyStore
<1>2. CASE c = 0 /\ SetArg(0)
  <2>1. slot[0] # d
    <3>1. pc[0] \in Filling /\ pc[0] \in Creating /\ pc[0] = "set_arg"
      BY <1>2, LabelType DEF SetArg, Goto, Filling
    <3>2. slot[0] \in Workers /\ core[slot[0]] = -1 /\ slot[0] # -1
      BY <3>1, CreatorKnows, Constants DEF BaseInv, TableInv, CreateInv
    <3>3. d \in Workers => core[d] = d
      BY DEF BaseInv, RunInv
    <3> QED BY <3>2, <3>3
  <2> QED BY <1>0, <1>2, <2>1 DEF SetArg
<1>3. CASE StoreSpecific(c)
  <2>1. d # c /\ pc[c] \in Calling
    BY <1>3, LabelType DEF StoreSpecific, AtCall
  <2>2. current[c] # d
    BY <2>1, OwnCurrent
  <2> QED BY <1>0, <1>3, <2>2 DEF StoreSpecific
<1> QED BY <1>1, <1>2, <1>3, KeySteps

(* Which calls a task completes.                                             *)
LEMMA EndCalls ==
    ASSUME OneCreator, BaseInv, NEW c \in Cores, CoreStep(c), done'[task[c]] # done[task[c]]
    PROVE  /\ pc[c] \in Calling /\ done'[task[c]] = done[task[c]] + 1 /\ done[task[c]] < Len(Plan[task[c]])
           /\ Subject(c).call = "set" => StoreSpecific(c) \/ TooManyKeys(c)
           /\ Subject(c).call = "get" => ReadSpecific(c)
<1>1. pc[c] \in Calling /\ done'[task[c]] = done[task[c]] + 1 /\ done[task[c]] < Len(Plan[task[c]])
  <2>1. task[c] \in Tasks
    BY DEF BaseInv, BaseTypes
  <2> QED BY <2>1, DoneGrows
<1>2. CASE c = 0 /\ CheckStart
  BY <1>2 DEF CheckStart, SetStarted, FillTable, TakeCoreZero, client
<1>3. CASE c = 0 /\ MainCreates
  <2>1. SetNewt(0)
    BY <1>3 DEF MainCreates, CreateCall, SlotBusy, SlotFree, NeedSlot, GrowTable, SearchAgain,
                SetArg, SetEntry, SetCore, client
  <2>2. pc[0] \in Creating
    BY <2>1 DEF SetNewt, Goto, Creating
  <2>3. Subject(c).call = "create"
    BY <1>3, <2>2 DEF BaseInv, ControlInv, InCall
  <2> QED BY <1>1, <2>3
<1>4. CASE c \in Workers /\ Works(c)
  BY <1>4, WorkShape
<1>5. CASE Begins(c)
  BY <1>5, BeginShape
<1>6. CASE Ends(c)
  BY <1>1, <1>6 DEF Ends, JoinRead, AwaitOther, KeyStore, StoreSpecific, TooManyKeys, ReadSpecific,
              AtCall, Subject, Goto, BaseInv, ControlInv, InCall
<1> QED BY <1>2, <1>3, <1>4, <1>5, <1>6, Steps

(* A step that is none of a thread's own stores keeps what it finds.         *)
LEMMA FieldsKept ==
    ASSUME NEW d, FieldInv(d), task'[d] = task[d], current'[d] = current[d],
           key'[current[d]] = key[current[d]], specific'[current[d]] = specific[current[d]],
           Sets(d)' = Sets(d), \A n \in Sets(d) : KeyOf(d, n)' = KeyOf(d, n)
    PROVE  FieldInv(d)'
<1> DEFINE K == key[current[d]]
           P == specific[current[d]]
           S == Sets(d)
<1>1. K' = K /\ P' = P /\ S' = S
  OBVIOUS
<1>2. /\ K[0] # K[1] \/ K[1] = 0
      /\ K[1] # 0 => K[0] # 0
      /\ \A f \in Fields : K[f] # 0 => \E n \in S : KeyOf(d, n) = K[f] /\ P[f] = Pointer(task[d], n)
            /\ \A o \in S : n < o => KeyOf(d, o) # KeyOf(d, n)
      /\ \A n \in S : \/ \E f \in Fields : K[f] = KeyOf(d, n)
                      \/ \A f \in Fields : K[f] # 0 /\ \E o \in S : o < n /\ KeyOf(d, o) = K[f]
  BY DEF FieldInv
<1> HIDE DEF K, P, S
<1>3. \A n \in S : KeyOf(d, n)' = KeyOf(d, n)
  BY DEF S
<1>4. /\ K'[0] # K'[1] \/ K'[1] = 0
      /\ K'[1] # 0 => K'[0] # 0
      /\ \A f \in Fields : K'[f] # 0 => \E n \in S' : KeyOf(d, n)' = K'[f] /\ P'[f] = Pointer(task'[d], n)
            /\ \A o \in S' : n < o => KeyOf(d, o)' # KeyOf(d, n)'
      /\ \A n \in S' : \/ \E f \in Fields : K'[f] = KeyOf(d, n)'
                      \/ \A f \in Fields : K'[f] # 0 /\ \E o \in S' : o < n /\ KeyOf(d, o)' = K'[f]
  BY <1>1, <1>2, <1>3
<1> QED BY <1>4 DEF FieldInv, K, P, S

LEMMA SetsNext ==
    ASSUME BaseInv, NEW d \in Cores, task'[d] = task[d]
    PROVE  /\ \A n \in Sets(d) : n \in Nat /\ n <= done[task[d]]
           /\ done'[task[d]] = done[task[d]] => Sets(d)' = Sets(d)
           /\ done'[task[d]] = done[task[d]] + 1 /\ Subject(d).call # "set" => Sets(d)' = Sets(d)
           /\ done'[task[d]] = done[task[d]] + 1 /\ Subject(d).call = "set" =>
                 Sets(d)' = Sets(d) \cup {done[task[d]] + 1}
<1>1. done[task[d]] \in Nat
  BY DEF BaseInv, BaseTypes
<1>2. \A n : n \in 1 .. done[task[d]] + 1 <=> n \in 1 .. done[task[d]] \/ n = done[task[d]] + 1
  BY <1>1
<1>3. ASSUME done'[task[d]] = done[task[d]] + 1
      PROVE  \A n : n \in Sets(d)' <=> n \in Sets(d) \/ (n = done[task[d]] + 1 /\ Subject(d).call = "set")
  BY <1>2, <1>3 DEF Sets, Subject
<1> QED BY <1>1, <1>3 DEF Sets

(* What a task has stored under it stores under again.                       *)
LEMMA StoredKeys ==
    ASSUME OneCreator, KeysComeFirst, BaseInv, KeyTypes, KeyInv, NEW c \in Cores, pc[c] \in Calling
    PROVE  /\ \A n \in Sets(c) : /\ n \in Nat /\ Plan[task[c]][n].upto \in KeyVars
                               /\ KeyMade(Plan[task[c]][n].upto) /\ KeyOf(c, n) # 0
                               /\ n <= done[task[c]] /\ n \in 1 .. Len(Plan[task[c]])
                               /\ Plan[task[c]][n].call = "set"
           /\ done[task[c]] < Len(Plan[task[c]]) /\ Subject(c).call \in {"set", "get"} =>
                 Subject(c).upto \in KeyVars /\ keyvar[Subject(c).upto] # 0
<1>1. task[c] \in Tasks /\ done[task[c]] \in Nat /\ Len(Plan[task[c]]) \in Nat /\ done[task[c]] <= Len(Plan[task[c]])
  BY PlanType DEF BaseInv, BaseTypes, ControlInv
<1>2. ASSUME NEW n \in Sets(c)
      PROVE  /\ n \in Nat /\ n <= done[task[c]] /\ n <= done[task[c]] + 1 /\ n \in 1 .. Len(Plan[task[c]])
             /\ Plan[task[c]][n].call = "set"
  BY <1>1 DEF Sets
<1>3. ASSUME NEW n \in Sets(c)
      PROVE  Plan[task[c]][n].upto \in KeyVars /\ KeyMade(Plan[task[c]][n].upto) /\ KeyOf(c, n) # 0
  BY <1>2, UsedKey DEF KeyOf
<1>4. ASSUME done[task[c]] < Len(Plan[task[c]]), Subject(c).call \in {"set", "get"}
      PROVE  Subject(c).upto \in KeyVars /\ keyvar[Subject(c).upto] # 0
  <2>1. done[task[c]] + 1 \in 1 .. Len(Plan[task[c]]) /\ done[task[c]] + 1 <= done[task[c]] + 1
    BY <1>1, <1>4
  <2> QED BY <1>4, <2>1, UsedKey DEF Subject
<1> QED BY <1>2, <1>3, <1>4

(* A store under a third key is lost.                                        *)
LEMMA StepTooMany ==
    ASSUME OneCreator, KeysComeFirst, BaseInv, KeyTypes, KeyInv, NEW c \in Cores, FieldInv(c), TooManyKeys(c)
    PROVE  FieldInv(c)'
<1> DEFINE K == key[current[c]]
           m == done[task[c]] + 1
<1>1. /\ pc[c] \in Calling /\ done[task[c]] < Len(Plan[task[c]]) /\ Subject(c).call = "set"
      /\ task' = task /\ current' = current /\ tsd' = tsd /\ done'[task[c]] = m /\ m - 1 = done[task[c]]
      /\ done[task[c]] \in Nat /\ FieldsWith(c, {keyvar[Subject(c).upto], 0}) = {}
  <2>1. done \in [Tasks -> Nat] /\ task[c] \in Tasks /\ done[task[c]] \in Nat
    BY DEF BaseInv, BaseTypes
  <2>2. m - 1 = done[task[c]]
    BY <2>1
  <2> QED BY <2>1, <2>2, LabelType DEF TooManyKeys, AtCall, Subject, CallDone
<1>2. Sets(c)' = Sets(c) \cup {m} /\ \A n \in Sets(c) : n \in Nat /\ n < m
  BY <1>1, SetsNext
<1>3. KeyOf(c, m) = keyvar[Subject(c).upto] /\ \A n : KeyOf(c, n)' = KeyOf(c, n)
  BY <1>1 DEF KeyOf, Subject, tsd
<1>4. \A f \in Fields : K[f] # 0 /\ K[f] # KeyOf(c, m)
  BY <1>1, <1>3 DEF FieldsWith
<1>5. K' = K /\ specific'[current'[c]] = specific[current[c]]
  BY <1>1 DEF tsd
<1> HIDE DEF m, K
<1>6. /\ K[0] # K[1] \/ K[1] = 0
      /\ K[1] # 0 => K[0] # 0
      /\ \A f \in Fields : \E n \in Sets(c) : KeyOf(c, n) = K[f] /\ specific[current[c]][f] = Pointer(task[c], n)
            /\ \A o \in Sets(c) : n < o => KeyOf(c, o) # KeyOf(c, n)
      /\ \A n \in Sets(c) : \/ \E f \in Fields : K[f] = KeyOf(c, n)
                           \/ \A f \in Fields : K[f] # 0 /\ \E o \in Sets(c) : o < n /\ KeyOf(c, o) = K[f]
  BY <1>4 DEF FieldInv, K
<1>7. \A f \in Fields : \E n \in Sets(c)' : KeyOf(c, n) = K[f] /\ specific[current[c]][f] = Pointer(task[c], n)
            /\ \A o \in Sets(c)' : n < o => KeyOf(c, o) # KeyOf(c, n)
  BY <1>2, <1>4, <1>6
<1>8. \A n \in Sets(c)' : \/ \E f \in Fields : K[f] = KeyOf(c, n)
                        \/ \A f \in Fields : K[f] # 0 /\ \E o \in Sets(c)' : o < n /\ KeyOf(c, o) = K[f]
  <2>1. \A f \in Fields : \E o \in Sets(c) : o < m /\ KeyOf(c, o) = K[f]
    BY <1>2, <1>6
  <2> QED BY <1>2, <1>4, <1>6, <2>1
<1> QED BY <1>1, <1>3, <1>5, <1>6, <1>7, <1>8 DEF FieldInv, K

(* A store under a key that the thread has replaces what it stored before; a *)
(* new key takes the first field without one.                                *)
LEMMA StepStore ==
    ASSUME OneCreator, KeysComeFirst, BaseInv, KeyTypes, KeyInv, SpecificTypes, NEW c \in Cores, FieldInv(c),
           StoreSpecific(c)
    PROVE  FieldInv(c)'
<1> DEFINE K == key[current[c]]
           P == specific[current[c]]
           m == done[task[c]] + 1
           k == keyvar[Subject(c).upto]
           f == FirstWith(c, {k, 0})
<1>0. done \in [Tasks -> Nat] /\ task[c] \in Tasks /\ done[task[c]] \in Nat /\ current[c] \in Slots
      /\ pc[c] \in Calling /\ key \in [Slots -> [Fields -> 0 .. NKeys]]
      /\ specific \in [Slots -> [Fields -> Tasks \X Nat]]
  <2>1. pc[c] \in Calling
    BY LabelType DEF StoreSpecific, AtCall
  <2> QED BY <2>1, OwnCurrent DEF BaseInv, BaseTypes, KeyTypes, SpecificTypes
<1>1. /\ done[task[c]] < Len(Plan[task[c]]) /\ Subject(c).call = "set"
      /\ task' = task /\ current' = current /\ keyvar' = keyvar /\ done'[task[c]] = m
      /\ FieldsWith(c, {k, 0}) # {}
      /\ key'[current[c]] = [K EXCEPT ![f] = k]
      /\ specific'[current[c]] = [P EXCEPT ![f] = Pointer(task[c], m)]
  BY <1>0 DEF StoreSpecific, AtCall, Subject, CallDone
<1>2. f \in Fields /\ K[f] \in {k, 0} /\ (f = 1 => K[0] \notin {k, 0})
  BY <1>1 DEF FirstWith, FieldsWith, Fields
<1>3. k # 0 /\ \A n \in Sets(c) : KeyOf(c, n) # 0
  BY <1>0, <1>1, StoredKeys
<1>4. Sets(c)' = Sets(c) \cup {m} /\ \A n \in Sets(c) : n \in Nat /\ n < m
  <2>1. Sets(c)' = Sets(c) \cup {m} /\ \A n \in Sets(c) : n \in Nat /\ n <= done[task[c]]
    BY <1>1, SetsNext
  <2>2. \A n \in Nat : n <= done[task[c]] => n < m
    BY <1>0
  <2> QED BY <2>1, <2>2
<1>5. m \in Nat /\ ~(m < m)
  BY <1>0
<1>6. KeyOf(c, m) = k /\ \A n : KeyOf(c, n)' = KeyOf(c, n)
  BY <1>1 DEF KeyOf, Subject
<1>7. \A g \in Fields : /\ K'[g] = (IF g = f THEN k ELSE K[g])
                       /\ P'[g] = (IF g = f THEN Pointer(task[c], m) ELSE P[g])
  BY <1>0, <1>1
<1>8. Fields = {0, 1}
  BY DEF Fields
<1>9. /\ K[0] # K[1] \/ K[1] = 0
      /\ K[1] # 0 => K[0] # 0
      /\ \A g \in Fields : K[g] # 0 => \E n \in Sets(c) : KeyOf(c, n) = K[g] /\ P[g] = Pointer(task[c], n)
            /\ \A o \in Sets(c) : n < o => KeyOf(c, o) # KeyOf(c, n)
      /\ \A n \in Sets(c) : \/ \E g \in Fields : K[g] = KeyOf(c, n)
                           \/ \A g \in Fields : K[g] # 0 /\ \E o \in Sets(c) : o < n /\ KeyOf(c, o) = K[g]
  BY DEF FieldInv
<1> HIDE DEF m, K, P, k, f
<1>10. (K'[0] # K'[1] \/ K'[1] = 0) /\ (K'[1] # 0 => K'[0] # 0)
  BY <1>2, <1>3, <1>7, <1>8, <1>9
<1>11. ASSUME NEW g \in Fields, K'[g] # 0
       PROVE  \E n \in Sets(c)' : KeyOf(c, n) = K'[g] /\ P'[g] = Pointer(task[c], n)
                 /\ \A o \in Sets(c)' : n < o => KeyOf(c, o) # KeyOf(c, n)
  <2>1. CASE g = f
    <3>1. m \in Sets(c)' /\ KeyOf(c, m) = K'[g] /\ P'[g] = Pointer(task[c], m)
      BY <1>4, <1>6, <1>7, <2>1
    <3>2. \A o \in Sets(c)' : ~(m < o)
      BY <1>4, <1>5
    <3> QED BY <3>1, <3>2
  <2>2. CASE g # f
    <3>1. K'[g] = K[g] /\ P'[g] = P[g] /\ K[g] # k
      BY <1>2, <1>7, <1>8, <1>9, <1>11, <2>2
    <3> PICK n \in Sets(c) : KeyOf(c, n) = K[g] /\ P[g] = Pointer(task[c], n)
                 /\ \A o \in Sets(c) : n < o => KeyOf(c, o) # KeyOf(c, n)
      BY <1>9, <1>11, <3>1
    <3> QED BY <1>4, <1>6, <3>1
  <2> QED BY <2>1, <2>2
<1>12. ASSUME NEW n \in Sets(c)'
       PROVE  \/ \E g \in Fields : K'[g] = KeyOf(c, n)
              \/ \A g \in Fields : K'[g] # 0 /\ \E o \in Sets(c)' : o < n /\ KeyOf(c, o) = K'[g]
  <2>1. CASE n = m
    BY <1>2, <1>6, <1>7, <2>1
  <2>2. CASE n \in Sets(c)
    <3>1. CASE \E g \in Fields : K[g] = KeyOf(c, n)
      BY <1>2, <1>3, <1>7, <2>2, <3>1
    <3>2. CASE \A g \in Fields : K[g] # 0 /\ \E o \in Sets(c) : o < n /\ KeyOf(c, o) = K[g]
      <4>1. K[f] = k
        BY <1>2, <3>2
      <4>2. \A g \in Fields : K'[g] = K[g]
        BY <1>7, <4>1
      <4> QED BY <1>4, <3>2, <4>2
    <3> QED BY <1>9, <2>2, <3>1, <3>2
  <2> QED BY <1>4, <2>1, <2>2
<1>13. /\ \A g \in Fields : K'[g] # 0 => \E n \in Sets(c)' : KeyOf(c, n)' = K'[g] /\ P'[g] = Pointer(task'[c], n)
            /\ \A o \in Sets(c)' : n < o => KeyOf(c, o)' # KeyOf(c, n)'
       /\ \A n \in Sets(c)' : \/ \E g \in Fields : K'[g] = KeyOf(c, n)'
                             \/ \A g \in Fields : K'[g] # 0 /\ \E o \in Sets(c)' : o < n /\ KeyOf(c, o)' = K'[g]
  BY <1>1, <1>6, <1>11, <1>12
<1> QED BY <1>10, <1>13 DEF FieldInv, K, P

LEMMA StepFields ==
    ASSUME OneCreator, OneKeyMaker, KeysComeFirst, BaseInv, KeyTypes, KeyInv, SpecificInv,
           NEW c \in Cores, CoreStep(c), NEW d \in Cores, pc'[d] \in Calling
    PROVE  FieldInv(d)'
<1>0. key \in [Slots -> [Fields -> 0 .. NKeys]] /\ done \in [Tasks -> Nat]
      /\ specific \in [Slots -> [Fields -> Tasks \X Nat]] /\ task[d] \in Tasks /\ SpecificTypes
  BY DEF BaseInv, BaseTypes, KeyTypes, SpecificInv, SpecificTypes
<1>1. ASSUME key'[current'[d]] = NoKeys, done'[task'[d]] = 0
      PROVE  FieldInv(d)'
  <2>1. key'[current'[d]][0] = 0 /\ key'[current'[d]][1] = 0 /\ \A f \in Fields : key'[current'[d]][f] = 0
    BY <1>1 DEF NoKeys, Fields
  <2>2. Sets(d)' = {}
    BY <1>1 DEF Sets
  <2> QED BY <2>1, <2>2 DEF FieldInv
<1>2. CASE c \in Workers /\ EnterTask(c) /\ d = c
  <2>1. /\ core[c] = c /\ pc[c] = "enter" /\ task'[c] = entryp[c] /\ done' = done
        /\ entryp[c] \in Tasks /\ entryp[c] # 0 /\ runs[entryp[c]] = 0 /\ pc'[c] = "body"
    BY <1>2, Entering DEF BaseInv, BaseTypes
  <2>2. done[entryp[c]] = 0
    BY <2>1 DEF BaseInv, RunInv
  <2>3. key[c] = NoKeys
    BY <1>2, <2>1 DEF SpecificInv, CleanInv
  <2>4. current'[c] = c
    BY <1>2, <2>1, OwnControl DEF Idle
  <2>5. key' = key
    BY <1>2 DEF EnterTask, tsd
  <2> QED BY <1>1, <1>2, <2>1, <2>2, <2>3, <2>4, <2>5
<1>3. CASE pc[d] \in Booting
  <2>1. d = 0 /\ c = 0 /\ CheckStart
    <3>1. d = 0
      BY <1>3, Constants DEF BaseInv, ControlInv
    <3>2. c = 0
      BY <1>3, <3>1, Others, LabelsApart
    <3> QED BY <1>3, <3>1, <3>2, Steps, CreateLabels, BeginShape, EndShape, LabelsApart, LabelType, Constants
  <2>2. key[0] = NoKeys /\ done[0] = 0
    BY <1>3, <2>1 DEF SpecificInv, CleanInv
  <2>3. UNCHANGED <<key, done, task, current>> /\ task[0] = 0 /\ current[0] = 0
    BY <2>1 DEF CheckStart, SetStarted, FillTable, TakeCoreZero, client, tsd, BaseInv, ControlInv
  <2> QED BY <1>1, <2>1, <2>2, <2>3
<1>4. CASE pc[d] \in Calling /\ (d = c => ~(StoreSpecific(c) \/ TooManyKeys(c)))
  <2>1. FieldInv(d) /\ current[d] = d
    BY <1>4, OwnCurrent DEF SpecificInv, FieldsInv
  <2>2. key'[d] = key[d] /\ specific'[d] = specific[d]
    BY <1>0, <1>4, FieldsAlone
  <2>3. ~(c \in Workers /\ EnterTask(c)) \/ d # c
    BY <1>4, Entering, LabelsApart
  <2>4. task'[d] = task[d] /\ current'[d] = current[d]
    <3>1. CASE d = c
      <4>1. task'[d] = task[d]
        BY <2>3, <3>1, RunShape
      <4>2. current'[c] = c
        BY <1>4, <3>1, OwnControl, LabelsApart, Constants
      <4> QED BY <2>1, <3>1, <4>1, <4>2
    <3>2. CASE d # c
      BY <3>2, Others
    <3> QED BY <3>1, <3>2
  <2>5. done'[task[d]] = done[task[d]] \/ (done'[task[d]] = done[task[d]] + 1 /\ Subject(d).call # "set")
    <3>1. CASE d = c
      BY <1>4, <3>1, EndCalls
    <3>2. CASE d # c
      BY <1>4, <3>2, Others
    <3> QED BY <3>1, <3>2
  <2>6. Sets(d)' = Sets(d)
    BY <2>4, <2>5, SetsNext
  <2>7. \A n \in Sets(d) : KeyOf(d, n)' = KeyOf(d, n)
    BY <1>4, <2>4, StoredKeys, KeyStable DEF KeyOf
  <2> QED BY <2>1, <2>2, <2>4, <2>6, <2>7, FieldsKept
<1>5. CASE d = c /\ pc[c] \in Calling /\ (StoreSpecific(c) \/ TooManyKeys(c))
  <2>1. FieldInv(c)
    BY <1>5 DEF SpecificInv, FieldsInv
  <2> QED BY <1>0, <1>5, <2>1, StepStore, StepTooMany
<1>6. pc[d] \in Booting \cup Calling \/ (c \in Workers /\ EnterTask(c) /\ d = c)
  BY RunShape, Others
<1> QED BY <1>2, <1>3, <1>4, <1>5, <1>6

LEMMA StepSpecificTypes ==
    ASSUME OneCreator, OneKeyMaker, BaseInv, SpecificTypes, NEW c \in Cores, CoreStep(c)
    PROVE  SpecificTypes'
<1>0. /\ specific \in [Slots -> [Fields -> Tasks \X Nat]] /\ read \in [Tasks -> Tasks \X Nat]
      /\ task[c] \in Tasks /\ done[task[c]] \in Nat /\ Null \in Tasks \X Nat
  BY Constants DEF SpecificTypes, BaseInv, BaseTypes, Null, Pointer
<1>1. CASE KeyLoad(0) \/ KeyStore(0)
  BY <1>0, <1>1 DEF KeyLoad, KeyStore, SpecificTypes
<1>2. CASE StoreSpecific(c)
  <2>1. Pointer(task[c], done[task[c]] + 1) \in Tasks \X Nat
    BY <1>0 DEF Pointer
  <2>2. specific' \in [Slots -> [Fields -> Tasks \X Nat]] /\ read' = read
    BY <1>0, <1>2, <2>1 DEF StoreSpecific
  <2> QED BY <1>0, <2>2 DEF SpecificTypes
<1>3. CASE ReadSpecific(c)
  <2>1. current[c] \in Slots
    BY <1>3, OwnCurrent, LabelType DEF ReadSpecific, AtCall
  <2>2. \A ks : FirstWith(c, ks) \in Fields
    BY DEF FirstWith, Fields
  <2>3. read' \in [Tasks -> Tasks \X Nat] /\ specific' = specific
    BY <1>0, <1>3, <2>1, <2>2 DEF ReadSpecific
  <2> QED BY <1>0, <2>3 DEF SpecificTypes
<1>4. CASE specific' = specific /\ read' = read
  BY <1>0, <1>4 DEF SpecificTypes
<1>5. SetArg(0) => specific' = specific
  BY DEF SetArg
<1> QED BY <1>1, <1>2, <1>3, <1>4, <1>5, KeySteps

(* What a step does to the keys of a slot.                                   *)
LEMMA SlotKeys ==
    ASSUME OneCreator, OneKeyMaker, BaseInv, KeyTypes, NEW c \in Cores, CoreStep(c), NEW i \in Slots
    PROVE  \/ key'[i] \in {key[i], NoKeys}
           \/ StoreSpecific(c) /\ i = c /\ pc[c] = "body" /\ pc' = pc
<1>0. key \in [Slots -> [Fields -> 0 .. NKeys]]
  BY DEF KeyTypes
<1>1. CASE KeyLoad(0) \/ KeyStore(0)
  BY <1>1 DEF KeyLoad, KeyStore
<1>2. CASE SetArg(0)
  BY <1>0, <1>2 DEF SetArg, NoKeys
<1>3. CASE StoreSpecific(c)
  <2>1. pc[c] = "body" /\ current[c] = c /\ pc' = pc
    BY <1>3, OwnCurrent, LabelType DEF StoreSpecific, AtCall
  <2> QED BY <1>0, <1>3, <2>1 DEF StoreSpecific
<1> QED BY <1>1, <1>2, <1>3, KeySteps

LEMMA StepClean ==
    ASSUME OneCreator, OneKeyMaker, BaseInv, KeyTypes, CleanInv, NEW c \in Cores, CoreStep(c)
    PROVE  CleanInv'
<1>0. /\ core \in [Slots -> Cores \cup {-1}] /\ pc \in [Cores -> Labels] /\ 0 \in Cores /\ 0 \in Tasks
      /\ key \in [Slots -> [Fields -> 0 .. NKeys]]
  BY Constants DEF BaseInv, BaseTypes, KeyTypes
<1>1. ASSUME NEW d \in Workers, core'[d] = d, pc'[d] \in Idle \cup {"enter"}
      PROVE  key'[d] = NoKeys
  <2>0. d \in Cores /\ d \in Slots /\ d # 0 /\ d # -1
    BY Constants
  <2>1. key'[d] \in {key[d], NoKeys}
    <3>1. ~(StoreSpecific(c) /\ d = c /\ pc[c] = "body" /\ pc' = pc)
      BY <1>1 DEF Idle
    <3> QED BY <2>0, <3>1, SlotKeys
  <2>2. CASE core[d] = d /\ pc[d] \in Idle \cup {"enter"}
    BY <2>1, <2>2 DEF CleanInv
  <2>3. CASE ~(core[d] = d /\ pc[d] \in Idle \cup {"enter"})
    <3>1. c = 0 /\ SetCore(0) /\ slot[0] = d
      <4>1. CASE c \in Workers
        <5>1. ~EnterTask(c) \/ d # c
          BY <1>0, <1>1, Entering, LabelsApart, LabelType, <4>1
        <5>2. d = c => pc[d] \in Idle \/ (pc[c] = "retire" /\ pc'[c] = "poll")
          BY <1>1, <2>0, <4>1, <5>1, RunShape
        <5>3. d # c => pc[d] \in Idle \cup {"enter"}
          BY <1>1, <2>0, Others
        <5>4. core'[d] = core[d]
          <6>1. EnterTask(c) => core' = core
            BY <4>1, Entering
          <6>2. core' = core \/ core' = [core EXCEPT ![c] = -1]
            BY <4>1, <6>1, RunShape
          <6> QED BY <1>0, <1>1, <2>0, <6>2
        <5>5. ~(d = c /\ pc[c] = "retire" /\ pc'[c] = "poll")
          <6> SUFFICES ASSUME d = c, pc[c] = "retire", pc'[c] = "poll" PROVE FALSE
            OBVIOUS
          <6>1. Works(c) /\ ~EnterTask(c)
            BY <4>1, <5>1, Steps, BeginShape, EndShape, Constants
          <6>2. core' = [core EXCEPT ![c] = -1]
            BY <4>1, <6>1, WorkerSteps DEF Idle
          <6> QED BY <1>0, <1>1, <2>0, <6>2
        <5> QED BY <1>1, <2>3, <5>2, <5>3, <5>4, <5>5
      <4>2. CASE c = 0
        <5>1. pc[d] \in Idle \cup {"enter"} /\ core[d] # d
          BY <1>1, <2>0, <2>3, <4>2, Others
        <5>2. CASE CheckStart
          BY <1>0, <1>1, <2>0, <5>1, <5>2 DEF CheckStart, SetStarted, FillTable, TakeCoreZero, table
        <5>3. CASE MainCreates
          BY <1>0, <1>1, <2>0, <4>2, <5>1, <5>3, CreatorSteps, StepCreate DEF TakesSlot
        <5>4. CASE Begins(c) \/ Ends(c)
          BY <1>1, <5>1, <5>4, BeginShape, EndShape
        <5> QED BY <2>0, <4>2, <5>2, <5>3, <5>4, Steps, Constants
      <4> QED BY <4>1, <4>2, Constants
    <3>2. key[d] = NoKeys
      BY <3>1 DEF CleanInv, SetCore, Goto
    <3> QED BY <2>1, <3>2
  <2> QED BY <2>2, <2>3
<1>2. ASSUME pc'[0] \in {"set_entry", "set_core"} PROVE key'[slot'[0]] = NoKeys
  <2>1. slot' = slot /\ slot[0] \in Workers /\ slot[0] \in Slots /\ (SetArg(0) \/ pc[0] \in Filling)
        /\ (SetArg(0) \/ pc[0] \in {"set_entry", "set_core"}) /\ ~(c = 0 /\ StoreSpecific(0))
    <3>1. CASE c = 0
      <4>1. MainCreates
        <5>1. ~CheckStart /\ ~Begins(0) /\ ~Ends(0)
          BY <1>0, <1>2, BeginShape, EndShape DEF CheckStart, SetStarted, FillTable, TakeCoreZero, Goto
        <5> QED BY <3>1, <5>1, Steps, Constants
      <4>2. slot' = slot /\ slot[0] \in Workers /\ pc[0] \in Filling /\ (SetArg(0) \/ SetEntry(0))
        BY <1>2, <4>1, CreatorSteps, StepCreate DEF TakesSlot, Filling
      <4>3. SetEntry(0) => pc[0] = "set_entry"
        BY DEF SetEntry, Goto
      <4>4. ~StoreSpecific(0)
        BY <1>0, <1>2, <4>2 DEF StoreSpecific, AtCall, Filling
      <4> QED BY <4>2, <4>3, <4>4, Constants
    <3>2. CASE c # 0
      <4>1. pc[0] = pc'[0] /\ c \in Workers
        BY <1>0, <3>2, Others, Constants
      <4>2. pc[0] \in Filling /\ pc[0] \in {"set_entry", "set_core"}
        BY <1>2, <4>1 DEF Filling
      <4>3. slot[0] \in Workers /\ slot[0] \in Slots
        BY <4>2, CreatorKnows, LabelType
      <4>4. slot' = slot
        <5>1. Works(c) \/ Begins(c) \/ Ends(c)
          BY <3>2, Steps
        <5> QED BY <4>1, <5>1, WorkShape, BeginShape, EndShape
      <4> QED BY <3>2, <4>2, <4>3, <4>4
    <3> QED BY <3>1, <3>2
  <2>2. CASE SetArg(0)
    BY <1>0, <2>1, <2>2 DEF SetArg, NoKeys
  <2>3. CASE pc[0] \in {"set_entry", "set_core"}
    <3>1. key[slot[0]] = NoKeys
      BY <2>3 DEF CleanInv
    <3>2. ~(StoreSpecific(c) /\ slot[0] = c)
      <4> SUFFICES ASSUME StoreSpecific(c), slot[0] = c PROVE FALSE
        OBVIOUS
      <4>1. pc[0] \in Filling /\ c \in Workers /\ pc[c] \in Calling
        BY <2>1, <2>3, LabelType DEF StoreSpecific, AtCall, Filling
      <4>2. core[c] = c /\ core[c] = -1 /\ c # -1
        BY <4>1, Constants DEF BaseInv, RunInv, TableInv, CreateInv
      <4> QED BY <4>2
    <3>3. key'[slot[0]] = NoKeys
      BY <2>1, <3>1, <3>2, SlotKeys
    <3> QED BY <2>1, <3>3
  <2> QED BY <2>1, <2>2, <2>3
<1>3. ASSUME pc'[0] \in Booting PROVE key'[0] = NoKeys /\ done'[0] = 0
  <2>1. pc[0] \in Booting
    <3>1. CASE c = 0
      <4>1. CASE CheckStart
        BY <1>3, <4>1 DEF CheckStart, SetStarted, FillTable, TakeCoreZero, Goto, Booting
      <4>2. CASE MainCreates
        BY <1>3, <4>2, CreateLabels, LabelsApart, LabelType
      <4>3. CASE Begins(0) \/ Ends(0)
        BY <1>0, <1>3, <4>3, BeginShape, EndShape DEF Booting
      <4> QED BY <3>1, <4>1, <4>2, <4>3, Steps, Constants
    <3>2. CASE c # 0
      BY <1>0, <1>3, <3>2, Others
    <3> QED BY <3>1, <3>2
  <2>2. key[0] = NoKeys /\ done[0] = 0
    BY <2>1 DEF CleanInv
  <2>3. done'[0] = done[0]
    <3> SUFFICES ASSUME done'[0] # done[0] PROVE FALSE
      OBVIOUS
    <3>1. task[c] = 0 /\ pc[c] \in Calling
      BY <1>0, DoneGrows
    <3>2. c = 0
      BY <3>1, Constants DEF BaseInv, ControlInv
    <3> QED BY <2>1, <3>1, <3>2, LabelsApart
  <2>4. ~(StoreSpecific(c) /\ 0 = c /\ pc[c] = "body")
    BY <2>1 DEF Booting
  <2> QED BY <2>2, <2>3, <2>4, SlotKeys, Constants
<1> QED BY <1>1, <1>2, <1>3 DEF CleanInv

LEMMA ReadChanges ==
    ASSUME OneCreator, OneKeyMaker, BaseInv, SpecificTypes, NEW c \in Cores, CoreStep(c), NEW k \in Tasks,
           done'[k] = done[k]
    PROVE  read'[k] = read[k]
<1>0. read \in [Tasks -> Tasks \X Nat] /\ done \in [Tasks -> Nat] /\ task[c] \in Tasks /\ done[k] \in Nat
  BY DEF SpecificTypes, BaseInv, BaseTypes
<1>1. CASE ReadSpecific(c)
  <2>1. done' = [done EXCEPT ![task[c]] = @ + 1]
    BY <1>1 DEF ReadSpecific, CallDone
  <2>2. k # task[c]
    BY <1>0, <2>1
  <2> QED BY <1>0, <1>1, <2>2 DEF ReadSpecific
<1>2. CASE KeyLoad(0) \/ KeyStore(0)
  BY <1>2 DEF KeyLoad, KeyStore
<1> QED BY <1>1, <1>2, KeySteps

(* What a thread reads: what it last stored under the key, if the key has a  *)
(* field; null only if it has stored nothing under it, or stored under two   *)
(* other keys before.                                                        *)
Reads(k, m, value) ==
    \/ OwnSets(k, m) = {} /\ value = Null
    \/ \E n \in OwnSets(k, m) : value = Pointer(k, n) /\ \A o \in OwnSets(k, m) : o <= n
    \/ \E x, y \in 1 .. m : /\ OwnSets(k, m) # {} /\ Plan[k][x].call = "set" /\ Plan[k][y].call = "set"
                            /\ \A o \in OwnSets(k, m) : x < o /\ y < o
                            /\ Plan[k][x].upto # Plan[k][y].upto

LEMMA StepRead ==
    ASSUME OneCreator, OneKeyMaker, KeysComeFirst, BaseInv, KeyTypes, KeyInv, SpecificInv,
           NEW c \in Cores, ReadSpecific(c),
           NEW k \in Tasks, k = task[c], NEW m \in Nat, m = done[k] + 1
    PROVE  Reads(k, m, read'[k])
<1> DEFINE own == OwnSets(k, m)
           K == key[c]
           P == specific[c]
           kk == keyvar[Subject(c).upto]
<1>0. /\ pc[c] \in Calling /\ done[k] < Len(Plan[k]) /\ Subject(c).call = "get" /\ Subject(c) = Plan[k][m]
      /\ k \in Tasks /\ done[k] \in Nat /\ m \in Nat /\ Plan[k] = Plan[task[c]]
  <2>1. pc[c] \in Calling
    BY LabelType DEF ReadSpecific, AtCall
  <2>2. k \in Tasks /\ done[k] \in Nat
    BY DEF BaseInv, BaseTypes
  <2> QED BY <2>1, <2>2 DEF ReadSpecific, AtCall, Subject
<1>1. current[c] = c
  BY <1>0, OwnCurrent
<1>2. /\ kk # 0 /\ Subject(c).upto \in KeyVars
      /\ \A n \in Sets(c) : n \in Nat /\ n < m /\ Plan[k][n].upto \in KeyVars
  <2>1. /\ \A n \in Sets(c) : n \in Nat /\ n <= done[k] /\ Plan[k][n].upto \in KeyVars
        /\ Subject(c).upto \in KeyVars /\ kk # 0
    BY <1>0, StoredKeys
  <2>2. \A n \in Nat : n <= done[k] => n < m
    BY <1>0
  <2> QED BY <2>1, <2>2
<1>3. \A n : n \in own <=> n \in Sets(c) /\ KeyOf(c, n) = kk
  <2>1. \A v, w \in KeyVars : keyvar[v] = keyvar[w] /\ keyvar[v] # 0 => v = w
    BY DEF KeyInv
  <2>2. \A n : n \in 1 .. m <=> n \in 1 .. done[k] \/ n = m
    BY <1>0
  <2>3. \A n : n \in own <=> n \in Sets(c) /\ Plan[k][n].upto = Plan[k][m].upto
    BY <1>0, <2>2 DEF Sets, OwnSets
  <2> QED BY <1>0, <1>2, <2>1, <2>3 DEF KeyOf
<1>4. /\ K[0] # K[1] \/ K[1] = 0
      /\ \A f \in Fields : K[f] # 0 => \E n \in Sets(c) : KeyOf(c, n) = K[f] /\ P[f] = Pointer(task[c], n)
            /\ \A o \in Sets(c) : n < o => KeyOf(c, o) # KeyOf(c, n)
      /\ \A n \in Sets(c) : \/ \E f \in Fields : K[f] = KeyOf(c, n)
                           \/ \A f \in Fields : K[f] # 0 /\ \E o \in Sets(c) : o < n /\ KeyOf(c, o) = K[f]
  BY <1>0, <1>1 DEF SpecificInv, FieldsInv, FieldInv
<1>5. read'[k] = IF \E f \in Fields : K[f] = kk THEN P[FirstWith(c, {kk})] ELSE Null
  <2>1. read \in [Tasks -> Tasks \X Nat]
    BY DEF SpecificInv, SpecificTypes
  <2>2. FieldsWith(c, {kk}) = {} <=> ~\E f \in Fields : K[f] = kk
    BY <1>1 DEF FieldsWith
  <2> QED BY <1>0, <1>1, <2>1, <2>2 DEF ReadSpecific
<1> HIDE DEF own, K, P, kk
<1>6. ASSUME \E f \in Fields : K[f] = kk
      PROVE  \E n \in own : read'[k] = Pointer(k, n) /\ \A o \in own : o <= n
  <2> PICK f \in Fields : f = FirstWith(c, {kk}) /\ K[f] = kk
    BY <1>1, <1>6 DEF FirstWith, FieldsWith, Fields, K
  <2> PICK n \in Sets(c) : /\ KeyOf(c, n) = K[f] /\ P[f] = Pointer(task[c], n)
                           /\ \A o \in Sets(c) : n < o => KeyOf(c, o) # KeyOf(c, n)
    BY <1>2, <1>4
  <2>1. n \in own /\ \A o \in own : ~(n < o) /\ o \in Nat /\ n \in Nat
    BY <1>2, <1>3
  <2>2. \A o \in own : o <= n
    BY <2>1
  <2>3. read'[k] = Pointer(k, n)
    BY <1>5, <1>6
  <2> QED BY <2>1, <2>2, <2>3
<1>7. ASSUME ~(\E f \in Fields : K[f] = kk) /\ own # {}
      PROVE  \E x, y \in 1 .. m : /\ Plan[k][x].call = "set" /\ Plan[k][y].call = "set"
                                   /\ \A o \in own : x < o /\ y < o
                                   /\ Plan[k][x].upto # Plan[k][y].upto
  <2>1. own \subseteq Nat
    BY <1>2, <1>3
  <2> PICK n \in own : \A o \in own : n <= o
    BY <1>7, <2>1, Smallest
  <2>2. n \in Sets(c) /\ KeyOf(c, n) = kk
    BY <1>3
  <2>3. \A f \in Fields : K[f] # 0 /\ \E o \in Sets(c) : o < n /\ KeyOf(c, o) = K[f]
    BY <1>4, <1>7, <2>2
  <2> PICK x \in Sets(c) : x < n /\ KeyOf(c, x) = K[0]
    BY <2>3 DEF Fields
  <2> PICK y \in Sets(c) : y < n /\ KeyOf(c, y) = K[1]
    BY <2>3 DEF Fields
  <2>4. Plan[k][x].upto # Plan[k][y].upto
    BY <1>4, <2>3 DEF KeyOf, Fields
  <2>5. x \in Nat /\ y \in Nat /\ n \in Nat
    BY <1>2, <2>1
  <2>6. \A o \in own : x < o /\ y < o
    BY <2>1, <2>5
  <2>7. /\ x \in 1 .. m /\ y \in 1 .. m
        /\ Plan[k][x].call = "set" /\ Plan[k][y].call = "set"
    BY <1>0, <1>2 DEF Sets
  <2> QED BY <2>4, <2>6, <2>7
<1>8. CASE \E f \in Fields : K[f] = kk
  BY <1>6, <1>8 DEF own, Reads
<1>9. CASE ~(\E f \in Fields : K[f] = kk) /\ own # {}
  BY <1>7, <1>9 DEF own, Reads
<1>10. CASE ~(\E f \in Fields : K[f] = kk) /\ own = {}
  BY <1>5, <1>10 DEF own, Reads
<1> QED BY <1>8, <1>9, <1>10

LEMMA StepOwn ==
    ASSUME OneCreator, OneKeyMaker, KeysComeFirst, BaseInv, KeyTypes, KeyInv, SpecificInv, SpecificIsOwn,
           NEW c \in Cores, CoreStep(c)
    PROVE  SpecificIsOwn'
<1> SUFFICES ASSUME NEW k \in Tasks, NEW m \in 1 .. Len(Plan[k]), m = done'[k], Plan[k][m].call = "get"
             PROVE  OwnValue(k, m, read'[k])
  BY DEF SpecificIsOwn
<1> DEFINE stored == {n \in 1 .. m : Plan[k][n].call = "set"}
           own == {n \in stored : Plan[k][n].upto = Plan[k][m].upto}
           earlier == {Plan[k][n].upto : n \in {n \in stored : \A o \in own : n < o}}
<1>0. done[k] \in Nat /\ m \in Nat /\ Len(Plan[k]) \in Nat
  <2>1. done[k] \in Nat /\ Len(Plan[k]) \in Nat
    BY PlanType DEF BaseInv, BaseTypes
  <2> QED BY <2>1
<1>1. CASE done'[k] = done[k]
  <2>1. read'[k] = read[k] /\ m = done[k]
    BY <1>1, ReadChanges DEF SpecificInv
  <2> QED BY <2>1 DEF SpecificIsOwn
<1>2. CASE done'[k] # done[k]
  <2>1. k = task[c] /\ m = done[k] + 1
    BY <1>2, DoneGrows
  <2>2. ReadSpecific(c)
    BY <1>2, <2>1, EndCalls DEF Subject
  <2>3. own = OwnSets(k, m)
    BY DEF OwnSets
  <2>4. \/ own = {} /\ read'[k] = Null
        \/ \E n \in own : read'[k] = Pointer(k, n) /\ \A o \in own : o <= n
        \/ \E x, y \in 1 .. m : /\ own # {} /\ Plan[k][x].call = "set" /\ Plan[k][y].call = "set"
                                /\ \A o \in own : x < o /\ y < o
                                /\ Plan[k][x].upto # Plan[k][y].upto
    <3> HIDE DEF own
    <3>1. k \in Tasks /\ m \in Nat /\ k = task[c] /\ m = done[k] + 1
      BY <1>0, <2>1
    <3>2. Reads(k, m, read'[k])
      BY <2>2, <3>1, StepRead
    <3> QED BY <2>3, <3>2 DEF Reads
  <2>5. IsFiniteSet(earlier)
    <3>1. \A n \in 1 .. m : n \in DOMAIN Plan[k] /\ Plan[k][n] \in Calls
      BY <1>0, PlanType
    <3>2. \A n \in stored : Plan[k][n].upto \in KeyVars
      BY <3>1, CallType
    <3>3. earlier \subseteq 1 .. NKeys
      BY <3>2 DEF KeyVars
    <3>4. IsFiniteSet(1 .. NKeys)
      BY FS_Interval, NKeysAssumption
    <3> QED BY <3>3, <3>4, FS_Subset
  <2>6. ASSUME NEW x \in 1 .. m, NEW y \in 1 .. m, Plan[k][x].call = "set", Plan[k][y].call = "set",
               \A o \in own : x < o /\ y < o, Plan[k][x].upto # Plan[k][y].upto
        PROVE  ~(Cardinality(earlier) < 2)
    <3>1. Plan[k][x].upto \in earlier /\ Plan[k][y].upto \in earlier
      BY <2>6
    <3> HIDE DEF earlier
    <3> QED BY <2>5, <2>6, <3>1, TwoOf
  <2> HIDE DEF own, earlier
  <2>7. IF own = {} THEN read'[k] = Null
        ELSE Cardinality(earlier) < 2 => \E n \in own : read'[k] = Pointer(k, n) /\ \A o \in own : o <= n
    BY <2>4, <2>6
  <2> QED BY <2>7 DEF OwnValue, stored, own, earlier
<1> QED BY <1>1, <1>2

LEMMA StepSpecific ==
    ASSUME OneCreator, OneKeyMaker, KeysComeFirst, BaseInv, KeyTypes, KeyInv, SpecificInv,
           NEW c \in Cores, CoreStep(c)
    PROVE  SpecificInv'
<1>1. SpecificTypes' /\ CleanInv'
  BY StepSpecificTypes, StepClean DEF SpecificInv
<1>2. FieldsInv'
  <2> SUFFICES ASSUME NEW d \in Cores, pc'[d] \in Calling PROVE FieldInv(d)'
    BY DEF FieldsInv
  <2> QED BY StepFields
<1> QED BY <1>1, <1>2 DEF SpecificInv

LEMMA StutterSpecific == SpecificInv /\ SpecificIsOwn /\ UNCHANGED vars => SpecificInv' /\ SpecificIsOwn'
<1> SUFFICES ASSUME SpecificInv, SpecificIsOwn, UNCHANGED vars PROVE SpecificInv' /\ SpecificIsOwn'
  OBVIOUS
<1> USE DEF vars, table, client, tsd, SpecificInv
<1>1. SpecificTypes' /\ CleanInv'
  BY DEF SpecificTypes, CleanInv
<1>2. ASSUME NEW c, FieldInv(c) PROVE FieldInv(c)'
  <2>1. Sets(c)' = Sets(c) /\ \A n : KeyOf(c, n)' = KeyOf(c, n)
    BY DEF Sets, KeyOf
  <2> QED BY <1>2, <2>1, FieldsKept
<1>3. FieldsInv'
  BY <1>2 DEF FieldsInv
<1>4. SpecificIsOwn'
  BY DEF SpecificIsOwn
<1> QED BY <1>1, <1>3, <1>4

(* If main makes every key before a thread uses it, a thread reads what it   *)
(* stored itself, in whichever slot it runs and whatever the slot's last     *)
(* thread left there; only after two other keys may its own be missing.      *)
THEOREM SpecificOwn ==
    ASSUME OneCreator, OneKeyMaker, KeysComeFirst
    PROVE  Spec => []SpecificIsOwn
<1> DEFINE Inv == BaseInv /\ KeyTypes /\ KeyInv /\ SpecificInv /\ SpecificIsOwn
<1>1. ASSUME Inv, NEW c \in Cores, CoreStep(c)
      PROVE  Inv'
  BY <1>1, StepBase, StepKeyTypes, StepKeyInv, StepSpecific, StepOwn
<1>2. Inv /\ [Next]_vars => Inv'
  BY <1>1, StutterBase, StutterKeys, StutterSpecific DEF Next
<1>3. Init => Inv
  BY InitBase, InitKeys, InitSpecific
<1> QED BY <1>2, <1>3, PTL DEF Spec

-----------------------------------------------------------------------------
(* Fork and join.                                                            *)
LEMMA ThroughStays ==
    ASSUME OneCreator, BaseInv, NEW c \in Cores, CoreStep(c), NEW k \in Tasks, Created(k), Through(k)
    PROVE  Through(k)'
<1>1. done'[k] = done[k]
  <2>1. done[k] \in Nat /\ Len(Plan[k]) \in Nat
    BY PlanType DEF BaseInv, BaseTypes
  <2> QED BY <2>1, DoneGrows DEF Through
<1>2. runs'[k] = runs[k]
  <2>1. CASE c \in Workers /\ EnterTask(c)
    <3>1. k # entryp[c]
      BY <2>1, Entering DEF Through
    <3> QED BY <2>1, <3>1, Entering DEF BaseInv, BaseTypes
  <2>2. CASE ~(c \in Workers /\ EnterTask(c))
    BY <2>2, RunShape
  <2> QED BY <2>1, <2>2
<1> QED BY <1>1, <1>2 DEF Through

(* Only the core of a slot frees it, after its task's last call; and main    *)
(* fills no slot that is not free.                                           *)
LEMMA StepOwner ==
    ASSUME OneCreator, BaseInv, JoinInv, OwnerInv, NEW c \in Cores, CoreStep(c)
    PROVE  OwnerInv'
<1> SUFFICES ASSUME NEW k \in Tasks \ {0}, Created(k)', ~Through(k)'
             PROVE  Tid(k)' # 0 /\ core'[Tid(k)'] = Tid(k)' /\ entryp'[Tid(k)'] = k
  BY DEF OwnerInv
<1>0. /\ core \in [Slots -> Cores \cup {-1}] /\ entryp \in [Slots -> Tasks]
      /\ pc \in [Cores -> Labels] /\ k \in Tasks /\ \A x \in Slots : x \in Nat /\ x # -1
  <2>1. \A x \in Slots : x \in Nat /\ x # -1
    BY DEF Slots
  <2> QED BY <2>1 DEF BaseInv, BaseTypes
<1>1. CASE ~Created(k)
  <2>1. c = 0 /\ SetCore(0) /\ k = Subject(0).task /\ pc[0] = "set_core" /\ pc[0] \in Filling
    BY <1>0, <1>1, NewlyCreated DEF SetCore, Goto, Filling
  <2>2. entryp[slot[0]] = k /\ slot[0] \in Slots /\ slot[0] # 0
    BY <2>1, CreatorKnows, LabelType DEF BaseInv, TableInv, CreateInv
  <2>3. entryp' = entryp /\ Tid(k)' = slot[0] /\ core'[slot[0]] = slot[0]
    BY <1>0, <2>1, <2>2, Handing DEF SetCore
  <2> QED BY <2>2, <2>3
<1>2. CASE Created(k)
  <2> DEFINE i == Tid(k)
  <2>1. i # 0 /\ i \in Slots /\ core[i] = i /\ entryp[i] = k
    BY <1>0, <1>2, ThroughStays, TidType DEF OwnerInv
  <2>2. Tid(k)' = i
    <3>1. c = 0 /\ SetCore(0) => Subject(0).task # k
      BY <1>2, CreatesNew, LabelType, Handing
    <3> QED BY <1>0, <3>1, Handing
  <2> HIDE DEF i
  <2>3. entryp'[i] = k /\ core'[i] = i
    <3>1. CASE c = 0 /\ CheckStart
      <4>1. pc[0] \in Booting
        BY <3>1 DEF CheckStart, SetStarted, FillTable, TakeCoreZero, Goto, Booting
      <4> QED BY <1>0, <2>1, <4>1 DEF BaseInv, TableInv, BootInv
    <3>2. CASE c = 0 /\ MainCreates
      <4>1. pc[0] \in Filling => slot[0] # i /\ slot[0] \in Slots
        BY <1>0, <2>1, CreatorKnows, LabelType DEF BaseInv, TableInv, CreateInv
      <4> QED BY <1>0, <2>1, <3>2, <4>1, CreatorSteps, StepCreate, LabelType DEF TakesSlot, i
    <3>3. CASE c \in Workers /\ Works(c)
      <4>1. entryp' = entryp
        BY <3>3, WorkShape
      <4>2. core' = core \/ (pc[c] \in Ending /\ core' = [core EXCEPT ![c] = -1])
        BY <3>3, WorkShape
      <4>3. ~(i = c /\ pc[c] \in Ending)
        <5> SUFFICES ASSUME i = c, pc[c] \in Ending PROVE FALSE
          OBVIOUS
        <5>1. task[c] = k
          BY <2>1, <3>3 DEF JoinInv, OwnTaskInv
        <5>2. done[k] = Len(Plan[k]) /\ runs[k] = 1
          BY <3>3, <5>1 DEF BaseInv, ControlInv, RunInv
        <5> QED BY <1>0, <1>2, <5>2, ThroughStays DEF Through
      <4> QED BY <1>0, <2>1, <4>1, <4>2, <4>3 DEF i
    <3>4. CASE Begins(c) \/ Ends(c)
      BY <2>1, <3>4, BeginShape, EndShape DEF i
    <3> QED BY <3>1, <3>2, <3>3, <3>4, Steps
  <2> QED BY <2>1, <2>2, <2>3
<1> QED BY <1>1, <1>2

(* A call is executed until its function returns.                            *)
LEMMA ExecutingStays ==
    ASSUME OneCreator, BaseInv, NEW c \in Cores, CoreStep(c), ~(c \in Workers /\ EnterTask(c)),
           ~(pc[c] \in Calling /\ pc'[c] \in Ending), NEW k
    PROVE  Executing(k)' <=> Executing(k)
<1>0. InTask = Calling
  BY DEF InTask, Calling, Creating, Filling
<1>1. ASSUME NEW d \in Workers
      PROVE  /\ task'[d] = task[d]
             /\ pc'[d] \in Calling <=> pc[d] \in Calling
  <2>0. d \in Cores
    BY Constants
  <2>1. CASE d # c
    BY <2>0, <2>1, Others
  <2>2. CASE d = c
    <3>1. task'[c] = task[c] /\ (pc'[c] \in Calling => pc[c] \in Booting \cup Calling)
          /\ (pc'[c] \in {"enter"} \cup Idle => pc[c] \in Idle \/ (pc[c] = "retire" /\ pc'[c] = "poll"))
      BY RunShape
    <3>2. pc[c] \notin Booting /\ pc'[c] \notin Booting
      BY <2>2, StepBase DEF BaseInv, ControlInv
    <3>3. pc'[c] \in Labels
      BY StepBase DEF BaseInv, BaseTypes
    <3>4. pc[c] \in Calling => pc'[c] \in Calling
      BY <3>1, <3>2, <3>3, LabelsApart DEF Labels, Ending
    <3> QED BY <2>2, <3>1, <3>2, <3>4
  <2> QED BY <2>1, <2>2
<1> QED BY <1>0, <1>1 DEF Executing

LEMMA WhereStays ==
    ASSUME NEW k, Created(k)' <=> Created(k), runs'[k] = runs[k], Executing(k)' <=> Executing(k)
    PROVE  Where(k)' = Where(k)
BY DEF Where

(* Steps as the abstract specification sees them: one thread moves, makes a  *)
(* call or is joined, or nothing happens.                                    *)
Threads == Tasks \ {0}
AbstractVars == << [k \in Threads |-> Where(k)], [k \in Threads |-> done[k]], [k \in Threads |-> got[k]] >>

LEMMA AbstractStutter ==
    ASSUME \A k \in Threads : Where(k)' = Where(k) /\ done'[k] = done[k] /\ got'[k] = got[k]
    PROVE  AbstractVars' = AbstractVars
BY DEF AbstractVars

LEMMA AbstractMove ==
    ASSUME NEW k \in Threads, NEW from, NEW to, Where(k) = from, Where(k)' = to,
           \A j \in Threads \ {k} : Where(j)' = Where(j),
           \A j \in Threads : done'[j] = done[j] /\ got'[j] = got[j]
    PROVE  /\ Abstract!Move(k, from, to)
           /\ [j \in Threads |-> done[j]]' = [j \in Threads |-> done[j]]
           /\ [j \in Threads |-> got[j]]' = [j \in Threads |-> got[j]]
<1> DEFINE w == [j \in Threads |-> Where(j)]
           x == [j \in Threads |-> Where(j)']
<1>1. x = [w EXCEPT ![k] = to]
  OBVIOUS
<1>2. w[k] = from /\ w' = x
  OBVIOUS
<1> QED BY <1>1, <1>2 DEF Abstract!Move, Threads

LEMMA AbstractCall ==
    ASSUME NEW k \in Threads, Where(k) = "running", done[k] < Len(Plan[k]), done'[k] = done[k] + 1,
           \A j \in Threads : Where(j)' = Where(j) /\ got'[j] = got[j],
           \A j \in Threads \ {k} : done'[j] = done[j]
    PROVE  Abstract!MakeCall(k)
<1> DEFINE d == [j \in Threads |-> done[j]]
<1>1. d' = [d EXCEPT ![k] = @ + 1] /\ d[k] = done[k]
  OBVIOUS
<1>2. [j \in Threads |-> Where(j)]' = [j \in Threads |-> Where(j)]
      /\ [j \in Threads |-> got[j]]' = [j \in Threads |-> got[j]]
  OBVIOUS
<1>3. [j \in Tasks |-> Len(Plan[j])][k] = Len(Plan[k])
  BY DEF Threads
<1> QED BY <1>1, <1>2, <1>3 DEF Abstract!MakeCall, Threads

LEMMA AbstractJoin ==
    ASSUME NEW k \in Threads, Where(k) = "ended",
           NEW v \in (IF k \in ExitTasks THEN Values ELSE {Result(k)}), got'[k] = v,
           \A j \in Threads : Where(j)' = Where(j) /\ done'[j] = done[j],
           \A j \in Threads \ {k} : got'[j] = got[j]
    PROVE  Abstract!JoinEnded(k)
<1> DEFINE g == [j \in Threads |-> got[j]]
           returns == [j \in Tasks |-> IF j \in ExitTasks THEN Values ELSE {Result(j)}]
<1>1. g' = [g EXCEPT ![k] = v]
  OBVIOUS
<1>2. [j \in Threads |-> Where(j)]' = [j \in Threads |-> Where(j)]
      /\ [j \in Threads |-> done[j]]' = [j \in Threads |-> done[j]]
  OBVIOUS
<1>3. v \in returns[k]
  BY DEF Threads
<1> QED BY <1>1, <1>2, <1>3 DEF Abstract!JoinEnded, Threads

(* The steps that are not calls of a thread leave the calls alone.           *)
LEMMA QuietCalls ==
    ASSUME OneCreator, BaseInv, NEW c \in Cores, CoreStep(c), ~Ends(c)
    PROVE  got' = got /\ \A k \in Threads : done'[k] = done[k]
<1> USE DEF client
<1>1. CASE c = 0 /\ CheckStart
  BY <1>1 DEF CheckStart, SetStarted, FillTable, TakeCoreZero
<1>2. CASE c = 0 /\ MainCreates
  <2>1. CASE SetNewt(0)
    BY <2>1, Constants DEF SetNewt, CallDone, Threads, BaseInv, BaseTypes, ControlInv
  <2>2. CASE ~SetNewt(0)
    BY <1>2, <2>2 DEF MainCreates, CreateCall, SlotBusy, SlotFree, NeedSlot, GrowTable, SearchAgain,
                      SetArg, SetEntry, SetCore
  <2> QED BY <2>1, <2>2
<1>3. CASE c \in Workers /\ Works(c)
  BY <1>3, WorkShape
<1>4. CASE Begins(c)
  BY <1>4, BeginShape
<1> QED BY <1>1, <1>2, <1>3, <1>4, Steps

(* The states between which no thread is created or begins.                  *)
LEMMA CreatedSame ==
    ASSUME OneCreator, BaseInv, NEW c \in Cores, CoreStep(c), NEW k \in Tasks,
           ~(c = 0 /\ SetCore(0) /\ k = Subject(0).task)
    PROVE  Created(k)' <=> Created(k)
BY NewlyCreated, DoneGrows

LEMMA StepFork ==
    ASSUME OneCreator, BaseInv, CoreStep(0), SetCore(0)
    PROVE  \E k \in Threads : Abstract!Fork(k)
<1>0. pc[0] = "set_core" /\ pc[0] \in Creating /\ pc[0] \in Filling /\ 0 \in Cores /\ 0 \notin Workers
      /\ pc \in [Cores -> Labels]
  BY Constants DEF SetCore, Goto, Creating, Filling, BaseInv, BaseTypes, Workers
<1> PICK k \in Tasks : k = Subject(0).task
  BY <1>0, CreatorKnows
<1>1. k # 0 /\ ~Created(k) /\ Creates(done[0] + 1, k) /\ done[0] \in Nat
  BY <1>0, CreatesNew, CreatorKnows, Constants DEF BaseInv, BaseTypes, ControlInv
<1>2. UNCHANGED <<done, got, runs>>
  BY DEF SetCore, client
<1>3. Created(k)'
  <2>1. Effective' = done[0] + 1 /\ done[0] + 1 \in DOMAIN Plan[0]
    BY <1>0, <1>1, Handing DEF Creates
  <2> QED BY <1>1, <2>1 DEF Created, Creates
<1>4. \A j \in Threads : done'[j] = done[j] /\ got'[j] = got[j]
  BY <1>2 DEF Threads
<1>5. \A j : Executing(j)' <=> Executing(j)
  <2>1. pc'[0] = "set_newt"
    BY <1>0 DEF SetCore, Goto
  <2> QED BY <1>0, <2>1, ExecutingStays DEF Ending
<1>6. \A j \in Threads \ {k} : Where(j)' = Where(j)
  <2>1. \A j \in Threads \ {k} : Created(j)' <=> Created(j)
    BY <1>0, CreatedSame DEF Threads
  <2> QED BY <1>2, <1>5, <2>1, WhereStays
<1>7. Where(k) = "absent" /\ Where(k)' = "created"
  <2>1. runs[k] = 0
    BY <1>1 DEF BaseInv, RunInv
  <2> QED BY <1>1, <1>2, <1>3, <2>1 DEF Where
<1>8. k \in Threads
  BY <1>1 DEF Threads
<1> QED BY <1>4, <1>6, <1>7, <1>8, AbstractMove DEF Abstract!Fork, Threads

LEMMA StepBegin ==
    ASSUME OneCreator, BaseInv, NEW c \in Workers, CoreStep(c), EnterTask(c)
    PROVE  \E k \in Threads : Abstract!Begin(k)
<1>0. c \in Cores /\ c # 0 /\ pc \in [Cores -> Labels] /\ task \in [Cores -> Tasks] /\ runs \in [Tasks -> Nat]
      /\ InTask = Calling
  BY Constants DEF BaseInv, BaseTypes, InTask, Calling, Creating, Filling
<1> PICK k \in Tasks : k = entryp[c]
  BY Entering
<1>1. /\ pc[c] = "enter" /\ k # 0 /\ Created(k) /\ runs[k] = 0 /\ runs' = [runs EXCEPT ![k] = 1]
      /\ pc' = [pc EXCEPT ![c] = "body"] /\ task' = [task EXCEPT ![c] = k] /\ done' = done /\ got' = got
  BY Entering DEF EnterTask
<1>2. \A j \in Tasks : Created(j)' <=> Created(j)
  BY <1>0, CreatedSame
<1>3. Executing(k)'
  BY <1>0, <1>1, LabelType DEF Executing
<1>4. \A j \in Threads \ {k} : Executing(j)' <=> Executing(j)
  <2>1. \A d \in Workers \ {c} : pc'[d] = pc[d] /\ task'[d] = task[d]
    BY <1>0, <1>1
  <2>2. pc[c] \notin InTask /\ task'[c] = k
    BY <1>0, <1>1, LabelsApart
  <2> QED BY <2>1, <2>2 DEF Executing
<1>5. \A j \in Threads \ {k} : Where(j)' = Where(j)
  <2>1. \A j \in Threads \ {k} : runs'[j] = runs[j]
    BY <1>0, <1>1 DEF Threads
  <2> QED BY <1>2, <1>4, <2>1, WhereStays DEF Threads
<1>6. Where(k) = "created" /\ Where(k)' = "running"
  <2>1. runs'[k] = 1
    BY <1>0, <1>1
  <2> QED BY <1>1, <1>2, <1>3, <2>1 DEF Where
<1>7. k \in Threads /\ \A j \in Threads : done'[j] = done[j] /\ got'[j] = got[j]
  BY <1>1 DEF Threads
<1> QED BY <1>5, <1>6, <1>7, AbstractMove DEF Abstract!Begin, Threads

LEMMA StepEnd ==
    ASSUME OneCreator, BaseInv, NEW c \in Workers, CoreStep(c), Works(c), pc[c] \in Calling, pc'[c] \in Ending
    PROVE  \E k \in Threads : Abstract!End(k)
<1>0. c \in Cores /\ c # 0 /\ InTask = Calling /\ ~EnterTask(c) /\ pc'[c] \notin Calling
  BY Constants, LabelsApart, Entering DEF InTask, Calling, Creating, Filling
<1> PICK k \in Tasks : k = task[c]
  BY <1>0 DEF BaseInv, BaseTypes
<1>1. k # 0 /\ runs[k] = 1 /\ Created(k) /\ runs' = runs /\ done' = done /\ got' = got /\ task'[c] = k
      /\ done[k] = Len(Plan[k])
  <2>1. k # 0 /\ runs[k] = 1 /\ Created(k)
    BY DEF BaseInv, ControlInv, RunInv
  <2>2. runs' = runs /\ task' = task /\ done' = done /\ got' = got
    BY <1>0, RunShape, WorkShape
  <2>3. done'[task'[c]] = Len(Plan[task'[c]])
    BY <1>0, StepBase DEF BaseInv, ControlInv
  <2> QED BY <2>1, <2>2, <2>3
<1>2. \A j \in Tasks : Created(j)' <=> Created(j)
  BY <1>0, CreatedSame
<1>3. \A d \in Workers \ {c} : d \in Cores /\ pc'[d] = pc[d] /\ task'[d] = task[d]
  BY <1>0, Others, Constants
<1>4. Executing(k)
  BY <1>0 DEF Executing
<1>5. ~Executing(k)'
  <2>1. \A d \in Workers \ {c} : ~(pc[d] \in Calling /\ task[d] = k)
    BY <1>0, <1>3 DEF BaseInv, RunInv
  <2>2. \A d \in Workers : ~(pc'[d] \in Calling /\ task'[d] = k)
    BY <1>0, <1>3, <2>1
  <2> QED BY <1>0, <2>2 DEF Executing
<1>6. \A j \in Threads \ {k} : Executing(j)' <=> Executing(j)
  BY <1>1, <1>3 DEF Executing
<1>7. \A j \in Threads \ {k} : Where(j)' = Where(j)
  BY <1>1, <1>2, <1>6, WhereStays DEF Threads
<1>8. Where(k) = "running" /\ Where(k)' = "ended"
  BY <1>1, <1>2, <1>4, <1>5 DEF Where
<1>9. k \in Threads /\ \A j \in Threads : done'[j] = done[j] /\ got'[j] = got[j]
  BY <1>1 DEF Threads
<1>10. [j \in Threads |-> done[j]][k] = [j \in Tasks |-> Len(Plan[j])][k]
  BY <1>1, <1>9
<1> QED BY <1>7, <1>8, <1>9, <1>10, AbstractMove DEF Abstract!End, Threads

LEMMA EndsStay ==
    ASSUME OneCreator, BaseInv, NEW c \in Cores, CoreStep(c), Ends(c)
    PROVE  \A k \in Threads : Where(k)' = Where(k)
<1>1. pc[c] \in Calling /\ pc'[c] = "body" /\ ~(c \in Workers /\ EnterTask(c)) /\ ~SetCore(c)
  <2>1. pc[c] \in {"body", "join_read", "key_store"} /\ pc' = [pc EXCEPT ![c] = "body"]
    BY EndShape
  <2> QED BY <2>1, Entering, LabelType DEF SetCore, Goto, BaseInv, BaseTypes
<1>2. runs' = runs
  BY <1>1, RunShape
<1>3. \A k : Executing(k)' <=> Executing(k)
  BY <1>1, ExecutingStays DEF Ending
<1>4. \A k \in Threads : Created(k)' <=> Created(k)
  BY <1>1, CreatedSame DEF Threads
<1> QED BY <1>2, <1>3, <1>4, WhereStays

LEMMA StepMakeCall ==
    ASSUME OneCreator, JoinsAreSafe, BaseInv, JoinInv, NEW c \in Workers, CoreStep(c), Ends(c)
    PROVE  \E k \in Threads : Abstract!MakeCall(k)
<1>0. c \in Cores /\ c # 0
  BY Constants
<1> PICK k \in Tasks : k = task[c]
  BY <1>0 DEF BaseInv, BaseTypes
<1>1. pc[c] \in Calling /\ done[k] < Len(Plan[k]) /\ done' = [done EXCEPT ![k] = @ + 1] /\ done \in [Tasks -> Nat]
  BY <1>0, EndShape, LabelType DEF BaseInv, BaseTypes
<1>2. k # 0 /\ runs[k] = 1 /\ Created(k)
  BY <1>1 DEF BaseInv, ControlInv, RunInv
<1>3. Where(k) = "running"
  <2>1. Executing(k)
    BY <1>1 DEF Executing, InTask, Calling, Creating, Filling
  <2> QED BY <1>2, <2>1 DEF Where
<1>4. got' = got
  BY <1>0, Returned DEF Ends, AwaitOther, KeyStore, StoreSpecific, TooManyKeys, ReadSpecific
<1>5. /\ k \in Threads /\ \A j \in Threads : got'[j] = got[j]
      /\ done'[k] = done[k] + 1 /\ \A j \in Threads \ {k} : done'[j] = done[j]
  BY <1>1, <1>2, <1>4 DEF Threads
<1>6. \A j \in Threads : Where(j)' = Where(j)
  BY <1>0, EndsStay
<1> QED BY <1>1, <1>3, <1>5, <1>6, AbstractCall

(* A thread that is joined is through, and no core executes it: the one that *)
(* did would own the thread's slot still.                                    *)
LEMMA StepJoinEnded ==
    ASSUME OneCreator, JoinsAreSafe, BaseInv, JoinInv, OwnerInv, CoreStep(0), JoinRead(0)
    PROVE  \E k \in Threads : Abstract!JoinEnded(k)
<1>0. 0 \in Cores /\ 0 \in Tasks /\ pc[0] = "join_read" /\ pc[0] \notin Booting
  BY Constants, Returned DEF Booting
<1> PICK k \in Tasks : /\ Created(k) /\ core[newt[k]] = -1
                       /\ k \notin ExitTasks => arg[newt[k]] = Result(k)
                       /\ got' = [got EXCEPT ![k] = arg[newt[k]]]
  BY <1>0, Returned
<1>1. k # 0 /\ k \in Threads
  BY DEF Created, Creates, OneCreator, Threads
<1>9. Tid(k) = newt[k]
  BY <1>0 DEF Tid
<1>2. newt[k] \in Slots /\ newt[k] # -1 /\ arg[newt[k]] \in Values /\ got \in [Tasks -> Values]
  <2>1. newt[k] \in Slots /\ arg[newt[k]] \in Values /\ got \in [Tasks -> Values]
    BY DEF BaseInv, BaseTypes
  <2> QED BY <2>1 DEF Slots
<1>3. runs[k] = 1
  BY <1>1, <1>2, <1>9 DEF OwnerInv, Through
<1>4. ~Executing(k)
  <2> SUFFICES ASSUME NEW d \in Workers, pc[d] \in Calling, task[d] = k PROVE FALSE
    BY DEF Executing, InTask, Calling, Creating, Filling
  <2>1. d \in Slots \ {0} /\ d # -1 /\ d \in Cores
    BY Constants DEF Workers, Cores
  <2>2. core[d] = d /\ entryp[d] = k
    BY DEF BaseInv, RunInv, JoinInv, OwnTaskInv
  <2>3. Tid(entryp[d]) = d
    BY <1>0, <2>1, <2>2 DEF BaseInv, TableInv, SlotInv
  <2> QED BY <1>9, <2>1, <2>2, <2>3
<1>5. Where(k) = "ended"
  BY <1>3, <1>4 DEF Where
<1>6. \A j \in Threads : Where(j)' = Where(j)
  BY <1>0, EndsStay DEF Ends
<1>7. /\ got'[k] = arg[newt[k]] /\ arg[newt[k]] \in (IF k \in ExitTasks THEN Values ELSE {Result(k)})
      /\ \A j \in Threads \ {k} : got'[j] = got[j]
  BY <1>2 DEF Threads
<1>8. \A j \in Threads : done'[j] = done[j]
  BY <1>0 DEF JoinRead, CallDone, Threads, BaseInv, BaseTypes, ControlInv
<1> PICK v \in (IF k \in ExitTasks THEN Values ELSE {Result(k)}) : got'[k] = v
  BY <1>7
<1> QED BY <1>1, <1>5, <1>6, <1>7, <1>8, AbstractJoin

LEMMA StepForkJoin ==
    ASSUME OneCreator, JoinsAreSafe, BaseInv, JoinInv, OwnerInv, NEW c \in Cores, CoreStep(c)
    PROVE  Abstract!Next \/ AbstractVars' = AbstractVars
<1>0. \/ Abstract!Next
      \/ ~\E k \in Threads : \/ Abstract!Fork(k) \/ Abstract!Begin(k) \/ Abstract!MakeCall(k)
                             \/ Abstract!End(k) \/ Abstract!JoinEnded(k)
  BY DEF Abstract!Next, Threads
<1>1. CASE c = 0 /\ SetCore(0)
  BY <1>0, <1>1, StepFork
<1>2. CASE c \in Workers /\ EnterTask(c)
  BY <1>0, <1>2, StepBegin
<1>3. CASE Ends(c)
  <2>1. CASE c \in Workers
    BY <1>0, <1>3, <2>1, StepMakeCall
  <2>2. CASE c = 0 /\ JoinRead(0)
    BY <1>0, <2>2, StepJoinEnded
  <2>3. CASE c = 0 /\ ~JoinRead(0)
    <3>1. got' = got
      BY <1>3, <2>3 DEF Ends, AwaitOther, KeyStore, StoreSpecific, TooManyKeys, ReadSpecific
    <3>2. \A k \in Threads : done'[k] = done[k]
      <4>1. done \in [Tasks -> Nat] /\ task[c] = 0
        BY <2>3 DEF BaseInv, BaseTypes, ControlInv
      <4>2. done' = [done EXCEPT ![0] = @ + 1]
        BY <1>3, <4>1, EndShape
      <4> QED BY <4>1, <4>2 DEF Threads
    <3> QED BY <1>3, <3>1, <3>2, EndsStay, AbstractStutter
  <2> QED BY <2>1, <2>2, <2>3, Constants
<1>4. CASE c \in Workers /\ Works(c) /\ pc[c] \in Calling /\ pc'[c] \in Ending
  BY <1>0, <1>4, StepEnd
<1>5. CASE /\ ~(c = 0 /\ SetCore(0)) /\ ~(c \in Workers /\ EnterTask(c)) /\ ~Ends(c)
           /\ ~(c \in Workers /\ Works(c) /\ pc[c] \in Calling /\ pc'[c] \in Ending)
  <2>1. ~(pc[c] \in Calling /\ pc'[c] \in Ending)
    <3> SUFFICES ASSUME pc[c] \in Calling, pc'[c] \in Ending PROVE FALSE
      OBVIOUS
    <3>1. pc \in [Cores -> Labels] /\ ControlInv'
      BY StepBase DEF BaseInv, BaseTypes
    <3>2. c # 0
      BY <3>1 DEF ControlInv, Booting, Calling, Creating, Filling, Ending
    <3>3. c \in Workers /\ ~Works(c)
      BY <1>5, <3>2, Constants
    <3>4. Begins(c)
      BY <1>5, <3>2, <3>3, Steps
    <3> QED BY <3>1, <3>4, BeginShape DEF Ending
  <2>2. got' = got /\ \A k \in Threads : done'[k] = done[k]
    BY <1>5, QuietCalls
  <2>3. runs' = runs
    BY <1>5, RunShape
  <2>4. \A k : Executing(k)' <=> Executing(k)
    BY <1>5, <2>1, ExecutingStays
  <2>5. \A k \in Threads : Created(k)' <=> Created(k)
    BY <1>5, CreatedSame DEF Threads
  <2>6. \A k \in Threads : Where(k)' = Where(k)
    BY <2>3, <2>4, <2>5, WhereStays
  <2> QED BY <2>2, <2>6, AbstractStutter
<1> QED BY <1>1, <1>2, <1>3, <1>4, <1>5

(* Under the same rules as JoinReturns, the table and the cores do what      *)
(* forking and joining promises: a thread begins once and not before         *)
(* djgthread_create has stored the core of its slot (it may begin before     *)
(* djgthread_create returns), and djgthread_join returns only when all its   *)
(* calls are made.                                                           *)
THEOREM ThreadsForkAndJoin ==
    ASSUME OneCreator, JoinsAreSafe
    PROVE  Spec => ImplementsForkJoin
<1> DEFINE Inv == BaseInv /\ JoinInv /\ OwnerInv
<1>1. Init => Inv /\ Abstract!Init
  <2> SUFFICES ASSUME Init PROVE Inv /\ Abstract!Init
    OBVIOUS
  <2>1. \A k \in Tasks : ~Created(k)
    BY PlanType, Constants DEF Init, Created, Effective
  <2>2. \A k \in Tasks \ {0} : Where(k) = "absent" /\ done[k] = 0 /\ got[k] = Nothing
    BY <2>1 DEF Where, Init
  <2>3. OwnerInv
    BY <2>1 DEF OwnerInv
  <2> QED BY <2>2, <2>3, InitBase, InitJoin DEF Abstract!Init
<1>2. UNCHANGED vars => AbstractVars' = AbstractVars
  BY DEF vars, client, AbstractVars, Where, Created, Effective, Executing
<1>3. Inv /\ UNCHANGED vars => OwnerInv'
  BY DEF vars, client, table, OwnerInv, Created, Effective, Tid, Subject, Through
<1>4. Inv /\ UNCHANGED vars => JoinInv'
  <2> SUFFICES ASSUME JoinInv, UNCHANGED vars PROVE JoinInv'
    OBVIOUS
  <2> USE DEF vars, client, table
  <2>1. HeldInv' /\ ResultInv'
    BY DEF JoinInv, HeldInv, ResultInv
  <2>2. OwnTaskInv'
    BY DEF JoinInv, OwnTaskInv
  <2>3. \A k : (Created(k)' <=> Created(k)) /\ (Awaited(k)' <=> Awaited(k)) /\ Tid(k)' = Tid(k)
    BY DEF Created, Effective, Awaited, Tid, Subject
  <2>4. KeptInv'
    BY <2>3 DEF JoinInv, KeptInv, Kept
  <2>5. JoiningInv'
    BY <2>3 DEF JoinInv, JoiningInv, Subject, Created, Effective
  <2> QED BY <2>1, <2>2, <2>4, <2>5 DEF JoinInv
<1>5. Inv /\ [Next]_vars => Inv'
  BY <1>3, <1>4, StepBase, StutterBase, StepJoin, StepOwner DEF Next
<1>6. Inv /\ [Next]_vars => [Abstract!Next]_AbstractVars
  BY <1>2, StepForkJoin DEF Next
<1> QED BY <1>1, <1>5, <1>6, PTL DEF Spec, ImplementsForkJoin, Abstract!Spec, AbstractVars, Threads

=============================================================================

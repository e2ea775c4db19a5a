----------------------------- MODULE DjgThreads -----------------------------
(* The thread table of djgthreads (djgthread.c): _check_start, the work    *)
(* loop _extra_cores that every core but the first runs, djgthread_create, *)
(* djgthread_join, djgthread_exit and thread-specific data.  One thread    *)
(* runs per core and thread i runs on core i.                              *)
(*                                                                         *)
(* A task is a function passed to djgthread_create; task 0 is main.  What  *)
(* the tasks do is a parameter: Plan[k] is the sequence of thread calls of *)
(* task k.  An "await" stands for the program's own synchronisation, such  *)
(* as the barrier of tests/barriertest.c that no thread passes before main *)
(* has created them all.                                                   *)
EXTENDS Integers, Sequences, FiniteSets

CONSTANTS
    NCores,      \* cores of the platform, core 0 among them
    MaxThreads,  \* MAXTHREADS, the size of _djg_Threads
    NTasks,      \* tasks 1 .. NTasks can be created
    Plan,        \* the calls each task makes
    ExitTasks,   \* the tasks that end with djgthread_exit
    NKeys        \* the program's variables for keys of thread-specific data

Cores == 0 .. NCores - 1
Workers == Cores \ {0}
Tasks == 0 .. NTasks
Slots == 0 .. MaxThreads - 1

KeyVars == 1 .. NKeys
Fields == {0, 1}

\* Calls of the form Create(k), Join(k), Await(k, i), and those that make the
\* key of variable v, store under it and read it.
Create(k) == [call |-> "create", task |-> k, upto |-> 0]
Join(k) == [call |-> "join", task |-> k, upto |-> 0]
Await(k, i) == [call |-> "await", task |-> k, upto |-> i]
KeyCreate(v) == [call |-> "key_create", task |-> 0, upto |-> v]
SetSpecific(v) == [call |-> "set", task |-> 0, upto |-> v]
GetSpecific(v) == [call |-> "get", task |-> 0, upto |-> v]
Calls == [call : {"create", "join", "await"}, task : Tasks, upto : Nat]
         \cup [call : {"key_create", "set", "get"}, task : {0}, upto : KeyVars]

ASSUME CoresAssumption == NCores \in Nat /\ NCores >= 2
ASSUME MaxThreadsAssumption == MaxThreads \in Nat /\ MaxThreads >= NCores
ASSUME NTasksAssumption == NTasks \in Nat
ASSUME NKeysAssumption == NKeys \in Nat
ASSUME PlanAssumption == Plan \in [Tasks -> Seq(Calls)]

\* The contents of a slot's "arg" field: nothing, what task k was created
\* with, what it returned, or the value of a function that called
\* djgthread_exit and then fell off its end.
Nothing == [kind |-> "nothing", task |-> 0]
Arg(k) == [kind |-> "arg", task |-> k]
Result(k) == [kind |-> "result", task |-> k]
Leftover(k) == [kind |-> "leftover", task |-> k]
Values == [kind : {"nothing", "arg", "result", "leftover"}, task : Tasks]

\* What task k stores in its n-th call; a null pointer.
Pointer(k, n) == <<k, n>>
Null == Pointer(0, 0)

VARIABLES
    started,     \* _djg_started
    hwm,         \* _djg_core_hwm
    nexttid,     \* _djg_nexttid
    core,        \* _djg_Threads[i].core
    arg,         \* _djg_Threads[i].arg
    entryp,      \* _djg_Threads[i].entryp, as the task it starts
    current,     \* _djg_cpu_current
    pc,          \* where each core is
    task,        \* the task each core executes
    poll,        \* the loop variable i of _extra_cores
    slot,        \* the variable tid of djgthread_create
    done,        \* the calls each task has completed
    newt,        \* the identifier that djgthread_create stored for a task
    got,         \* what djgthread_join returned for a task
    runs,        \* history: how often each task has been entered
    keyid,       \* the static variable of djgthread_key_create
    fresh,       \* what a core's last load of keyid returned
    keyvar,      \* the program's key variables
    key,         \* key[i][0], key[i][1]: _djg_Threads[i].key0 and key1
    specific,    \* the same for specific0 and specific1
    read         \* what djgthread_getspecific last returned to a task

table == <<nexttid, core, arg, entryp>>
client == <<done, newt, got, runs>>
tsd == <<keyid, fresh, keyvar, key, specific, read>>
vars == <<started, hwm, table, current, pc, task, poll, slot, client, tsd>>

Goto(c, from, to) == /\ pc[c] = from
                     /\ pc' = [pc EXCEPT ![c] = to]

\* The next call of the task that core c executes, and the task it is about.
AtCall(c, call) == /\ pc[c] = "body"
                   /\ done[task[c]] < Len(Plan[task[c]])
                   /\ Plan[task[c]][done[task[c]] + 1].call = call
Subject(c) == Plan[task[c]][done[task[c]] + 1]
CallDone(c) == done' = [done EXCEPT ![task[c]] = @ + 1]

-----------------------------------------------------------------------------
\* The zeroed data segment; every core begins in _argv_main.
Init == /\ started = FALSE
        /\ hwm = 0
        /\ nexttid = 1
        /\ core = [i \in Slots |-> 0]
        /\ arg = [i \in Slots |-> Nothing]
        /\ entryp = [i \in Slots |-> 0]
        /\ current = [c \in Cores |-> 0]
        /\ pc = [c \in Cores |-> IF c = 0 THEN "check_start" ELSE "reset"]
        /\ task = [c \in Cores |-> 0]
        /\ poll = [c \in Cores |-> 0]
        /\ slot = [c \in Cores |-> 0]
        /\ done = [k \in Tasks |-> 0]
        /\ newt = [k \in Tasks |-> 0]
        /\ got = [k \in Tasks |-> Nothing]
        /\ runs = [k \in Tasks |-> 0]
        /\ keyid = 0 /\ fresh = [c \in Cores |-> 0]
        /\ keyvar = [v \in KeyVars |-> 0]
        /\ key = [i \in Slots |-> [f \in Fields |-> 0]]
        /\ specific = [i \in Slots |-> [f \in Fields |-> Null]]
        /\ read = [k \in Tasks |-> Null]

\* _check_start sets the flag first and fills the table afterwards.
SetStarted == /\ Goto(0, "check_start", "fill_table")
              /\ started' = TRUE
              /\ UNCHANGED <<tsd, hwm, table, current, task, poll, slot, client>>

FillTable == /\ pc[0] = "fill_table"
             /\ slot[0] < MaxThreads
             /\ core' = [core EXCEPT ![slot[0]] = -1]
             /\ slot' = [slot EXCEPT ![0] = @ + 1]
             /\ UNCHANGED <<tsd, started, hwm, nexttid, arg, entryp, current, pc, task, poll, client>>

TakeCoreZero == /\ Goto(0, "fill_table", "body")
                /\ slot[0] = MaxThreads
                /\ core' = [core EXCEPT ![0] = 0]
                /\ UNCHANGED <<tsd, started, hwm, nexttid, arg, entryp, current, task, poll, slot, client>>

-----------------------------------------------------------------------------
\* _extra_cores, up to its work loop.
ResetCurrent(c) == /\ Goto(c, "reset", "await_start")
                   /\ current' = [current EXCEPT ![c] = -1]
                   /\ UNCHANGED <<tsd, started, hwm, table, task, poll, slot, client>>

SeeStarted(c) == /\ Goto(c, "await_start", "announce")
                 /\ started
                 /\ UNCHANGED <<tsd, started, hwm, table, current, task, poll, slot, client>>

\* A form that takes the mark for the number of cores.
AnnounceNext(c) == /\ Goto(c, "announce", "poll")
                   /\ hwm' = IF c >= hwm THEN c + 1 ELSE hwm
                   /\ UNCHANGED <<tsd, started, table, current, task, poll, slot, client>>

Announce(c) == /\ Goto(c, "announce", "poll")
               /\ hwm' = IF c > hwm THEN c ELSE hwm
               /\ UNCHANGED <<tsd, started, table, current, task, poll, slot, client>>

\* One turn of the polling loop: somebody else's slot, the end of the table,
\* or work for this core.
PollOther(c) == /\ pc[c] = "poll"
                /\ poll[c] < nexttid
                /\ core[poll[c]] # c
                /\ poll' = [poll EXCEPT ![c] = @ + 1]
                /\ UNCHANGED <<tsd, started, hwm, table, current, pc, task, slot, client>>

\* A form that polls the table only once.
PollOnce(c) == /\ pc[c] = "poll"
               /\ poll[c] >= nexttid
               /\ UNCHANGED vars

PollWrap(c) == /\ pc[c] = "poll"
               /\ poll[c] >= nexttid
               /\ poll' = [poll EXCEPT ![c] = 0]
               /\ UNCHANGED <<tsd, started, hwm, table, current, pc, task, slot, client>>

PollFound(c) == /\ Goto(c, "poll", "enter")
                /\ poll[c] < nexttid
                /\ core[poll[c]] = c
                /\ current' = [current EXCEPT ![c] = poll[c]]
                /\ UNCHANGED <<tsd, started, hwm, table, task, poll, slot, client>>

\* The call of entryp.
EnterTask(c) == /\ Goto(c, "enter", "body")
                /\ task' = [task EXCEPT ![c] = entryp[poll[c]]]
                /\ runs' = [runs EXCEPT ![entryp[poll[c]]] = @ + 1]
                /\ UNCHANGED <<tsd, started, hwm, table, current, poll, slot, done, newt, got>>

\* A form that frees the slot before it stores the value.
RetireFirst(c) == /\ Goto(c, "body", "retire")
                  /\ c # 0
                  /\ done[task[c]] = Len(Plan[task[c]])
                  /\ core' = [core EXCEPT ![poll[c]] = -1]
                  /\ UNCHANGED <<tsd, started, hwm, nexttid, arg, entryp, current, task, poll, slot, client>>

\* The function returns and its value is stored ...
ReturnTask(c) == /\ Goto(c, "body", "retire")
                 /\ c # 0
                 /\ done[task[c]] = Len(Plan[task[c]])
                 /\ task[c] \notin ExitTasks
                 /\ arg' = [arg EXCEPT ![poll[c]] = Result(task[c])]
                 /\ UNCHANGED <<tsd, started, hwm, nexttid, core, entryp, current, task, poll, slot, client>>

\* A form that forgets to free it.
RetireKeeps(c) == /\ Goto(c, "retire", "poll")
                  /\ poll' = [poll EXCEPT ![c] = @ + 1]
                  /\ UNCHANGED <<tsd, started, hwm, table, current, task, slot, client>>

\* ... and then the slot is freed, and polling goes on behind it.
Retire(c) == /\ Goto(c, "retire", "poll")
             /\ core' = [core EXCEPT ![poll[c]] = -1]
             /\ poll' = [poll EXCEPT ![c] = @ + 1]
             /\ UNCHANGED <<tsd, started, hwm, nexttid, arg, entryp, current, task, slot, client>>

-----------------------------------------------------------------------------
\* djgthread_exit at the end of a task: store the value, free the slot; then
\* it returns to the task, whose function returns to _extra_cores.
ExitStore(c) == /\ Goto(c, "body", "exit_free")
                /\ c # 0
                /\ done[task[c]] = Len(Plan[task[c]])
                /\ task[c] \in ExitTasks
                /\ arg' = [arg EXCEPT ![current[c]] = Result(task[c])]
                /\ UNCHANGED <<tsd, started, hwm, nexttid, core, entryp, current, task, poll, slot, client>>

ExitFree(c) == /\ Goto(c, "exit_free", "exit_return")
               /\ core' = [core EXCEPT ![current[c]] = -1]
               /\ UNCHANGED <<tsd, started, hwm, nexttid, arg, entryp, current, task, poll, slot, client>>

ExitReturn(c) == /\ Goto(c, "exit_return", "retire")
                 /\ arg' = [arg EXCEPT ![poll[c]] = Leftover(task[c])]
                 /\ UNCHANGED <<tsd, started, hwm, nexttid, core, entryp, current, task, poll, slot, client>>

-----------------------------------------------------------------------------
\* djgthread_create: search the table, without a lock, for a free slot.
CreateCall(c) == /\ AtCall(c, "create")
                 /\ pc' = [pc EXCEPT ![c] = "search"]
                 /\ slot' = [slot EXCEPT ![c] = 0]
                 /\ UNCHANGED <<tsd, started, hwm, table, current, task, poll, client>>

SlotBusy(c) == /\ pc[c] = "search"
               /\ slot[c] < nexttid
               /\ core[slot[c]] >= 0
               /\ slot' = [slot EXCEPT ![c] = @ + 1]
               /\ UNCHANGED <<tsd, started, hwm, table, current, pc, task, poll, client>>

SlotFree(c) == /\ Goto(c, "search", "set_arg")
               /\ slot[c] < nexttid
               /\ core[slot[c]] < 0
               /\ UNCHANGED <<tsd, started, hwm, table, current, task, poll, slot, client>>

\* Every slot is in use, and a core beyond the last slot has announced itself.
NeedSlot(c) == /\ Goto(c, "search", "grow")
               /\ slot[c] = nexttid
               /\ slot[c] <= hwm
               /\ UNCHANGED <<tsd, started, hwm, table, current, task, poll, slot, client>>

\* nexttid += 1 is a load and a store; what the load saw may be out of date.
GrowTable(c) == /\ Goto(c, "grow", "set_arg")
                /\ nexttid' \in {slot[c] + 1, nexttid + 1}
                /\ UNCHANGED <<tsd, started, hwm, core, arg, entryp, current, task, poll, slot, client>>

\* No core to spare: yield and search again.
SearchAgain(c) == /\ pc[c] = "search"
                  /\ slot[c] >= nexttid
                  /\ slot[c] # nexttid \/ slot[c] > hwm
                  /\ slot' = [slot EXCEPT ![c] = 0]
                  /\ UNCHANGED <<tsd, started, hwm, table, current, pc, task, poll, client>>

\* A form that leaves the keys of the slot's last thread where they are.
SetArgOnly(c) == /\ Goto(c, "set_arg", "set_entry")
                 /\ arg' = [arg EXCEPT ![slot[c]] = Arg(Subject(c).task)]
                 /\ UNCHANGED <<tsd, started, hwm, nexttid, core, entryp, current, task, poll, slot, client>>

\* The keys are cleared, what was stored under them is not.
SetArg(c) == /\ Goto(c, "set_arg", "set_entry")
             /\ key' = [key EXCEPT ![slot[c]] = [f \in Fields |-> 0]]
             /\ arg' = [arg EXCEPT ![slot[c]] = Arg(Subject(c).task)]
             /\ UNCHANGED <<started, hwm, nexttid, core, entryp, current, task, poll, slot, client,
                            keyid, fresh, keyvar, specific, read>>

SetEntry(c) == /\ Goto(c, "set_entry", "set_core")
               /\ entryp' = [entryp EXCEPT ![slot[c]] = Subject(c).task]
               /\ UNCHANGED <<tsd, started, hwm, nexttid, core, arg, current, task, poll, slot, client>>

\* The store that hands the slot to its core, which may find it and call the
\* function before djgthread_create has returned ...
SetCore(c) == /\ Goto(c, "set_core", "set_newt")
              /\ core' = [core EXCEPT ![slot[c]] = slot[c]]
              /\ UNCHANGED <<tsd, started, hwm, nexttid, arg, entryp, current, task, poll, slot, client>>

\* ... and the identifier stored for the caller, and the return.
SetNewt(c) == /\ Goto(c, "set_newt", "body")
              /\ newt' = [newt EXCEPT ![Subject(c).task] = slot[c]]
              /\ CallDone(c)
              /\ UNCHANGED <<tsd, started, hwm, table, current, task, poll, slot, got, runs>>

-----------------------------------------------------------------------------
\* A form that does not wait.
JoinSeeAny(c) == /\ AtCall(c, "join")
                 /\ pc' = [pc EXCEPT ![c] = "join_read"]
                 /\ UNCHANGED <<tsd, started, hwm, table, current, task, poll, slot, client>>

\* djgthread_join: wait until the slot is free, then read its arg field.
JoinSeeFree(c) == /\ AtCall(c, "join")
                  /\ pc' = [pc EXCEPT ![c] = "join_read"]
                  /\ core[newt[Subject(c).task]] < 0
                  /\ UNCHANGED <<tsd, started, hwm, table, current, task, poll, slot, client>>

JoinRead(c) == /\ Goto(c, "join_read", "body")
               /\ got' = [got EXCEPT ![Subject(c).task] = arg[newt[Subject(c).task]]]
               /\ CallDone(c)
               /\ UNCHANGED <<tsd, started, hwm, table, current, task, poll, slot, newt, runs>>

\* The program's own synchronisation.
AwaitOther(c) == /\ AtCall(c, "await")
                 /\ done[Subject(c).task] >= Subject(c).upto
                 /\ CallDone(c)
                 /\ UNCHANGED <<tsd, started, hwm, table, current, pc, task, poll, slot, newt, got, runs>>

-----------------------------------------------------------------------------
\* djgthread_key_create: load and store of keyid++.  A key is 42 + 100 + keyid
\* in the code; what matters is that it is not zero.
KeyLoad(c) == /\ AtCall(c, "key_create")
              /\ pc' = [pc EXCEPT ![c] = "key_store"]
              /\ fresh' = [fresh EXCEPT ![c] = keyid]
              /\ UNCHANGED <<started, hwm, table, current, task, poll, slot, client,
                             keyid, keyvar, key, specific, read>>

KeyStore(c) == /\ Goto(c, "key_store", "body")
               /\ keyid' = fresh[c] + 1
               /\ keyvar' = [keyvar EXCEPT ![Subject(c).upto] = fresh[c] + 1]
               /\ CallDone(c)
               /\ UNCHANGED <<started, hwm, table, current, task, poll, slot, newt, got, runs,
                              fresh, key, specific, read>>

\* The first field of the calling thread whose key is one of ks.
FieldsWith(c, ks) == {f \in Fields : key[current[c]][f] \in ks}
FirstWith(c, ks) == IF 0 \in FieldsWith(c, ks) THEN 0 ELSE 1

\* djgthread_setspecific: under a key the thread has, or in a field without one ...
StoreSpecific(c) ==
    LET k == keyvar[Subject(c).upto]
        f == FirstWith(c, {k, 0})
    IN  /\ AtCall(c, "set")
        /\ FieldsWith(c, {k, 0}) # {}
        /\ key' = [key EXCEPT ![current[c]][f] = k]
        /\ specific' = [specific EXCEPT ![current[c]][f] = Pointer(task[c], done[task[c]] + 1)]
        /\ CallDone(c)
        /\ UNCHANGED <<started, hwm, table, current, pc, task, poll, slot, newt, got, runs,
                       keyid, fresh, keyvar, read>>

\* ... and nowhere, without telling the caller, when both fields have other keys.
TooManyKeys(c) == /\ AtCall(c, "set")
                  /\ FieldsWith(c, {keyvar[Subject(c).upto], 0}) = {}
                  /\ CallDone(c)
                  /\ UNCHANGED <<started, hwm, table, current, pc, task, poll, slot, newt, got, runs, tsd>>

\* djgthread_getspecific: null for a key that the thread has not stored under.
ReadSpecific(c) ==
    LET k == keyvar[Subject(c).upto]
    IN  /\ AtCall(c, "get")
        /\ read' = [read EXCEPT ![task[c]] = IF FieldsWith(c, {k}) = {} THEN Null
                                             ELSE specific[current[c]][FirstWith(c, {k})]]
        /\ CallDone(c)
        /\ UNCHANGED <<started, hwm, table, current, pc, task, poll, slot, newt, got, runs,
                       keyid, fresh, keyvar, key, specific>>

-----------------------------------------------------------------------------
\* _extra_cores on core c.
WorkLoop(c) == \/ ResetCurrent(c) \/ SeeStarted(c) \/ Announce(c)
               \/ PollOther(c) \/ PollWrap(c) \/ PollFound(c)
               \/ EnterTask(c) \/ ReturnTask(c) \/ Retire(c)

\* The library calls of the task on core c.
TaskStep(c) == \/ CreateCall(c) \/ SlotBusy(c) \/ SlotFree(c) \/ NeedSlot(c)
               \/ GrowTable(c) \/ SearchAgain(c)
               \/ SetArg(c) \/ SetEntry(c) \/ SetCore(c) \/ SetNewt(c)
               \/ JoinSeeFree(c) \/ JoinRead(c) \/ AwaitOther(c)
               \/ ExitStore(c) \/ ExitFree(c) \/ ExitReturn(c)
               \/ KeyLoad(c) \/ KeyStore(c)
               \/ StoreSpecific(c) \/ TooManyKeys(c) \/ ReadSpecific(c)

CheckStart == SetStarted \/ FillTable \/ TakeCoreZero

CoreStep(c) == \/ c = 0 /\ CheckStart
               \/ c # 0 /\ WorkLoop(c)
               \/ TaskStep(c)

Next == \E c \in Cores : CoreStep(c)

Spec == Init /\ [][Next]_vars

\* Every core keeps executing.
FairSpec == Spec /\ \A c \in Cores : WF_vars(CoreStep(c))

-----------------------------------------------------------------------------
(* What a program must do for the properties below to hold.  The library     *)
(* does not check any of it.                                                 *)

\* Main's n-th call creates task k, joins it, makes the key of variable v.
Creates(n, k) == n \in DOMAIN Plan[0] /\ Plan[0][n].call = "create" /\ Plan[0][n].task = k
Joins(n, k) == n \in DOMAIN Plan[0] /\ Plan[0][n].call = "join" /\ Plan[0][n].task = k
MakesKey(n, v) == n \in DOMAIN Plan[0] /\ Plan[0][n].call = "key_create" /\ Plan[0][n].upto = v

OnlyMain(call) == \A k \in Tasks \ {0} : \A n \in DOMAIN Plan[k] : Plan[k][n].call # call

\* Main alone creates threads, and each once.
OneCreator ==
    /\ OnlyMain("create")
    /\ \A k \in Tasks : \A m, n \in DOMAIN Plan[0] :
           Creates(m, k) /\ Creates(n, k) => m = n /\ k # 0

\* Main alone makes keys, and one for each variable.
OneKeyMaker ==
    /\ OnlyMain("key_create")
    /\ \A v \in KeyVars : \A m, n \in DOMAIN Plan[0] : MakesKey(m, v) /\ MakesKey(n, v) => m = n

\* Main makes a key before it uses it or creates a task that does.
KeysComeFirst ==
    \A k \in Tasks : \A n \in DOMAIN Plan[k] : Plan[k][n].call \in {"set", "get"} =>
        \A p \in DOMAIN Plan[0] : (IF k = 0 THEN p = n ELSE Creates(p, k)) =>
            \E m \in DOMAIN Plan[0] : m < p /\ MakesKey(m, Plan[k][n].upto)

\* Main alone joins, and while it still creates threads it holds back those it
\* has yet to join and those that end with djgthread_exit.
HeldBack(k, n) == \E m \in DOMAIN Plan[k] :
    Plan[k][m].call = "await" /\ Plan[k][m].task = 0 /\ Plan[k][m].upto >= n
JoinsAreSafe ==
    /\ OnlyMain("join")
    /\ \A k \in Tasks : \A p, n \in DOMAIN Plan[0] :
           Creates(p, k) /\ p < n /\ Plan[0][n].call = "create"
               /\ (k \in ExitTasks \/ \E j \in DOMAIN Plan[0] : n < j /\ Joins(j, k))
           => HeldBack(k, n)

-----------------------------------------------------------------------------
\* The fields of the table and the cores' variables keep their types.
TypeOK ==
    /\ started \in BOOLEAN
    /\ hwm \in Cores
    /\ nexttid \in 1 .. MaxThreads
    /\ core \in [Slots -> Cores \cup {-1}]
    /\ arg \in [Slots -> Values]
    /\ entryp \in [Slots -> Tasks]
    /\ current \in [Cores -> Slots \cup {-1}]
    /\ task \in [Cores -> Tasks]
    /\ poll \in [Cores -> 0 .. MaxThreads]
    /\ slot \in [Cores -> 0 .. MaxThreads]
    /\ newt \in [Tasks -> Slots]
    /\ got \in [Tasks -> Values]
    /\ runs \in [Tasks -> Nat]
    /\ keyid \in 0 .. NKeys /\ fresh \in [Cores -> 0 .. NKeys]
    /\ keyvar \in [KeyVars -> 0 .. NKeys]
    /\ key \in [Slots -> [Fields -> 0 .. NKeys]]

\* djgthread_join returns what the task it was asked about returned, not the
\* argument it was created with, nor another task's result.  (The value that a
\* task passes to djgthread_exit may be overwritten by ExitReturn.)
JoinReturnsResult == \A k \in Tasks \ ExitTasks : got[k] \in {Nothing, Result(k)}

\* Each created task is entered once: no core takes a slot twice, and no two
\* cores take the same slot.
TasksRunOnce == \A k \in Tasks : runs[k] <= 1

\* What task k may be given by its m-th call, a djgthread_getspecific: what it
\* itself last stored under the key, and null if it has stored nothing.  (Only
\* the first two keys that a thread stores under count: it has no field for a
\* third.)
OwnValue(k, m, value) ==
    LET stored == {n \in 1 .. m : Plan[k][n].call = "set"}
        own == {n \in stored : Plan[k][n].upto = Plan[k][m].upto}
        earlier == {Plan[k][n].upto : n \in {n \in stored : \A o \in own : n < o}}
    IN  IF own = {} THEN value = Null
        ELSE Cardinality(earlier) < 2 => \E n \in own : value = Pointer(k, n) /\ \A o \in own : o <= n

\* djgthread_getspecific returns the calling task's own value, though the slot
\* it runs in has been another task's.
SpecificIsOwn ==
    \A k \in Tasks : \A m \in 1 .. Len(Plan[k]) :
        m = done[k] /\ Plan[k][m].call = "get" => OwnValue(k, m, read[k])

\* The calls of main that have created their thread: djgthread_create has when
\* it has stored the core, though it has yet to return.
Effective == IF pc[0] = "set_newt" THEN done[0] + 1 ELSE done[0]
Created(k) == \E n \in DOMAIN Plan[0] : n <= Effective /\ Creates(n, k)

\* A core has called the function of task k and is not back.
InTask == {"body", "search", "grow", "set_arg", "set_entry", "set_core", "set_newt",
           "join_read", "key_store"}
Executing(k) == \E c \in Workers : pc[c] \in InTask /\ task[c] = k
Where(k) == CASE ~Created(k) -> "absent"
              [] Created(k) /\ runs[k] = 0 -> "created"
              [] Created(k) /\ runs[k] # 0 /\ Executing(k) -> "running"
              [] OTHER -> "ended"

\* The threads are forked and joined as the abstract ones are: the function is
\* called once, by its own core, after djgthread_create has stored that core and
\* perhaps before it returns; and djgthread_join returns, with the function's
\* value, only when the function has made its last call and is back.  (ExitReturn
\* may replace the value of a task that calls djgthread_exit.)
Abstract == INSTANCE ForkJoin WITH
    Threads <- Tasks \ {0},
    Length <- [k \in Tasks |-> Len(Plan[k])],
    Returns <- [k \in Tasks |-> IF k \in ExitTasks THEN Values ELSE {Result(k)}],
    NotJoined <- Nothing,
    where <- [k \in Tasks \ {0} |-> Where(k)],
    calls <- [k \in Tasks \ {0} |-> done[k]],
    result <- [k \in Tasks \ {0} |-> got[k]]
ImplementsForkJoin == Abstract!Spec

\* djgthread_create finds a core in the end, every queued task is executed,
\* and main gets past all its joins.
MainFinishes == <>(done[0] = Len(Plan[0]) /\ \A k \in Tasks \ {0} : runs[k] = 1)
=============================================================================

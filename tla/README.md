# Formal models of fpga-matrix-mult and the Prazor platform

The repository holds a 2x2 matrix multiplier, the programs that drive it, and
Prazor (`vhls/`), a SystemC virtual platform of a multi-core ARM system on which
those programs run as binaries, with the run-time library the programs are
linked with. This directory models the parts in which something can go wrong
that a run of the simulator would hardly show: cores that share memory without
an order, caches that hold copies of one line, a device with two threads in it, an
interrupt routine that shares rings with the program, an interrupt controller that
cores and timers change at once. TLC checks small instances; TLAPS proves the main
invariants for every value of the constants.

Paths below are relative to `src/`.

## 1. Inventory

| component | state | operations | interacts with | status |
|---|---|---|---|---|
| djgthreads synchronisation, `vhls/src/crt/djgthreads/djgthread.c` | mutex words, `_djg_Threads[].waiting`, barrier counters | `mutex_lock/unlock`, `cond_wait`, `cond_broadcast`, `barrier_wait` | mutexes of `arm32_crt.S`, thread table | partly |
| djgthreads thread table and thread-specific data, same file | `_djg_Threads[]`, `_djg_nexttid`, `_djg_core_hwm`, `_djg_started`, `keyid`, two keys per slot | `_check_start`, `_extra_cores`, `create`, `join`, `exit`, `key_create`, `setspecific`, `getspecific` | every core polls the table | modelled |
| thread accounting, same file | energy counters | `accounting_ctrl` | energy registers, mutex and cond_wait | not modelled (compiled out) |
| multiplier device, `tlm/matMul_2x2.h` | `matA`, `matB`, `res` | `b_transact` | bus | modelled |
| multiplier programs, `prazor-tests/matMul.c`, `tlm/matMul.cpp`, `utils/energyshim.c`, `pure/matMul.c` | arguments, results, loop counters | `init`, `main`, `deinit`, the shim's loops | the device | modelled |
| energy shim and current probe, `utils/` | baseline energies, socket | `snap_start`, `snap_end`, `currentprobe_operate` | a server on the network | not modelled |
| load-linked / store-conditional, `vhls/src/tenos/llsc_extension.h`, used by `dramsim_sc_wrapper.cpp` and `generic_tlm_mem.cpp` | two reservation slots per memory | `loadlocked_fail`, `storeconditional_fail`, ordinary stores | cores through `cpu_busaccess` | partly |
| ARM mutex routines, `vhls/src/crt/uClibc/arch/arm32/arm32_crt.S` | lock words | `_simple_mutex_lock`, `_simple_mutex_unlock`, `_archglue_test_and_set` | LL/SC | partly |
| UART device, `vhls/src/io/uart64_cbg.cpp` | receive register, mask, IRQ level, `transmit_char` | register accesses, `update_interrupt`, the input pthread | interrupt line | partly |
| UART driver, `vhls/src/devicedrivers/uart64_cbg/uart64_driver.c` | receive and transmit rings | polled and buffered read and write, service routine | UART device | modelled |
| coherent caches and SCU, `vhls/src/memories/ccache.cpp`, `scu.cpp`, `vhls/src/arm/arm_ccache.cpp`, `arm_scu.cpp` | line states, timestamps, requests and answers, the reservation in memory | load, store, load-linked, store-conditional, snoop, eviction, maintenance | cores, each other, memory | partly |
| interrupt controller, `vhls/src/arm/gic_arm_tlm.cpp` | enables, SGI matrix, active bits, latched lines, acknowledge registers | acknowledge, end of interrupt, `GICD_SGIR`, SGI set and clear, enabling, `distribute`, `ppi_changed` | cores, timers | partly |
| private timers, `vhls/src/arm/arm_timers.cpp` | control, status, line, the position of `run()` | control and status writes, the process | interrupt controller, cores | partly |
| DRAM timing wrapper, `vhls/src/dramsim2/dramsim_sc_wrapper.cpp` | `Queue[]`, `prim`, `active` | `blockwhile` | SystemC threads, DRAM simulator | not modelled (its reservations are) |
| buses, `vhls/src/bus/` | arbitration (cycle-accurate build) | transport | everything | not modelled |
| processor bus access, `vhls/src/tenos/cpu_busaccess.cpp` | statistics, DMI pointers | `mem_read`, `mem_write`, `eval_xchg` | buses, memories | not modelled |
| ARM, x86, or1k, mips64 simulators | registers | instructions | bus access | not modelled |
| other timers, system registers, L2 controller, SD card, memories, loaders, debugger, platform assembly | registers, files, sockets | register access | bus | not modelled |
| run-time libraries prlibc, uClibc, DRAMSim2 distribution, build files | | | | not modelled (vendored or sequential) |

### What is hard, and what makes each part correct

* **Synchronisation.** A thread is a core, and each access to shared memory
  interleaves with those of the others. `cond_wait` publishes its wait and frees
  the mutex in two steps; `cond_broadcast` clears `waiting` fields one by one
  and runs without the caller's mutex. Correct means: no wakeup is lost, none
  goes to a sleeper of another condition, and the barrier releases nobody before
  all have come, even when a fast thread re-enters it.
* **Thread table.** Create fills a slot that an idle core is polling; join reads a
  slot that the core is retiring; start-up lets worker cores in before the table is
  ready; a reused slot has the last thread's data in it. Correct means: each task runs
  once, each join returns its task's result, a task reads only what it stored itself,
  everything ends.
* **Multiplier.** Both operands are written in turn, and the device multiplies after
  each write; the device may hold what an earlier program left.
* **LL/SC and mutexes.** Two slots for all cores, taken over by whoever loads last;
  one of the routines frees with an ordinary store which some memories do not
  let cancel reservations. Correct means: mutual exclusion, and the lock word
  says exactly whether somebody owns the lock.
* **UART.** A pthread and the simulator's thread both run `update_interrupt`
  without a lock; the service routine interrupts the program between any two
  accesses. Correct means: characters keep their order, none twice, and none stays in
  the register. The last the code keeps only as long as the stores of the line come in the
  order of those of `raised_interrupt` (section 5).
* **Caches.** A request waits, in simulated time, for what the other caches answer, while
  requests for other lines (and, unless software sees to it, the same line) go on; a
  dirty copy can exist only in an answer; reservations are in memory while stores stay
  in caches. Correct means: one writer at a time, and all of it together is one memory.
* **Interrupts.** What a core acknowledges was chosen by `distribute()` some time before;
  a timer's line is latched only when some line changes, and the timer listens for
  the clearing write in one of its waits only. Correct means: each ring is answered
  once by each core it was sent to and under the right source, and no tick is forgotten.

## 2. Modules

| module | models | uses |
|---|---|---|
| `DjgSync` | mutex, condition variable, broadcast | |
| `Barrier` | what a barrier promises | |
| `DjgBarrier` | `djgthread_barrier_wait`, refines `Barrier` | `DjgSync` |
| `DjgBarrier_proofs` | theorems about `DjgBarrier` | |
| `DjgMonitor` | a caller with two condition variables that signals after unlocking | `DjgSync` |
| `DjgMonitor_proofs` | theorems about `DjgMonitor` | |
| `ForkJoin` | what creating and joining threads promises | |
| `DjgThreads` | the thread table and thread-specific data, refines `ForkJoin` | |
| `DjgThreads_proofs` | theorems about `DjgThreads` | |
| `MatMul2x2` | the multiplier's registers and its reference product | |
| `MatMulBench` | the programs that drive it | `MatMul2x2` |
| `MatMulBench_proofs` | theorems about `MatMulBench` | |
| `LLSC` | reservations and lock words of a memory | |
| `SpinLock` | what a mutex promises | |
| `ArmMutex` | the lock routines, refines `SpinLock` | `LLSC` |
| `ArmMutex_proofs` | theorems about `ArmMutex` | |
| `Uart` | the device and its input thread | |
| `UartDriver` | the driver on one core | `Uart` |
| `UartDriver_proofs` | theorems about `UartDriver` | |
| `OneMemory` | one memory with load-linked and store-conditional | |
| `Scu` | requests, answers and grants of the snoop control unit, memory and its reservation | |
| `CCache` | the caches of the cores, refines `OneMemory` | `Scu` |
| `CCache_proofs` | theorems about `CCache`, refinement of `OneMemory` among them | |
| `Doorbells` | what software-generated interrupts promise | |
| `Gic` | the interrupt controller | |
| `PrivateTimer` | the private timers and their process | |
| `Interrupts` | both with cores that ring and serve, refines `Doorbells` | `Gic`, `PrivateTimer` |
| `Interrupts_proofs` | theorems about `Interrupts` | |
| `MC*` | instances for TLC | |

Operators marked "A form that ..." are variants of the definition below them, each
with a mistake that would be easy to make. They are used by no specification: they
show that a property notices the mistake.

### How the models correspond to the code

**DjgSync / DjgBarrier / DjgMonitor.** One action is one access of one core to a
shared word: `CondPublish` stores `waiting`, `CondUnlock` frees the mutex,
`CondWake` is the exit from the spin loop, `BcastSkip` and `BcastFound` read a
`waiting` field and `BcastClear` stores to it. `MM_ACQUIRE` is one access here;
that the code under it behaves so is what `ArmMutex` shows. `cycle` wraps at
`CycleMod` (2^32 in the code). The wait loops block instead of spinning.

**DjgThreads.** `current`, `task`, `poll`, `slot` are the cores' local variables;
`core`, `arg`, `entryp` the table's fields. `SetArg`, `SetEntry`, `SetCore` are the
three stores of `djgthread_create` into the slot in the order of the code, and `SetNewt`
the store of the identifier and the return; from `SetCore` on the polling core may be in
the function, so that the thread may run and end before create returns. `ReturnTask` and
`Retire` the two stores of `_extra_cores` after the function returns; `ExitStore`,
`ExitFree` and `ExitReturn` the stores of `djgthread_exit` and the return after it.
`FillTable` initialises one slot per step while worker cores already run, since
`_djg_started` is set first. What tasks do is a constant, `Plan`: creates, joins, and
`Await`, the program's own synchronisation, and calls that make, store under and read
keys. `KeyLoad` and `KeyStore` are the two accesses of `keyid++`. The keys and data of a
slot are touched only by the core of that number and, while the slot is free, by
`djgthread_create`, so `StoreSpecific` and `ReadSpecific` are single steps and clearing the
keys is part of `SetArg`.

**MatMul2x2 / MatMulBench.** `Write` and `Read` are the two branches of
`b_transact`: 16-bit results wrap. The variable `build` selects the program: the
bare-metal benchmark (the software version in `pure/` has the same steps over a
function in place of the device), the same under `energyshim.c`, whose `main` calls
`bm_init`, `bm_main` and `bm_deinit` in its own order and ignores what `bm_init`
returns, or the SystemC test bench. The test bench at this commit prints an
undeclared variable `res` (`tlm/matMul.cpp:63`); its results are modelled as `lRes`
and `hRes`. `init` reads the iteration count only when `argc` is exactly 4
(`prazor-tests/matMul.c:48`), so a further argument, which the check before it
admits, makes the program ignore it.

**LLSC / ArmMutex.** A reservation is a granule of eight bytes and the core that
made it. `LoadLinked` is the choice of slot in `loadlocked_fail`, with its comparison
of a 64-bit address with a 32-bit -1, which never succeeds. `Ldrex`, `StrexDone` and
`StrexFailed` are the two bus accesses of the routines and `SimpleUnlock` the
ordinary store. A memory serves an access without yielding, so each is one action;
`PlainStoreClears` selects the DRAM wrapper or `generic_tlm_mem`. Reservations are
per initiator: the core in the model, the processor identifier extension in the code.

**Uart / UartDriver.** A register access of the processor is a step unless it runs
`update_interrupt`, which is split at each access to `logged`, to the mask, to
`raised_interrupt` and to the line `IRQ`; `update[h]` is where host thread `h` is in it.
`IRQ` is an `sc_out`, whose level the simulator takes over at its next update; the model's
`IRQ` is the value last stored. While
`update["cpu"]` is not idle the processor waits for the bus. `main` and `isr` are
the positions of the program and of the service routine on the one core. Characters
are numbered, so that order and loss can be seen. Reads by the program's loops see
the rings' current contents: the ring pointers are not declared volatile, and a
compiler may hoist those reads out of the loops; the models take the unoptimised
code. At the end of its input the input thread delivers 255 for ever
(`getchar` returns -1); the model's user just stops typing.

**Scu / CCache.** The simulator is cooperative, and `scu::b_transport` yields in one
place, the wait for the answers (`scu.cpp:143`); all else that a request does is one
step. `Request` puts a request to the other caches, `Snoop` is one cache's
`peq_cb`, `Answered` lets the requester go on, and `LoadFill`, `StoreFill`,
`StoreShared`, `LinkedLoad`, `ConditionalStore`, `ConditionalFails` are the rest of
the access. The lock of a line is never contended, since its holder does not yield.
`InsertOther` brings in a line of the same index that the model does not follow, and
evicts. Lines consist of words, so that partial stores need the old line and whole
ones use `MakeUnique`. Memory is what the SCU's port leads to: the L2 cache is
disabled at start and transparent. `link` is a history variable: the line a core
load-linked, while no other core has stored to it. `Maintain` is cleaning and
invalidating by address and of the whole cache; `Maintenance` the SCU's own register. The code at
`scu.cpp:124` and `132` reads `data[i][0]` for the last port past its array; the model
assumes that this is harmless. `write()` leaves an outer `success` uninitialised
(`ccache.cpp:863`), which no path tests before it is set.

**Gic / PrivateTimer / Interrupts.** A core yields after each instruction (the quantum is
zero unless `-global-qk-ns` is given), so `distribute()` runs between the
instructions of the core that notified it: `changed` holds the notifiers, and a core
waits while it is one. Acknowledging clears the SGI's lowest source or the latch of a private
line, marks the interrupt active and notifies; active interrupts count as requests, which
keeps a core's acknowledge register on what it serves. `PpiChanged` latches all private
lines anew whenever one changes, so an interrupt that was acknowledged and not cleared
comes again when any line changes. A timer's `at` is the wait its `run()` is in;
"expired" is the instant between the end of an interval and the process's turn, in which
a clearing write is lost. What the cores write is a constant, `Program`; their service routine
(acknowledge, clear the timer, end, the last two in either order) stands for
programs that are not in the repository. Priorities are fixed.

## 3. Runs

| run | expected | instance | what it shows |
|---|---|---|---|
| `barrier` | pass | 3 threads, `CycleMod` 2 | `djgthread_barrier_wait` refines `Barrier`; no wakeup is lost; the count is exact; every call returns |
| `monitor` | pass | 3 threads, 2 conditions | no sleeper is stranded when signals come after the unlock, and no broadcast frees a sleeper of the other condition |
| `fork_join` | pass | 4 cores, 3 tasks, 3 keys, a slot reused, one task exits | joins return their tasks' results, each task runs once and reads only its own data; refinement of `ForkJoin`; main finishes |
| `join_after_reuse` | violation | 3 cores, 2 tasks | a task that ends before the next create loses its slot and its result |
| `exit_then_create` | violation | 2 cores, 2 tasks | `djgthread_exit` frees the slot too early; the next task in it never runs |
| `multiply` | pass | elements with 4 values, 4 matrices, 1 to 6 arguments, 3 programs | results are the product modulo the width; programs end; a usage error leaves the device alone |
| `arm_mutex` | pass | 3 cores, 2 locks of both kinds, data beside one | mutual exclusion, exact lock words, refinement of `SpinLock`, a lone core gets through |
| `coherence` | pass | 3 caches, 1 line of 2 words, 3 contents, 3 stores | one unique copy; clean copies are memory; refinement of `OneMemory`; a store-conditional stores only over what its core linked; every access ends |
| `coherence_race` | violation | 2 caches | two requests for one line that overlap both get it as unique |
| `uart` | pass | rings of 2, 3 characters each way | order kept both ways, none twice, none left in the register unless the line is low by a late store |
| `uart_drain` | violation | same | a character in the transmit ring is not sent until one is typed |
| `interrupts` | pass | 2 cores, 1 SGI, 1 private timer, 12 register writes | an acknowledged SGI has a source; the event flag comes with the line; rings are answered once by each core they were sent to (refinement of `Doorbells`); rings and ticks that are let through are served |

### Bounds, and why they are enough

* **barrier, monitor:** three threads are the fewest with a last arrival, a sleeper
  and a thread that re-enters, or two broadcasts and a sleeper. `CycleMod` 2 is the
  hardest case of the wrap. The barrier has no bound on the number of calls. Its
  theorems hold for any number of threads and any width.
* **fork_join:** with four cores and `Plan` as given, one slot is reused while
  another task runs, create waits for a core that is not up yet, and main is core 0.
  The table has one slot more than cores, so wrap-around in the poll is exercised. One
  task stores under three keys, one more than a slot has room for, and the task in the
  reused slot reads under a key of the task before it.
* **multiply:** `ElemMod` 4 keeps the property that matters, a sum of two products
  exceeding the result (3*3 + 3*3 > 15; 255*255 + 255*255 > 65535). The matrices
  include the largest elements, unsymmetric ones (which tell the product from its
  transposes) and one with a zero row. `MaxIters` and `MaxLoops` 2: one pass more
  than the first.
* **arm_mutex:** three cores and two slots is one core more than slots. Locks of both
  routines and plain data stores meet in the reservations. The run is on the DRAM wrapper,
  whose plain stores cancel reservations; `generic_tlm_mem`, whose plain stores do not, is
  covered by the theorems only.
  The theorems hold for any number of each.
* **uart:** a ring of two slots is full with one character, so three characters
  overflow the receive ring and fill the transmit ring. `MaxReads` 2 suffices for an
  order. `InputIsTaken` does not speak of a character that arrives while
  `raised_interrupt` is set, the line low and the processor not in `update_interrupt`.
  Without this exception it fails in the same system, in the way section 5 tells.

* **coherence:** three caches are a requester, a holder and one more answer; one line,
  with `InsertOther` for the lines that compete with it. Two words tell partial
  stores from whole ones, and three contents an old line from two new ones.
  Evictions of several lines for one are exercised by the proofs, which hold for any
  number of caches, lines and words. `Serialised` is the assumption on
  software that requests for one line do not overlap; `coherence_race` is
  the same system without it.
* **interrupts:** two cores can ring each other and themselves, and two sources of one
  number can be pending at once. One timer suffices, since the timers of different cores meet only in
  the latching of the lines. The theorems hold for any number of cores, interrupts and
  register writes, any priorities, and any private interrupts in the words that the
  constructor leaves uninitialised (`Leftover`, empty in the run). Bits of SGIs in those
  words are excluded (`LeftoverAssumption`): one would request its interrupt for ever.

Deadlock is checked in `barrier`, `arm_mutex`, `coherence`, `interrupts` and `fork_join` (whose system spins on).
It is off where the system may stop: programs that end (`multiply`), a program that
makes no more calls and a user who types no more (`uart*`), and a monitor in
which all threads wait for one state because nobody chooses the other operation.

### Fairness

* `barrier`: weak fairness of each thread's steps (a core keeps executing) and of
  its calls (`barriertest.c` calls again in a loop). No fairness of the mutex is
  assumed: a thread at a barrier stops competing for it, so the rest get through.
* `DjgThreads`: weak fairness of each core; its loops poll for ever.
* `MatMulBench`: the program keeps executing.
* `ArmMutex`: weak fairness of the routine a core is in. Callers are not required to
  call. `LoneCoreAcquires` claims nothing while cores compete: with the reservations
  of this code they can take them from each other for ever.
* `Uart*`: weak fairness of the input thread's and the processor's
  `update_interrupt`, of the routine the program is in, and of the service routine
  (the line is a level, and a core takes an interrupt that stays high). Nobody has to
  type or call.
* `CCache`: the simulator runs every process that was notified, so a cache answers each snoop and
  a core goes on with its access. `AccessesEnd` claims nothing if
  maintenance operations never stop.
* `Interrupts`: `distribute()` runs when notified, simulated time goes on, a core
  takes an interrupt before its next instruction, and a service routine goes on. Programs need
  not. `RingIsAnswered` and `TickIsServed` speak of requests that a distribution is still to
  see: writes of the enable registers notify nobody, so what they let through waits for the
  next change of anything. `TickIsServed` assumes that rings, which go first among equals, stop.

## 4. Proofs

| theorem | states | for |
|---|---|---|
| `DjgBarrier_proofs!TypeCorrect`, `WakeupsAreNotLost`, `CountIsExact` | `TypeOK`, `NoLostWakeup`, `CountIsArrivals` | any number of threads, any `CycleMod` > 1 |
| `DjgBarrier_proofs!Refinement` | `Spec => ImplementsBarrier` | same |
| `DjgMonitor_proofs!MonitorTypeOK`, `NobodyIsStranded`, `WakeupsAreOwn` | `TypeOK`, `NoStrandedWaiter`, `NoForeignWakeup` | any number of threads |
| `DjgThreads_proofs!EachTaskOnce` | `TasksRunOnce` | any cores, slots, tasks and calls, if `OneCreator` |
| `DjgThreads_proofs!TableTypes` | `TypeOK` | same, and `OneKeyMaker` |
| `DjgThreads_proofs!JoinReturns` | `JoinReturnsResult` | any cores, slots, tasks and calls, if `OneCreator` and `JoinsAreSafe` |
| `DjgThreads_proofs!ThreadsForkAndJoin` | `Spec => ImplementsForkJoin` | same |
| `DjgThreads_proofs!SpecificOwn` | `SpecificIsOwn` | any cores, slots, tasks and calls, if `OneCreator`, `OneKeyMaker` and `KeysComeFirst` |
| `MatMulBench_proofs!BenchTypeOK`, `BenchResults` | `TypeOK`, `ResultsAreProduct` | any width of the elements, matrices, iteration and loop counts |
| `MatMulBench_proofs!BenchUsageError` | `UsageErrorIsHarmless` | same |
| `ArmMutex_proofs!MutexTypeOK` | `TypeOK` | as below |
| `ArmMutex_proofs!Exclusion`, `OwnershipIsExact`, `LoadsStand` | `MutualExclusion`, `WordIsOwnership`, `ReservationMeansUnchanged` | any cores, locks, granules; either routine per lock; either memory |
| `ArmMutex_proofs!Refinement` | `Spec => ImplementsSpinLock` | same |
| `UartDriver_proofs!DriverTypeOK` | `TypeOK` | any ring size from 2, any number of characters, with or without a window |
| `UartDriver_proofs!Order`, `ReceivedOrder` | `SentInOrder`, `ReceivedInOrder` | same |
| `CCache_proofs!CachesTypeOK`, `CachesSingleWriter` | `TypeOK`, `SingleWriter` | any caches, lines, words and contents, if `Serialised` |
| `CCache_proofs!CachesCleanIsMemory`, `CachesConditionalStores` | `CleanIsMemory`, `ConditionalStoreIsLinked` | same |
| `CCache_proofs!CachesAreOneMemory` | `Spec => ImplementsOneMemory` | same |
| `Interrupts_proofs!InterruptsTypeOK`, `InterruptsEventFlag` | `TypeOK`, `EventFlagMeansLine` | any cores, interrupts, priorities, programs, leftovers |
| `Interrupts_proofs!InterruptsImplementDoorbells` | `Spec => ImplementsDoorbells` | same |

The assumptions are the named `ASSUME`s of the modules, and the conditions named in the
table: `Serialised` of the caches and the program rules of `DjgThreads`. TLC evaluates the
`ASSUME`s in the runs; that the program of `fork_join` obeys the rules is one of them.

* **Barrier.** `IInv` adds to the three properties that one thread at a time is in the
  sections the mutex and `bcast_mutex` guard (`MutexInv`), and what each label says
  of a thread's variables (`LabelInv`). Without the mutex facts, two arrivals could
  both see the same count. The refinement maps a call to `outside` until its arrival
  is counted, `arrived` while its cycle is current, then `released`, or `serial` for
  the one that closed the cycle. The only fact about arithmetic is that
  `cycle + 1` differs from `cycle` modulo `CycleMod` (`CycleMoves`). That one
  difference suffices however often the counter wraps, since a thread cannot
  sleep through two cycles: it is itself one of the arrivals of the next.
* **Monitor.** `MutexInv` again; `SleepInv`: a thread about to publish its wait has found its
  condition false and still holds the mutex; `PublishInv`: what a thread has published is
  the condition of its own operation, and only while it is in `cond_wait`; `FoundInv`: what a scan
  has found cannot change before its store, since one broadcast runs at a time and the
  sleeper cannot leave by itself. With these `NoStrandedWaiter` carries itself: whoever
  makes a condition true has its broadcast still to come, and a scan passes only
  threads that do not wait for its condition.
* **Threads.** The hypotheses say what a program must do, since the library checks nothing:
  main alone creates threads and each once (`OneCreator`; nothing is locked while a slot is
  searched), main alone makes keys, one per variable (`OneKeyMaker`; `keyid++` is not locked),
  before a thread can use them (`KeysComeFirst`), and while it creates a thread it holds
  back those it has yet to join, and those that end with `djgthread_exit`
  (`JoinsAreSafe`, which the programs of the two violation runs break). They are conditions
  on `Plan` alone; what the calls are, their order otherwise, and how the cores interleave is free.
  `BaseInv`: a slot other than main's is free or belongs to the core of its number, whose loop
  variable is at it whenever it is not polling; a slot that waits for its core holds a
  task that has not run (`RunInv`), which is why no core can take one twice. That
  `nexttid` stays in the table rests on `_djg_core_hwm`: it grows only to a core that has
  announced itself. Keys are different because `keyid` is the number of variables that
  have one (`KeyInv`); so `NKeys` bounds it. `JoinInv`: the slot of a thread yet to be joined is
  its own until main has joined it, and once free has its result (`KeptInv`); main can fill
  a slot only when its core is back in the polling loop (`OwnTaskInv`), as otherwise the last
  task is through, so was not held back (`HeldInv`). The refinement takes a task's place from
  `Created`, `runs` and whether a core is in its function (`Executing`); a join is then a join
  of the abstract thread because a thread owns its slot until it is through (`OwnerInv`), and
  a core that were still in the function would own the slot that join found free. For tasks
  that call `djgthread_exit` all of this holds but the value. `SpecificInv`: a slot that waits for its core
  has no keys (`CleanInv`), and what a running thread's fields hold is what it last stored
  under their keys; a key of its own has no field only if two other keys came first (`FieldInv`).
* **Multiplier.** `RemainderOfSum` is the one fact about arithmetic: truncating after each
  product gives the product modulo the width of a result. It rests on the uniqueness of the remainder,
  proved from division. `PassInv` then says what a pass of the loop has written and
  read at each label, and `ErrorInv` that a refused program has nothing to iterate over.
* **ArmMutex.** The core of `IInv` is `ReservationMeansUnchanged`: while a core's
  reservation stands, the word is as loaded. Load-linked of another core takes the
  reservation of the granule over, a successful store spends it, and the two slots
  never hold one granule (in `TypeOK`). `_simple_mutex_unlock` stores without taking
  reservations away in `generic_tlm_mem`, and this is harmless because a core whose
  reservation stands in that routine has loaded 0 (`Phases`), which the word then
  still is, so nobody owns the lock that is freed: this confirms the
  remark `do not need strex I think` at `arm32_crt.S:142`. `WordIsOwnership` carries
  `MutualExclusion` from one acquisition to the next.
* **UartDriver.** `RingHoldsUnsent`: between `tx_outptr` and `tx_inptr` lie exactly the
  characters that are published and not sent, in order; `WriterKnows`: room found by
  `uart_write_char` cannot disappear, because the service routine only advances
  `tx_outptr`; `RingUnused`: polled writes meet an empty ring. `Advance`, `AdvanceIn`
  and `AdvanceOut` are the lemmas about the modular pointers. The receive ring has no
  test for full, so its invariant has to survive being overrun at any point of
  `uart_read_char`. `Count` slots can be read from `First` on: none when `rx_inptr` has
  caught up with `rx_outptr`, except for a reader that has passed its test, for whom
  they are all `RingSize`. In these slots, and from the program to the ring, to the slot being
  filled, to the register, characters rise (`RxOrder`). At an overrun the new character goes
  to the reader's own slot (`Skipped`), and the advance that follows leaves just that
  one to be read (`RingGrows`). No character is read twice, because `rdch_nonblock`
  clears the register before the service routine's next access.
* **Caches.** `IInv` says of every request in flight what the answers given so far imply
  for the copies that are left (`CoherenceInv`); three lemmas carry it over weaker copies, a new
  request and a finished one, and each action is one of these or a snoop. `DataInv`
  adds that all copies of a line agree with its value, which is the dirty copy, in a cache or
  in an answer, if there is one, and memory otherwise: that value is the refinement
  mapping. `ConditionalLinked` relates the reservation in memory to `link`: as long as
  the reservation stands at the time of the store, no dirty copy was written back, and
  no other core has stored.
* **Interrupts.** `ShownIsPending`: an SGI that a core's acknowledge register shows when the
  core may read it has a source; `ActiveIsServed`: an SGI is active only between its
  acknowledge and its end. Each needs the other: active SGIs request, so one left active
  would be shown without a source. The refinement takes the triples of
  the SGI matrix as the rings and what a core serves as the answer.

Only model-checked: every liveness property, `MainFinishes` of `DjgThreads` among them
(temporal reasoning under fairness and `ENABLED` are beyond the prover). Every invariant
and every refinement that a passing run checks is proved.

## 5. Disagreements between code and documents

1. `join_after_reuse`, `djgthread.c:536`: the identifier of a thread that has ended is
   given to the next one before it is joined; line 6 says "roughly pthreads
   compliant".
2. `exit_then_create`, `djgthread.c:489`: `djgthread_exit` frees the slot and the core
   frees it again after the function has returned, which erases a thread created
   in between.
3. `uart_drain`, `uart64_cbg.cpp:447`: unmasking does not update the interrupt
   line, although `uart64_cbg.h:128-130` asks for it whenever a supporting field changes.
4. `coherence_race`, `scu.cpp:143`: two overlapping requests for one line both get it
   as a state of which `ccache.h:110-111` says "cache line only exists in this cache".

Two more have no run of their own; the models have the behaviour:

5. `uart64_cbg.cpp:509-514`: `raised_interrupt` and `IRQ` are stored one after the other
   and two host threads do it without a lock. One of them has just stored
   `raised_interrupt` as false at line 513, the other raises both, and the first
   stores `IRQ` at line 514 late, with the false it has loaded. The line is then low while
   `raised_interrupt` is set, so the next characters raise nothing and stay in the
   register, although `uart64_driver.c:60` says "Want to interrupt on rx being
   non-empty." The exception in `InputIsTaken` is this state; without it TLC shows
   the interleaving.
6. `gic_arm_tlm.cpp:669`: a ring with filter 1 goes to every core including the one
   that rings, while the comment above it says "1 all but src" (line 663).
   `SgirTargets` is the code's choice, and `Doorbells` says nothing of whom a core rings:
   in `interrupts` core 0 rings with filter 1 and is interrupted by its own ring.

Seen while modelling, without a run: nothing is locked while `djgthread_create` searches
and claims a slot (`djgthread.c:534`), so two creators can be given one; `keyid++` is not locked either (line
463); a third key that a thread stores under is dropped, and only a message on the
console says so (line 450); slot 0 of the
reservations is never used (`llsc_extension.h:79` compares a 64-bit -1 with a 32-bit one);
masking the transmit interrupt turns the console window off, and a character
can be sent before it is on again (`uart64_cbg.cpp:455`); an acknowledge keeps its
own pending bit and drops the others (`gic_arm_tlm.cpp:608`), which nothing reads;
`GICD_CTLR` reads back group 1's enable for both groups; a one-shot timer stays
enabled and fires again (`arm_timers.cpp:444`), where the other build of the same
process disables it (line 376); a write of `GICD_ICPENDR` calls `clear_sgi` with source -1
(`gic_arm_tlm.cpp:504`), whose shift is one less than that of the SGI's first source (and negative for the first
SGI of a word), so that no source of that SGI is cleared; a clearing write that meets the timer's process in
another wait than the one that listens leaves the line high, and the next change of
any line brings the tick once more.

## 6. What is not modelled

Data and timing: simulated time, energy, DMI, ELF loading, instruction decoding. Of
the modelled files:

* `djgthread.c`: accounting, which is compiled only with `SPEEDO_ACCOUNTING` (its calls
  inside `mutex_lock` and `cond_wait` touch only the calling thread's own fields).
* `arm32_crt.S`: the reset and register-access code; the other widths of the exclusive
  accesses. `ArmMutex` takes memory as sequentially consistent, which is what
  `OneMemory`, the specification the caches implement, promises.
* UART: the control and mode registers beyond their reset values, canned input, the
  log file, the opening of the window; a program that mixes polled reads with
  enabled interrupts.
* Caches: invalidation by set and way, which drops dirty data by design; cleaning of
  addresses that are not those of a line; running with the caches off; the instruction
  cache, which nobody snoops; the older cache models.
* Interrupt controller: shared peripheral interrupts, which go to core 0 alone, and
  group 1; group 0 never becomes an FIQ, since the enable is sought in bit number 8 of
  core 0's control register instead of in the bit with value 8. Writes of
  `GICD_ISPENDR` and `GICD_ICPENDR` (`gic_arm_tlm.cpp:489-508`), whose bits request nothing, and of
  `GICD_ISACTIVER` and `GICD_ICACTIVER` (lines 510-523), which change what requests
  without notifying `distribute()`: a program that set an SGI active would have it
  acknowledged without a source. Cores with
  a quantum, which can acknowledge twice what `distribute()` chose once. The watchdog and the
  global, triple and system timers.
* Energy shim and current probe: one client that asks a server outside the repository;
  `PROJECT.json` lists what can go wrong there.

Instruction-set simulators, the debugger, vendored libraries and register files are
left out as data-bound, third-party or sequential code; the DRAM timing wrapper as
it adds delays only: `m_qlock` is held throughout, and nothing yields. `PROJECT.json`
lists every part with its reason.

## 7. Plan

Done, in this order, most important first: the barrier and its primitives with
proofs; the thread table with thread-specific data; the device and its programs, their results
proved; LL/SC and the mutex routines with proofs; the UART and its driver, both rings proved; the
caches with the snoop control unit, their coherence and refinement proved; the interrupt
controller with the private timers, its refinement proved; the monitor, proved; the
invariants of the thread table and of thread-specific data and the refinement of fork and
join, proved.

Left, should the project go on: shared peripheral interrupts with the UART as their source; the
energy shim with a probe that answers in parts or not at all.

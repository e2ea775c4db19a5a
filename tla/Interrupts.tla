----------------------------- MODULE Interrupts -----------------------------
(* The private timers, the interrupt controller and the cores, each running *)
(* a program that rings the other cores, sets its timer, and serves its     *)
(* interrupts one at a time: it acknowledges, clears the timer's flag if it *)
(* was the timer, and ends the interrupt, the last two in either order.    *)
(* The programs are not in the repository.                                 *)
EXTENDS Gic, PrivateTimer

CONSTANTS
    Tick,       \* the private interrupt of the timers
    Program     \* the register writes that programs make

ASSUME TickAssumption == Tick \in Ppis
ASSUME TimersAssumption == TimerCores \subseteq Cores

\* No writes of the active and pending registers: they change what requests
\* behind the back of distribute(), which they do not notify.
Writes ==
         [core : Cores, reg : {"GICD_SGIR"}, sgi : Sgis, filter : 0 .. 3, targets : SUBSET Cores]
    \cup [core : Cores, reg : {"SGI_PENDING"}, sgi : Sgis, sources : SUBSET Cores, set : BOOLEAN]
    \cup [core : Cores, reg : {"ENABLE"}, ints : SUBSET Ints, set : BOOLEAN]
    \cup [core : Cores, reg : {"GICC_CTLR", "GICD_CTLR"}, on : BOOLEAN]
    \cup [core : TimerCores, reg : {"CONTROL"}, E : BOOLEAN, R : BOOLEAN, I : BOOLEAN]
    \cup [core : TimerCores, reg : {"STATUS"}]
ASSUME ProgramAssumption == Program \subseteq Writes

VARIABLES
    doing,      \* "run", "taken" (before the acknowledge) or "serve"
    serving,    \* what the acknowledge returned: interrupt and source
    todo        \* what the service routine has still to do

cpu == <<doing, serving, todo>>
vars == <<gic, timer, cpu>>

None == <<Spurious, 0>>

Init == GicInit /\ TimerInit
        /\ doing = [c \in Cores |-> "run"]
        /\ serving = [c \in Cores |-> None]
        /\ todo = [c \in Cores |-> {}]

\* ppi2 of each core.
Level == [c \in Cores |-> IF c \in TimerCores /\ interrupt_state[c] THEN {Tick} ELSE {}]

\* When a step of the timers changes a line, ppi_changed runs before any core.
LinesFollow ==
    IF Level' = Level THEN UNCHANGED gic
    ELSE PpiChanged(Level') /\ UNCHANGED <<EnableGrp0, CTL, enables, sgi_matrix, actives, IA>>

\* A core goes on when distribute has seen its last change, with the next
\* instruction of its program if no interrupt is signalled (armcore_tlm::run).
Ready(c) == doing[c] = "run" /\ c \notin changed
Runs(c) == Ready(c) /\ ~IRQ(c)

-----------------------------------------------------------------------------
\* The next write of a program.
WriteSgirOf(w) == /\ w.reg = "GICD_SGIR"
                  /\ WriteSgir(w.core, w.sgi, SgirTargets(w.core, w.filter, w.targets))
                  /\ UNCHANGED <<timer, cpu>>

WriteSgiPending(w) == /\ w.reg = "SGI_PENDING"
                      /\ SgiSetNClear(w.core, w.sgi, w.sources, w.set)
                      /\ UNCHANGED <<timer, cpu>>

Configure(w) == /\ \/ w.reg = "ENABLE" /\ WriteEnables(w.core, w.ints, w.set)
                   \/ w.reg = "GICC_CTLR" /\ WriteCTL(w.core, w.on)
                   \/ w.reg = "GICD_CTLR" /\ WriteDistCtl(w.on)
                /\ UNCHANGED <<timer, cpu>>

SetTimer(w) == /\ w.reg = "CONTROL" /\ WriteControl(w.core, w)
               /\ UNCHANGED <<gic, cpu>>

ClearEarly(w) == /\ w.reg = "STATUS" /\ ClearStatus(w.core)
                 /\ LinesFollow
                 /\ UNCHANGED cpu

Rings(w) == WriteSgirOf(w) \/ WriteSgiPending(w)
Run(w) == Runs(w.core) /\ (Rings(w) \/ Configure(w) \/ SetTimer(w) \/ ClearEarly(w))

-----------------------------------------------------------------------------
\* The core takes an interrupt (armisa::hw_interrupt) and masks others.
Take(c) == /\ Ready(c) /\ IRQ(c)
           /\ doing' = [doing EXCEPT ![c] = "taken"]
           /\ UNCHANGED <<gic, timer, serving, todo>>

\* The service routine reads the acknowledge register.
ReadIAR(c) == \E i \in Ints \cup {Spurious}, s \in 0 .. NCpus :
    /\ doing[c] = "taken" /\ c \notin changed
    /\ Acknowledge(c, i, s)
    /\ serving' = [serving EXCEPT ![c] = <<i, s>>]
    /\ doing' = [doing EXCEPT ![c] = IF i = Spurious THEN "run" ELSE "serve"]
    /\ todo' = [todo EXCEPT ![c] = IF i = Spurious THEN {}
                                   ELSE IF i = Tick THEN {"clear", "end"} ELSE {"end"}]
    /\ UNCHANGED timer

Did(c, what) ==
    /\ todo' = [todo EXCEPT ![c] = @ \ {what}]
    /\ doing' = [doing EXCEPT ![c] = IF todo[c] = {what} THEN "run" ELSE @]
    /\ serving' = [serving EXCEPT ![c] = IF todo[c] = {what} THEN None ELSE @]

ClearTick(c) == /\ "clear" \in todo[c] /\ c \notin changed
                /\ IF c \in TimerCores THEN ClearStatus(c) ELSE UNCHANGED timer
                /\ LinesFollow
                /\ Did(c, "clear")

WriteEOIR(c) == /\ "end" \in todo[c] /\ c \notin changed
                /\ EndOfInt(c, serving[c][1])
                /\ Did(c, "end")
                /\ UNCHANGED timer

Serve(c) == ReadIAR(c) \/ ClearTick(c) \/ WriteEOIR(c)

\* run() goes on when time does.
Time(c) == /\ Aligned(c) \/ Expire(c) \/ Missed(c) \/ Due(c)
           /\ LinesFollow
           /\ UNCHANGED cpu

Distributes == Distribute /\ UNCHANGED <<timer, cpu>>

Next == \/ Distributes
        \/ \E w \in Program : Run(w)
        \/ \E c \in Cores : Take(c) \/ Serve(c)
        \/ \E c \in TimerCores : Time(c)

Spec == Init /\ [][Next]_vars

FairSpec == /\ Spec
            /\ WF_vars(Distributes)
            /\ \A c \in Cores : WF_vars(Take(c)) /\ WF_vars(Serve(c))
            /\ \A c \in TimerCores : WF_vars(Time(c))

-----------------------------------------------------------------------------
CpuTypeOK ==
    /\ doing \in [Cores -> {"run", "taken", "serve"}]
    /\ serving \in [Cores -> (Ppis \X {0}) \cup (Sgis \X Cores) \cup {None}]
    /\ todo \in [Cores -> SUBSET {"clear", "end"}]
    /\ \A c \in Cores : IF doing[c] = "serve" THEN serving[c] # None
                        ELSE serving[c] = None /\ todo[c] = {}

(* Types; a service routine serves an interrupt of this core, an SGI with   *)
(* the core it is from: what a core acknowledges was not withdrawn or ended *)
(* meanwhile (the assertion left out at gic_arm_tlm.cpp:594).               *)
TypeOK == GicTypeOK /\ TimerTypeOK /\ CpuTypeOK

(* The status register of a timer that interrupts is never set with the     *)
(* line low: a program that finds no interrupt has missed no event          *)
(* (arm_timers.cpp:441).                                                   *)
EventFlagMeansLine == \A c \in TimerCores : is_event_flag[c] => interrupt_state[c]

(* Each ring of write_gic_sgir is answered once by each core it was sent    *)
(* to, and with the number of the core that rang (gic_arm_tlm.cpp:581).    *)
(* Which cores those are is SgirTargets, the code's choice.                 *)
Bells == INSTANCE Doorbells WITH
            rung <- {x \in Cores \X Sgis \X Cores : x[3] \in sgi_matrix[x[1]][x[2]]},
            answering <- [c \in Cores |-> IF serving[c][1] \in Sgis THEN serving[c] ELSE None],
            Nobody <- None
ImplementsDoorbells == Bells!Spec

\* The registers let interrupt i through to c.
Passes(c, i) == EnableGrp0 /\ CTL[c] /\ i \in enables[c]

(* A ring that distribute() finds enabled is answered in the end, although *)
(* the timer interrupts too and other interrupts end meanwhile.            *)
RingIsAnswered ==
    \A c \in Cores, i \in Sgis :
        (i \in Pending(c) /\ Passes(c, i) /\ changed # {})
            ~> (serving[c][1] = i \/ i \notin Pending(c) \/ ~Passes(c, i))

Ringing == \E w \in Program : Rings(w)

(* An event of a timer whose line is latched is served, whatever order its *)
(* routine clears and ends in and whatever other lines do, unless rings,   *)
(* which have the lower numbers, keep it waiting for ever.                 *)
TickIsServed ==
    <>[][~Ringing]_vars =>
        \A c \in TimerCores :
            (is_event_flag[c] /\ Passes(c, Tick) /\ Lines \in changed)
                ~> (~is_event_flag[c] \/ ~Passes(c, Tick))
=============================================================================

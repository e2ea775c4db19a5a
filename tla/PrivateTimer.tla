---------------------------- MODULE PrivateTimer ----------------------------
(* The private timers of the cores (arm/arm_timers.cpp, arm_twd).  A step  *)
(* of the process run() goes from one of its waits to the next.  Intervals *)
(* end at some time; expired[] is the instant in which one has ended and   *)
(* the process has yet to run.  A clearing write wakes it too, only in the *)
(* wait that is sensitive to it ("count").                                 *)
CONSTANTS TimerCores

VARIABLES
    timer_enabled, auto_reload, irq_enabled,    \* the control register
    is_event_flag,                              \* the status register
    interrupt_state,                            \* the interrupt line too
    at                                          \* where run() waits

timer == <<timer_enabled, auto_reload, irq_enabled, is_event_flag, interrupt_state, at>>

Waits == {"off", "align", "count", "expired", "rest"}

TimerInit == /\ timer_enabled = [c \in TimerCores |-> FALSE]
             /\ auto_reload = [c \in TimerCores |-> FALSE]
             /\ irq_enabled = [c \in TimerCores |-> FALSE]
             /\ is_event_flag = [c \in TimerCores |-> FALSE]
             /\ interrupt_state = [c \in TimerCores |-> FALSE]
             /\ at = [c \in TimerCores |-> "off"]

\* Where run() waits after an event: a one-shot timer that is still enabled
\* starts again as well.
Onward(c) == IF ~timer_enabled[c] THEN "off" ELSE IF auto_reload[c] THEN "count" ELSE "align"

\* A form that sets the flag of a timer that may not interrupt as well.
EventAnyway(c, flag) ==
    /\ is_event_flag' = [is_event_flag EXCEPT ![c] = TRUE]
    /\ interrupt_state' = [interrupt_state EXCEPT ![c] = @ \/ irq_enabled[c]]
    /\ at' = [at EXCEPT ![c] = Onward(c)]
    /\ UNCHANGED <<timer_enabled, auto_reload, irq_enabled>>

\* The event, with flag as it stands: the line rises if interrupts are enabled.
Event(c, flag) ==
    /\ is_event_flag' = [is_event_flag EXCEPT ![c] = flag \/ irq_enabled[c]]
    /\ interrupt_state' = [interrupt_state EXCEPT ![c] = @ \/ irq_enabled[c]]
    /\ at' = [at EXCEPT ![c] = Onward(c)]
    /\ UNCHANGED <<timer_enabled, auto_reload, irq_enabled>>

Go(c, from, to) ==
    /\ at[c] = from
    /\ at' = [at EXCEPT ![c] = to]
    /\ UNCHANGED <<timer_enabled, auto_reload, irq_enabled, is_event_flag, interrupt_state>>

Aligned(c) == Go(c, "align", "count")
Expire(c) == Go(c, "count", "expired")

\* The line is still high: no event this time.
Missed(c) == interrupt_state[c] /\ Go(c, "expired", "count")

Due(c) == /\ \/ at[c] = "expired" /\ ~interrupt_state[c]
             \/ at[c] = "rest"
          /\ Event(c, is_event_flag[c])

\* A write of the control register; it wakes run() only when that is off.
WriteControl(c, v) ==
    /\ timer_enabled' = [timer_enabled EXCEPT ![c] = v.E]
    /\ auto_reload' = [auto_reload EXCEPT ![c] = v.R]
    /\ irq_enabled' = [irq_enabled EXCEPT ![c] = v.I]
    /\ at' = [at EXCEPT ![c] = IF @ = "off" /\ v.E THEN "align" ELSE @]
    /\ UNCHANGED <<is_event_flag, interrupt_state>>

\* A write of 1 to the status register, and run() if it is woken: the line
\* falls, or, if it was low already, the event comes early.
Lower(c) ==
    /\ is_event_flag' = [is_event_flag EXCEPT ![c] = FALSE]
    /\ interrupt_state' = [interrupt_state EXCEPT ![c] = FALSE]
    /\ at' = [at EXCEPT ![c] = "rest"]
    /\ UNCHANGED <<timer_enabled, auto_reload, irq_enabled>>

ClearStatus(c) ==
    CASE at[c] = "count" /\ interrupt_state[c] -> Lower(c)
      [] at[c] = "count" /\ ~interrupt_state[c] -> Event(c, FALSE)
      [] OTHER -> /\ is_event_flag' = [is_event_flag EXCEPT ![c] = FALSE]
                  /\ UNCHANGED <<timer_enabled, auto_reload, irq_enabled, interrupt_state, at>>

TimerTypeOK ==
    /\ timer_enabled \in [TimerCores -> BOOLEAN]
    /\ auto_reload \in [TimerCores -> BOOLEAN]
    /\ irq_enabled \in [TimerCores -> BOOLEAN]
    /\ is_event_flag \in [TimerCores -> BOOLEAN]
    /\ interrupt_state \in [TimerCores -> BOOLEAN]
    /\ at \in [TimerCores -> Waits]
=============================================================================

-------------------------------- MODULE Uart --------------------------------
(* The UART device model uart64_cbg.cpp: one receive register, an interrupt  *)
(* mask, an interrupt line, and an output that never blocks.                 *)
(*                                                                           *)
(* Two host threads run in it. "cpu" is the SystemC thread, in which every   *)
(* register access of the processor is made; "input" is the pthread that     *)
(* copies characters from the standard input into the register. Nothing      *)
(* orders the two, so each access to logged, to the mask, to                 *)
(* raised_interrupt and to IRQ is a step. The xterm's own input thread       *)
(* throws every character away, because control_register is 0x28 at reset    *)
(* and the driver never sets bit 4 (line 44); it has no step here.           *)
EXTENDS Naturals, Sequences

CONSTANTS MaxTyped,      \* bound: characters that arrive on the standard input
          HasXterm       \* the UART has a console window as well

ASSUME UartAssumption == MaxTyped \in Nat /\ HasXterm \in BOOLEAN

Hosts == {"cpu", "input"}

Interrupts == {"TX_EMPTY", "RX_FULL", "RX_EMPTY", "RX_TRIGGER"}

(* Where a host thread is in update_interrupt: about to test the register,   *)
(* with what it found, about to store raised_interrupt, to load it again for *)
(* the line, and with what it loaded. "clear" is the cpu between the two     *)
(* accesses of rdch_nonblock.                                                *)
Stages == {"idle", "clear", "sample", "found", "none", "raise", "lower",
           "load", "high", "low"}

VARIABLES
    logged,              \* 0, or the number of the character in the register
    interrupt_mask,
    raised_interrupt,
    IRQ,                 \* the level of the line
    transmit_char,
    threads_started,
    typed,               \* characters that have arrived so far
    update,              \* update[h] \in Stages
    stdout,              \* the characters put on the standard output
    xterm                \* those shown in the console window

device == <<logged, interrupt_mask, raised_interrupt, IRQ, transmit_char,
            threads_started, typed, update, stdout, xterm>>

DeviceInit ==
    /\ logged = 0 /\ typed = 0
    /\ interrupt_mask = {}
    /\ raised_interrupt = FALSE /\ IRQ = FALSE
    /\ transmit_char = TRUE
    /\ threads_started = FALSE
    /\ update = [h \in Hosts |-> "idle"]
    /\ stdout = <<>> /\ xterm = <<>>

-----------------------------------------------------------------------------
(* testch starts the input thread when it is called for the first time.      *)
TestCh == threads_started' = TRUE

(* A read of the status register; its RX_EMPTY bit is logged = 0, and        *)
(* TX_FULL is never set.                                                     *)
ReadStatus ==
    /\ TestCh
    /\ UNCHANGED <<logged, interrupt_mask, raised_interrupt, IRQ, transmit_char,
                   typed, update, stdout, xterm>>

(* A read of the FIFO register: rdch_nonblock returns logged, then clears it *)
(* and calls update_interrupt, unless it was already empty.                  *)
ReadFifo ==
    /\ update' = [update EXCEPT !["cpu"] = IF logged = 0 THEN "idle" ELSE "clear"]
    /\ UNCHANGED <<logged, interrupt_mask, raised_interrupt, IRQ, transmit_char,
                   threads_started, typed, stdout, xterm>>

\* A form that leaves the character in the register.
ClearLoggedNot ==
    /\ update["cpu"] = "clear"
    /\ update' = [update EXCEPT !["cpu"] = "sample"]
    /\ UNCHANGED <<logged, interrupt_mask, raised_interrupt, IRQ, transmit_char,
                   threads_started, typed, stdout, xterm>>

ClearLogged ==
    /\ update["cpu"] = "clear"
    /\ logged' = 0
    /\ update' = [update EXCEPT !["cpu"] = "sample"]
    /\ UNCHANGED <<interrupt_mask, raised_interrupt, IRQ, transmit_char,
                   threads_started, typed, stdout, xterm>>

(* A write of the FIFO register: uart_wrch, to the window only while         *)
(* transmit_char is set.                                                     *)
WriteFifo(c) ==
    /\ stdout' = Append(stdout, c)
    /\ xterm' = IF HasXterm /\ transmit_char THEN Append(xterm, c) ELSE xterm
    /\ UNCHANGED <<logged, interrupt_mask, raised_interrupt, IRQ, transmit_char,
                   threads_started, typed, update>>

(* Writes of the interrupt enable and disable registers; neither calls       *)
(* update_interrupt.                                                         *)
WriteIER(i) ==
    /\ interrupt_mask' = interrupt_mask \cup {i}
    /\ transmit_char' = (i = "TX_EMPTY" \/ transmit_char)
    /\ UNCHANGED <<logged, raised_interrupt, IRQ, threads_started, typed, update,
                   stdout, xterm>>

WriteIDR(i) ==
    /\ interrupt_mask' = interrupt_mask \ {i}
    /\ transmit_char' = (i # "TX_EMPTY" /\ transmit_char)
    /\ UNCHANGED <<logged, raised_interrupt, IRQ, threads_started, typed, update,
                   stdout, xterm>>

-----------------------------------------------------------------------------
(* update_interrupt. The RX_EMPTY lane is inverted, so that unmasking it     *)
(* asks for an interrupt when there IS a character.                          *)
Asserted(exist) ==
    IF exist THEN Interrupts ELSE {"TX_EMPTY"}

Sample(h) ==
    /\ update[h] = "sample"
    /\ TestCh
    /\ update' = [update EXCEPT ![h] = IF logged # 0 THEN "found" ELSE "none"]
    /\ UNCHANGED <<logged, interrupt_mask, raised_interrupt, IRQ, transmit_char,
                   typed, stdout, xterm>>

Decide(h) ==
    /\ update[h] \in {"found", "none"}
    /\ LET exist == update[h] = "found"
           rise  == ~raised_interrupt /\ interrupt_mask \cap Asserted(exist) # {}
           fall  == raised_interrupt /\ ~exist
       IN update' = [update EXCEPT ![h] = IF rise THEN "raise"
                                          ELSE IF fall THEN "lower" ELSE "idle"]
    /\ UNCHANGED <<logged, interrupt_mask, raised_interrupt, IRQ, transmit_char,
                   threads_started, typed, stdout, xterm>>

StoreLevel(h) ==
    /\ update[h] \in {"raise", "lower"}
    /\ raised_interrupt' = (update[h] = "raise")
    /\ update' = [update EXCEPT ![h] = "load"]
    /\ UNCHANGED <<logged, interrupt_mask, IRQ, transmit_char, threads_started,
                   typed, stdout, xterm>>

(* IRQ = raised_interrupt, a load and a store: the other thread may change   *)
(* raised_interrupt before the load, and drive the line before the store.    *)
LoadLevel(h) ==
    /\ update[h] = "load"
    /\ update' = [update EXCEPT ![h] = IF raised_interrupt THEN "high" ELSE "low"]
    /\ UNCHANGED <<logged, interrupt_mask, raised_interrupt, IRQ, transmit_char,
                   threads_started, typed, stdout, xterm>>

DriveLine(h) ==
    /\ update[h] \in {"high", "low"}
    /\ IRQ' = (update[h] = "high")
    /\ update' = [update EXCEPT ![h] = "idle"]
    /\ UNCHANGED <<logged, interrupt_mask, raised_interrupt, transmit_char,
                   threads_started, typed, stdout, xterm>>

UpdateInterrupt(h) ==
    Sample(h) \/ Decide(h) \/ StoreLevel(h) \/ LoadLevel(h) \/ DriveLine(h)

(* The input thread: the next character replaces whatever is in the register.*)
Input ==
    /\ threads_started
    /\ update["input"] = "idle"
    /\ typed < MaxTyped
    /\ typed' = typed + 1
    /\ logged' = typed + 1
    /\ update' = [update EXCEPT !["input"] = "sample"]
    /\ UNCHANGED <<interrupt_mask, raised_interrupt, IRQ, transmit_char,
                   threads_started, stdout, xterm>>
=============================================================================

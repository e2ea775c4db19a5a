----------------------------- MODULE UartDriver -----------------------------
(* The UART driver uart64_driver.c on one core, above the device of Uart:    *)
(* polled reading and writing, and reading and writing through two rings     *)
(* that an interrupt service routine fills and drains.                       *)
(*                                                                           *)
(* A program calls the routines in any order, with craft_rdch until it calls *)
(* uart_reset_and_enable and uart_read_char after that.  The stub that calls *)
(* uart_isr_routine is not in the repository: here it is entered between any *)
(* two accesses of the program while IRQ is high, and runs to its end.       *)
(* Character n of the program is its n-th, so the data are numbers.          *)
EXTENDS Uart

CONSTANTS RingSize,      \* 256 in the code
          MaxWrites,     \* bounds: calls of craft_wrch and of the read routines
          MaxReads

ASSUME DriverAssumption == /\ RingSize \in Nat \ {0, 1}
                           /\ MaxWrites \in Nat /\ MaxReads \in Nat

VARIABLES
    main,                \* where the program is in a routine
    isr,                 \* where the service routine is, "off" outside it
    got,                 \* what the last read of the FIFO or of rx returned
    interrupts_enabled,
    tx, tx_inptr, tx_outptr,
    rx, rx_inptr, rx_outptr,
    written,             \* characters handed to the driver
    received             \* characters handed to the program

rings == <<tx, tx_inptr, tx_outptr, rx, rx_inptr, rx_outptr>>
program == <<interrupts_enabled, written, received>>
vars == <<device, main, isr, got, rings, program>>

Slots == 0 .. RingSize - 1

Init ==
    /\ DeviceInit
    /\ main = "idle" /\ isr = "off" /\ got = 0
    /\ interrupts_enabled = FALSE
    /\ tx = [s \in Slots |-> 0] /\ tx_inptr = 0 /\ tx_outptr = 0
    /\ rx = [s \in Slots |-> 0] /\ rx_inptr = 0 /\ rx_outptr = 0
    /\ written = 0 /\ received = <<>>

\* A form that wraps one slot late.
WrapLate(n) == IF n = RingSize THEN 0 ELSE n + 1
\* (n + 1) & 255
Next256(n) == (n + 1) % RingSize

-----------------------------------------------------------------------------
(* The core executes the program, unless it is in the service routine or its *)
(* last register access has not returned.                                    *)
At(from) == main = from /\ isr = "off" /\ update["cpu"] = "idle"
Goto(to) == main' = to /\ UNCHANGED isr

\* craft_rdch, which always polls.
PolledRead ==
    /\ At("idle") /\ ~interrupts_enabled /\ Len(received) < MaxReads
    /\ Goto("poll") /\ UNCHANGED <<device, got, rings, program>>

PollStatus ==
    /\ At("poll") /\ ReadStatus
    /\ Goto(IF logged = 0 THEN "poll" ELSE "receive")
    /\ UNCHANGED <<got, rings, program>>

PollReceive ==
    /\ At("receive") /\ ReadFifo /\ got' = logged
    /\ Goto("return") /\ UNCHANGED <<rings, program>>

ReadReturn ==
    /\ At("return") /\ received' = Append(received, got)
    /\ Goto("idle")
    /\ UNCHANGED <<device, got, rings, interrupts_enabled, written>>

\* craft_wrch before interrupts are enabled: TX_FULL is never set.  A newline
\* is two characters, each written by a call of its own.
PolledWrite ==
    /\ At("idle") /\ ~interrupts_enabled /\ written < MaxWrites
    /\ written' = written + 1 /\ WriteFifo(written + 1)
    /\ Goto("idle") /\ UNCHANGED <<got, rings, interrupts_enabled, received>>

\* uart_reset_and_enable.  A character that is waiting in the register stays there.
ResetAndEnable ==
    /\ At("idle") /\ ~interrupts_enabled
    /\ interrupts_enabled' = TRUE
    /\ rx_inptr' = 0 /\ rx_outptr' = 0 /\ tx_inptr' = 0 /\ tx_outptr' = 0
    /\ WriteIER("RX_EMPTY")
    /\ Goto("idle") /\ UNCHANGED <<got, tx, rx, written, received>>

-----------------------------------------------------------------------------
\* uart_read_char
ReadChar ==
    /\ At("idle") /\ interrupts_enabled /\ Len(received) < MaxReads
    /\ Goto("rx_wait") /\ UNCHANGED <<device, got, rings, program>>

RxWait ==
    /\ At("rx_wait") /\ rx_inptr # rx_outptr
    /\ Goto("rx_take") /\ UNCHANGED <<device, got, rings, program>>

RxTake ==
    /\ At("rx_take") /\ got' = rx[rx_outptr]
    /\ Goto("rx_bump") /\ UNCHANGED <<device, rings, program>>

RxBump ==
    /\ At("rx_bump") /\ rx_outptr' = Next256(rx_outptr)
    /\ Goto("return")
    /\ UNCHANGED <<device, got, tx, tx_inptr, tx_outptr, rx, rx_inptr, program>>

\* uart_write_char: wait for room, store, advance, unmask.
WriteChar ==
    /\ At("idle") /\ interrupts_enabled /\ written < MaxWrites
    /\ Goto("tx_wait") /\ UNCHANGED <<device, got, rings, program>>

\* A form that does not look at the ring.
TxNoWait ==
    /\ At("tx_wait")
    /\ Goto("tx_store") /\ UNCHANGED <<device, got, rings, program>>

TxWait ==
    /\ At("tx_wait") /\ Next256(tx_inptr) # tx_outptr
    /\ Goto("tx_store") /\ UNCHANGED <<device, got, rings, program>>

TxStore ==
    /\ At("tx_store")
    /\ written' = written + 1
    /\ tx' = [tx EXCEPT ![tx_inptr] = written + 1]
    /\ Goto("tx_bump")
    /\ UNCHANGED <<device, got, tx_inptr, tx_outptr, rx, rx_inptr, rx_outptr,
                   interrupts_enabled, received>>

TxBump ==
    /\ At("tx_bump") /\ tx_inptr' = Next256(tx_inptr)
    /\ Goto("tx_unmask")
    /\ UNCHANGED <<device, got, tx, tx_outptr, rx, rx_inptr, rx_outptr, program>>

TxUnmask ==
    /\ At("tx_unmask") /\ WriteIER("TX_EMPTY")
    /\ Goto("idle") /\ UNCHANGED <<got, rings, program>>

-----------------------------------------------------------------------------
(* uart_isr_routine: uart_rx_isr and uart_tx_isr in turn until neither finds *)
(* work.  "tx_idle" and "tx_busy" are uart_tx_isr after an uart_rx_isr that  *)
(* did nothing, or something.                                                *)
InIsr(from) == isr = from /\ update["cpu"] = "idle"
IsrGoto(to) == isr' = to /\ UNCHANGED main

EnterIsr ==
    /\ IRQ /\ InIsr("off")
    /\ IsrGoto("rx_status") /\ UNCHANGED <<device, got, rings, program>>

IsrRxStatus ==
    /\ InIsr("rx_status") /\ ReadStatus
    /\ IsrGoto(IF logged = 0 THEN "tx_idle" ELSE "rx_receive")
    /\ UNCHANGED <<got, rings, program>>

IsrRxReceive ==
    /\ InIsr("rx_receive") /\ ReadFifo
    /\ rx' = [rx EXCEPT ![rx_inptr] = logged]
    /\ IsrGoto("rx_bump")
    /\ UNCHANGED <<got, tx, tx_inptr, tx_outptr, rx_inptr, rx_outptr, program>>

IsrRxBump ==
    /\ InIsr("rx_bump") /\ rx_inptr' = Next256(rx_inptr)
    /\ IsrGoto("tx_busy")
    /\ UNCHANGED <<device, got, tx, tx_inptr, tx_outptr, rx, rx_outptr, program>>

\* A form that makes one pass only.
IsrTxEmptyOnce ==
    /\ isr \in {"tx_idle", "tx_busy"} /\ InIsr(isr) /\ tx_inptr = tx_outptr
    /\ WriteIDR("TX_EMPTY")
    /\ IsrGoto("off")
    /\ UNCHANGED <<got, rings, program>>

IsrTxEmpty ==
    /\ isr \in {"tx_idle", "tx_busy"} /\ InIsr(isr) /\ tx_inptr = tx_outptr
    /\ WriteIDR("TX_EMPTY")
    /\ IsrGoto(IF isr = "tx_busy" THEN "rx_status" ELSE "off")
    /\ UNCHANGED <<got, rings, program>>

IsrTxSend ==
    /\ isr \in {"tx_idle", "tx_busy"} /\ InIsr(isr) /\ tx_inptr # tx_outptr
    /\ WriteFifo(tx[tx_outptr])
    /\ tx_outptr' = Next256(tx_outptr)
    /\ IsrGoto("rx_status")
    /\ UNCHANGED <<got, tx, tx_inptr, rx, rx_inptr, rx_outptr, program>>

-----------------------------------------------------------------------------
Device(h) ==
    /\ UpdateInterrupt(h) \/ (h = "cpu" /\ ClearLogged)
    /\ UNCHANGED <<main, isr, got, rings, program>>

Typing == Input /\ UNCHANGED <<main, isr, got, rings, program>>

Calls == PolledRead \/ PolledWrite \/ ResetAndEnable \/ ReadChar \/ WriteChar

InCall == \/ PollStatus \/ PollReceive \/ ReadReturn \/ RxWait \/ RxTake
          \/ RxBump \/ TxWait \/ TxStore \/ TxBump \/ TxUnmask

Isr == \/ EnterIsr \/ IsrRxStatus \/ IsrRxReceive \/ IsrRxBump
       \/ IsrTxEmpty \/ IsrTxSend

Next == Calls \/ InCall \/ Isr \/ Typing \/ \E h \in Hosts : Device(h)

Spec == Init /\ [][Next]_vars

(* The simulator and the operating system run both threads, and a core takes *)
(* an interrupt that stays high; nobody has to call a routine or to type.    *)
Fairness == /\ WF_vars(InCall) /\ WF_vars(Isr)
            /\ \A h \in Hosts : WF_vars(Device(h))

FairSpec == Spec /\ Fairness

-----------------------------------------------------------------------------
(* Types of the driver's and of the device's variables.                      *)
TypeOK ==
    /\ logged \in 0 .. MaxTyped /\ typed \in 0 .. MaxTyped
    /\ interrupt_mask \subseteq Interrupts
    /\ {raised_interrupt, IRQ, transmit_char, threads_started, interrupts_enabled} \subseteq BOOLEAN
    /\ update \in [Hosts -> Stages]
    /\ {tx_inptr, tx_outptr, rx_inptr, rx_outptr} \subseteq Slots
    /\ tx \in [Slots -> 0 .. MaxWrites] /\ rx \in [Slots -> 0 .. MaxTyped]
    /\ got \in 0 .. MaxTyped /\ written \in 0 .. MaxWrites
    /\ stdout \in Seq(1 .. MaxWrites) /\ received \in Seq(0 .. MaxTyped)
    /\ xterm \in Seq(1 .. MaxWrites)

(* The UART puts out what the program wrote, in that order, with nothing     *)
(* lost in the middle and nothing twice, whether a character went through    *)
(* the ring or not.                                                          *)
SentInOrder ==
    /\ Len(stdout) <= written
    /\ \A n \in DOMAIN stdout : stdout[n] = n

(* The program reads what was typed, in that order, and never twice: polled  *)
(* reads and the receive ring hand out no character that was not in the      *)
(* register, though some are lost when the register or the ring overflows.   *)
ReceivedInOrder ==
    \A n \in DOMAIN received :
        /\ received[n] \in 1 .. typed
        /\ n > 1 => received[n] > received[n-1]

(* A character that arrives while the receive interrupt is unmasked does not *)
(* stay in the register, whatever update_interrupt is doing on the other     *)
(* thread: the line rises, or the service routine is in its loop already.    *)
(* The one exception, against uart64_driver.c:60, is a line that a store of  *)
(* DriveLine that came late has left low while raised_interrupt is set:      *)
(* update_interrupt then raises nothing.                                     *)
InputIsTaken ==
    \A k \in 1 .. MaxTyped :
        (/\ update["input"] = "sample" /\ "RX_EMPTY" \in interrupt_mask
         /\ logged = k
         /\ raised_interrupt => IRQ \/ update["cpu"] # "idle")
            ~> logged # k

(* What uart_write_char has put in the ring is sent in the end: the transmit *)
(* interrupt it unmasks at uart64_driver.c:91 makes the service routine      *)
(* drain the ring.                                                           *)
EveryCharacterIsSent ==
    \A n \in 1 .. MaxWrites : (written >= n) ~> (Len(stdout) >= n)
=============================================================================

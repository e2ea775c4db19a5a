-------------------------- MODULE UartDriver_proofs --------------------------
(* The two rings of uart64_driver.c, for every ring size, any number of      *)
(* characters and calls, and every interleaving of the program, the service  *)
(* routine and the input thread: what is sent is a prefix of what was        *)
(* written, and what is read was typed, in that order.                       *)
EXTENDS UartDriver, Integers, TLAPS

\* How many slots lie from o to i, and the j-th slot from o.
Dist(o, i) == IF o <= i THEN i - o ELSE i - o + RingSize
Pos(o, j) == IF o + j < RingSize THEN o + j ELSE o + j - RingSize

(* A character is published when tx_inptr has passed it.                     *)
Published == IF main = "tx_bump" THEN written - 1 ELSE written

TxTypes ==
    /\ stdout \in Seq(Nat) /\ written \in Nat
    /\ tx \in [Slots -> Nat] /\ tx_inptr \in Slots /\ tx_outptr \in Slots

(* The ring holds the published characters that are not sent, in order.      *)
RingHoldsUnsent ==
    /\ Published = Len(stdout) + Dist(tx_outptr, tx_inptr)
    /\ \A j \in Nat : j < Dist(tx_outptr, tx_inptr) =>
            tx[Pos(tx_outptr, j)] = Len(stdout) + 1 + j

(* What uart_write_char knows between its test for room and its advance; the *)
(* service routine can only make more room.                                  *)
WriterKnows ==
    /\ main \in {"tx_store", "tx_bump"} => Next256(tx_inptr) # tx_outptr
    /\ main = "tx_bump" => tx[tx_inptr] = written

(* Before interrupts are enabled the ring is not used.                       *)
RingUnused ==
    ~interrupts_enabled => /\ tx_inptr = tx_outptr
                           /\ main \notin {"tx_wait", "tx_store", "tx_bump"}

StdoutCounts == \A n \in DOMAIN stdout : stdout[n] = n

IInv == TxTypes /\ RingHoldsUnsent /\ WriterKnows /\ RingUnused /\ StdoutCounts

-----------------------------------------------------------------------------
(* Advancing a pointer is adding one, except at the end of the ring.         *)
LEMMA Advance ==
    ASSUME NEW n \in Slots
    PROVE  Next256(n) = IF n + 1 = RingSize THEN 0 ELSE n + 1
<1>1. n \in Int /\ RingSize \in Int /\ 0 <= n /\ n + 1 <= RingSize /\ 0 < RingSize
  BY DriverAssumption DEF Slots
<1>2. CASE n + 1 = RingSize
  BY <1>1, <1>2, SMT DEF Next256
<1>3. CASE n + 1 < RingSize
  BY <1>1, <1>3, SMT DEF Next256
<1> QED BY <1>1, <1>2, <1>3

LEMMA AdvanceType ==
    ASSUME NEW n \in Slots
    PROVE  Next256(n) \in Slots
BY Advance, DriverAssumption DEF Slots

(* Advancing tx_inptr into a free slot makes the ring one longer.            *)
LEMMA AdvanceIn ==
    ASSUME NEW o \in Slots, NEW i \in Slots, Next256(i) # o
    PROVE  /\ Dist(o, Next256(i)) = Dist(o, i) + 1
           /\ Pos(o, Dist(o, i)) = i
           /\ \A j \in Nat : j < Dist(o, i) => Pos(o, j) # i /\ Pos(o, j) \in Slots
BY Advance, DriverAssumption DEF Slots, Dist, Pos

(* Advancing tx_outptr in a ring that is not empty makes it one shorter.     *)
LEMMA AdvanceOut ==
    ASSUME NEW o \in Slots, NEW i \in Slots, i # o
    PROVE  /\ Dist(o, i) \in Nat \ {0}
           /\ Dist(Next256(o), i) = Dist(o, i) - 1
           /\ Pos(o, 0) = o
           /\ \A j \in Nat : j < Dist(o, i) - 1 => Pos(Next256(o), j) = Pos(o, j + 1)
           /\ Next256(i) # Next256(o)
BY Advance, DriverAssumption DEF Slots, Dist, Pos

LEMMA DistType ==
    ASSUME NEW o \in Slots, NEW i \in Slots
    PROVE  Dist(o, i) \in Nat /\ (Dist(o, i) = 0 <=> o = i)
BY DriverAssumption DEF Slots, Dist

-----------------------------------------------------------------------------
(* The steps that have nothing to do with the transmit ring.                 *)
TxVars == <<stdout, written, tx, tx_inptr, tx_outptr, interrupts_enabled>>

LEMMA Frame ==
    ASSUME IInv, UNCHANGED TxVars,
           \/ UNCHANGED main
           \/ /\ main \notin {"tx_store", "tx_bump"}
              /\ main' \notin {"tx_wait", "tx_store", "tx_bump"}
    PROVE  IInv'
BY DEF IInv, TxVars, TxTypes, RingHoldsUnsent, WriterKnows, RingUnused,
       StdoutCounts, Published, Dist, Pos, Slots, Next256

LEMMA Initially == Init => IInv
<1> SUFFICES ASSUME Init PROVE IInv
  OBVIOUS
<1>1. 0 \in Slots /\ Dist(0, 0) = 0
  BY DriverAssumption DEF Slots, Dist
<1>2. stdout = <<>> /\ stdout \in Seq(Nat) /\ Len(stdout) = 0 /\ DOMAIN stdout = {}
  BY DEF Init, DeviceInit
<1> QED
  BY <1>1, <1>2 DEF Init, IInv, TxTypes, RingHoldsUnsent, WriterKnows,
     RingUnused, StdoutCounts, Published

-----------------------------------------------------------------------------
(* A polled write meets an empty ring, so all that was written is sent.      *)
LEMMA PolledWriteKeeps ==
    ASSUME IInv, PolledWrite
    PROVE  IInv'
<1>1. main = "idle" /\ main' = "idle" /\ written' = written + 1
  BY DEF PolledWrite, At, Goto
<1>2. stdout' = Append(stdout, written + 1)
  BY DEF PolledWrite, WriteFifo
<1>3. UNCHANGED <<tx, tx_inptr, tx_outptr, interrupts_enabled>>
  BY DEF PolledWrite, rings
<1>4. tx_inptr = tx_outptr /\ ~interrupts_enabled
  BY DEF PolledWrite, IInv, RingUnused
<1>5. tx_inptr \in Slots /\ tx_outptr \in Slots /\ stdout \in Seq(Nat) /\ written \in Nat
  BY DEF IInv, TxTypes
<1>6. Dist(tx_outptr, tx_inptr) = 0 /\ Dist(tx_outptr, tx_inptr)' = 0
  BY <1>3, <1>4, <1>5, DistType DEF Dist
<1>7. written = Len(stdout)
  BY <1>1, <1>5, <1>6 DEF IInv, RingHoldsUnsent, Published
<1>8. Len(stdout') = written + 1 /\ stdout' \in Seq(Nat)
  BY <1>2, <1>5, <1>7
<1>9. TxTypes'
  BY <1>1, <1>3, <1>8 DEF IInv, TxTypes, Slots
<1>10. RingHoldsUnsent'
  BY <1>1, <1>5, <1>6, <1>8 DEF RingHoldsUnsent, Published
<1>11. StdoutCounts'
  BY <1>2, <1>5, <1>7 DEF IInv, StdoutCounts
<1> QED
  BY <1>1, <1>3, <1>4, <1>9, <1>10, <1>11 DEF IInv, WriterKnows, RingUnused

(* The pointers are reset while the ring is empty.                           *)
LEMMA ResetKeeps ==
    ASSUME IInv, ResetAndEnable
    PROVE  IInv'
<1>1. main = "idle" /\ main' = "idle" /\ tx_inptr' = 0 /\ tx_outptr' = 0
  BY DEF ResetAndEnable, At, Goto
<1>2. UNCHANGED <<tx, stdout, written>> /\ interrupts_enabled'
  BY DEF ResetAndEnable, WriteIER
<1>3. tx_inptr = tx_outptr /\ tx_inptr \in Slots /\ 0 \in Slots
  BY DriverAssumption DEF ResetAndEnable, IInv, RingUnused, TxTypes, Slots
<1>4. Dist(tx_outptr, tx_inptr) = 0 /\ Dist(tx_outptr, tx_inptr)' = 0
  BY <1>1, <1>3 DEF Dist, Slots
<1> QED
  BY <1>1, <1>2, <1>3, <1>4 DEF IInv, TxTypes, RingHoldsUnsent, Published,
     WriterKnows, RingUnused, StdoutCounts, Slots

(* Entering uart_write_char, and finding room in the ring.                   *)
LEMMA WaitKeeps ==
    ASSUME IInv, WriteChar \/ TxWait
    PROVE  IInv'
<1>1. UNCHANGED TxVars
  BY DEF WriteChar, TxWait, TxVars, device, rings, program
<1>2. CASE WriteChar
  BY <1>1, <1>2 DEF WriteChar, At, Goto, TxVars, IInv, TxTypes, RingHoldsUnsent,
     WriterKnows, RingUnused, StdoutCounts, Published, Dist, Pos, Slots
<1>3. CASE TxWait
  <2>1. main = "tx_wait" /\ main' = "tx_store" /\ Next256(tx_inptr) # tx_outptr
    BY <1>3 DEF TxWait, At, Goto
  <2> QED
    BY <1>1, <2>1 DEF TxVars, IInv, TxTypes, RingHoldsUnsent, WriterKnows,
       RingUnused, StdoutCounts, Published, Dist, Pos, Slots, Next256
<1> QED BY <1>2, <1>3

(* The store goes to the slot at tx_inptr, which holds nothing unsent.       *)
LEMMA StoreKeeps ==
    ASSUME IInv, TxStore
    PROVE  IInv'
<1>1. main = "tx_store" /\ main' = "tx_bump" /\ written' = written + 1
  BY DEF TxStore, At, Goto
<1>2. tx' = [tx EXCEPT ![tx_inptr] = written + 1]
  BY DEF TxStore
<1>3. UNCHANGED <<stdout, tx_inptr, tx_outptr, interrupts_enabled>>
  BY DEF TxStore, device
<1>4. TxTypes /\ Next256(tx_inptr) # tx_outptr /\ interrupts_enabled
  BY <1>1 DEF IInv, WriterKnows, RingUnused
<1>5. \A j \in Nat : j < Dist(tx_outptr, tx_inptr) =>
          Pos(tx_outptr, j) # tx_inptr /\ Pos(tx_outptr, j) \in Slots
  BY <1>4, AdvanceIn DEF TxTypes
<1>6. \A j \in Nat : j < Dist(tx_outptr, tx_inptr) => tx'[Pos(tx_outptr, j)] = Len(stdout) + 1 + j
  BY <1>2, <1>4, <1>5 DEF IInv, RingHoldsUnsent, TxTypes
<1>7. RingHoldsUnsent'
  BY <1>1, <1>3, <1>4, <1>6 DEF IInv, RingHoldsUnsent, Published, TxTypes, Dist, Pos
<1>8. TxTypes'
  BY <1>1, <1>2, <1>3, <1>4 DEF TxTypes, Slots
<1>9. WriterKnows'
  BY <1>1, <1>2, <1>3, <1>4 DEF WriterKnows, TxTypes, Next256
<1> QED
  BY <1>3, <1>4, <1>7, <1>8, <1>9 DEF IInv, RingUnused, StdoutCounts

(* Advancing tx_inptr publishes the character that was stored.               *)
LEMMA BumpKeeps ==
    ASSUME IInv, TxBump
    PROVE  IInv'
<1>1. main = "tx_bump" /\ main' = "tx_unmask" /\ tx_inptr' = Next256(tx_inptr)
  BY DEF TxBump, At, Goto
<1>2. UNCHANGED <<stdout, written, tx, tx_outptr, interrupts_enabled>>
  BY DEF TxBump, device, program
<1>3. TxTypes /\ Next256(tx_inptr) # tx_outptr /\ tx[tx_inptr] = written /\ interrupts_enabled
  BY <1>1 DEF IInv, WriterKnows, RingUnused
<1> DEFINE d == Dist(tx_outptr, tx_inptr)
<1>4. d \in Nat /\ Dist(tx_outptr, Next256(tx_inptr)) = d + 1 /\ Pos(tx_outptr, d) = tx_inptr
  BY <1>3, AdvanceIn, DistType DEF TxTypes
<1>5. written - 1 = Len(stdout) + d /\ Len(stdout) \in Nat /\ written \in Nat
  BY <1>1, <1>3 DEF IInv, RingHoldsUnsent, Published, TxTypes
<1>6. \A j \in Nat : j < d + 1 => tx[Pos(tx_outptr, j)] = Len(stdout) + 1 + j
  <2> SUFFICES ASSUME NEW j \in Nat, j < d + 1
               PROVE  tx[Pos(tx_outptr, j)] = Len(stdout) + 1 + j
    OBVIOUS
  <2> HIDE DEF d
  <2>1. CASE j = d
    BY <1>3, <1>4, <1>5, <2>1
  <2>2. CASE j < d
    BY <2>2 DEF IInv, RingHoldsUnsent, d
  <2> QED BY <1>4, <2>1, <2>2
<1>7. Dist(tx_outptr, tx_inptr)' = d + 1
  BY <1>1, <1>2, <1>4 DEF Dist
<1>8. Published' = Len(stdout)' + Dist(tx_outptr, tx_inptr)'
  BY <1>1, <1>2, <1>4, <1>5, <1>7 DEF Published
<1>9. RingHoldsUnsent'
  BY <1>2, <1>6, <1>7, <1>8 DEF RingHoldsUnsent, Pos
<1>10. TxTypes'
  BY <1>1, <1>2, <1>3, AdvanceType DEF TxTypes, Slots
<1> QED
  BY <1>1, <1>2, <1>3, <1>9, <1>10 DEF IInv, RingUnused, StdoutCounts, WriterKnows

(* The service routine sends the oldest character of the ring.               *)
LEMMA SendKeeps ==
    ASSUME IInv, IsrTxSend
    PROVE  IInv'
<1>1. stdout' = Append(stdout, tx[tx_outptr]) /\ tx_outptr' = Next256(tx_outptr)
  BY DEF IsrTxSend, WriteFifo
<1>2. UNCHANGED <<main, written, tx, tx_inptr, interrupts_enabled>>
  BY DEF IsrTxSend, IsrGoto, program
<1>3. TxTypes /\ tx_inptr # tx_outptr /\ interrupts_enabled
  BY DEF IsrTxSend, IInv, RingUnused
<1> DEFINE d == Dist(tx_outptr, tx_inptr)
<1>4. /\ d \in Nat \ {0} /\ Dist(Next256(tx_outptr), tx_inptr) = d - 1
      /\ Pos(tx_outptr, 0) = tx_outptr
      /\ \A j \in Nat : j < d - 1 => Pos(Next256(tx_outptr), j) = Pos(tx_outptr, j + 1)
      /\ Next256(tx_inptr) # Next256(tx_outptr)
  BY <1>3, AdvanceOut DEF TxTypes
<1>5. tx[tx_outptr] = Len(stdout) + 1
  <2>1. 0 \in Nat /\ 0 < d /\ Len(stdout) \in Nat
    BY <1>3, <1>4 DEF TxTypes
  <2>2. tx[Pos(tx_outptr, 0)] = Len(stdout) + 1 + 0
    BY <2>1 DEF IInv, RingHoldsUnsent
  <2> QED BY <1>4, <2>1, <2>2
<1>6. stdout \in Seq(Nat) /\ stdout' \in Seq(Nat) /\ Len(stdout') = Len(stdout) + 1
  BY <1>1, <1>3, <1>5 DEF TxTypes
<1>7. Dist(tx_outptr, tx_inptr)' = d - 1
  BY <1>1, <1>2, <1>4 DEF Dist
<1>8. Published' = Len(stdout') + (d - 1)
  <2>1. Published = Len(stdout) + d /\ Published' = Published
    BY <1>2 DEF IInv, RingHoldsUnsent, Published
  <2> HIDE DEF d
  <2> QED BY <1>4, <1>6, <2>1
<1>9. \A j \in Nat : j < d - 1 => tx[Pos(Next256(tx_outptr), j)] = Len(stdout') + 1 + j
  <2> SUFFICES ASSUME NEW j \in Nat, j < d - 1
               PROVE  tx[Pos(Next256(tx_outptr), j)] = Len(stdout') + 1 + j
    OBVIOUS
  <2>1. tx[Pos(tx_outptr, j + 1)] = Len(stdout) + 1 + (j + 1)
    <3>1. j + 1 \in Nat /\ j + 1 < d
      BY <1>4
    <3> QED BY <3>1 DEF IInv, RingHoldsUnsent
  <2> QED BY <1>4, <1>6, <2>1
<1>10. RingHoldsUnsent'
  BY <1>1, <1>2, <1>7, <1>8, <1>9 DEF RingHoldsUnsent, Pos
<1>11. TxTypes'
  BY <1>1, <1>2, <1>3, <1>6, AdvanceType DEF TxTypes, Slots
<1>12. StdoutCounts'
  BY <1>1, <1>5, <1>6 DEF IInv, StdoutCounts
<1>13. WriterKnows'
  BY <1>1, <1>2, <1>4 DEF IInv, WriterKnows, Next256
<1> QED
  BY <1>2, <1>3, <1>10, <1>11, <1>12, <1>13 DEF IInv, RingUnused

-----------------------------------------------------------------------------
LEMMA StepKeeps == IInv /\ [Next]_vars => IInv'
<1> SUFFICES ASSUME IInv, [Next]_vars PROVE IInv'
  OBVIOUS
<1> USE DEF TxVars, device, rings, program
<1>1. CASE PolledWrite
  BY <1>1, PolledWriteKeeps
<1>2. CASE ResetAndEnable
  BY <1>2, ResetKeeps
<1>3. CASE WriteChar \/ TxWait
  BY <1>3, WaitKeeps
<1>4. CASE TxStore
  BY <1>4, StoreKeeps
<1>5. CASE TxBump
  BY <1>5, BumpKeeps
<1>6. CASE IsrTxSend
  BY <1>6, SendKeeps
<1>7. CASE TxUnmask
  BY <1>7, Frame DEF TxUnmask, WriteIER, At, Goto
<1>8. CASE PolledRead \/ PollStatus \/ PollReceive \/ ReadReturn
  BY <1>8, Frame DEF PolledRead, PollStatus, PollReceive, ReadReturn, ReadStatus,
     ReadFifo, At, Goto
<1>9. CASE ReadChar \/ RxWait \/ RxTake \/ RxBump
  BY <1>9, Frame DEF ReadChar, RxWait, RxTake, RxBump, At, Goto
<1>10. CASE EnterIsr \/ IsrRxStatus \/ IsrRxReceive \/ IsrRxBump \/ IsrTxEmpty
  BY <1>10, Frame DEF EnterIsr, IsrRxStatus, IsrRxReceive, IsrRxBump, IsrTxEmpty,
     ReadStatus, ReadFifo, WriteIDR, IsrGoto
<1>11. CASE Typing \/ \E h \in Hosts : Device(h)
  BY <1>11, Frame DEF Typing, Input, Device, UpdateInterrupt, Sample, Decide,
     StoreLevel, LoadLevel, DriveLine, ClearLogged
<1>12. CASE UNCHANGED vars
  BY <1>12, Frame DEF vars
<1> QED
  BY <1>1, <1>2, <1>3, <1>4, <1>5, <1>6, <1>7, <1>8, <1>9, <1>10, <1>11, <1>12
  DEF Next, Calls, InCall, Isr

(* The ring holds exactly the characters that are written and not sent.      *)
THEOREM Invariance == Spec => []IInv
BY Initially, StepKeeps, PTL DEF Spec

LEMMA Sent == IInv => SentInOrder
<1> SUFFICES ASSUME IInv PROVE Len(stdout) <= written
  BY DEF IInv, StdoutCounts, SentInOrder
<1>1. Dist(tx_outptr, tx_inptr) \in Nat /\ Len(stdout) \in Nat /\ written \in Nat
  BY DistType DEF IInv, TxTypes
<1> QED BY <1>1 DEF IInv, RingHoldsUnsent, Published

(* craft_wrch keeps the order of the characters, through the ring or not.    *)
THEOREM Order == Spec => []SentInOrder
BY Sent, Invariance, PTL

-----------------------------------------------------------------------------
(* Types.  What is sent is in range because it is what was written.        *)
LEMMA Appending ==
    ASSUME NEW S, NEW q \in Seq(S), NEW e \in S, NEW r, r = q \/ r = Append(q, e)
    PROVE  r \in Seq(S)
OBVIOUS

WriteRoom == main \in {"tx_wait", "tx_store"} => written < MaxWrites

LEMMA InitTypes == Init => TypeOK /\ WriteRoom
<1>1. 0 \in Slots /\ 0 \in 0 .. MaxTyped /\ 0 \in 0 .. MaxWrites
  BY DriverAssumption, UartAssumption DEF Slots
<1>2. update = [h \in Hosts |-> "idle"] => update \in [Hosts -> Stages]
  BY DEF Stages
<1> QED BY <1>1, <1>2 DEF Init, DeviceInit, TypeOK, WriteRoom

LEMMA DeviceTypes ==
    ASSUME TypeOK, WriteRoom, Typing \/ \E h \in Hosts : Device(h)
    PROVE  TypeOK' /\ WriteRoom'
<1> USE DEF TypeOK, WriteRoom, rings, program, Stages, Hosts
<1>1. CASE Typing
  <2>1. logged' \in 0 .. MaxTyped /\ typed' \in 0 .. MaxTyped
    <3>1. /\ typed < MaxTyped /\ typed \in 0 .. MaxTyped
          /\ typed' = typed + 1 /\ logged' = typed + 1
      BY <1>1 DEF Typing, Input
    <3> HIDE DEF TypeOK
    <3> QED BY <3>1, UartAssumption
  <2> QED BY <1>1, <2>1 DEF Typing, Input
<1>2. ASSUME NEW h \in Hosts, Device(h) PROVE TypeOK' /\ WriteRoom'
  <2>1. CASE Sample(h)
    BY <1>2, <2>1 DEF Device, Sample, TestCh
  <2>2. CASE Decide(h)
    BY <1>2, <2>2 DEF Device, Decide
  <2>3. CASE StoreLevel(h)
    BY <1>2, <2>3 DEF Device, StoreLevel
  <2>5. CASE LoadLevel(h)
    BY <1>2, <2>5 DEF Device, LoadLevel
  <2>6. CASE DriveLine(h)
    BY <1>2, <2>6 DEF Device, DriveLine
  <2>4. CASE ClearLogged
    BY <1>2, <2>4, UartAssumption DEF Device, ClearLogged
  <2> QED BY <1>2, <2>1, <2>2, <2>3, <2>4, <2>5, <2>6 DEF Device, UpdateInterrupt
<1> QED BY <1>1, <1>2

LEMMA CallTypes ==
    ASSUME TypeOK, WriteRoom, Calls \/ InCall
    PROVE  TypeOK' /\ WriteRoom'
<1> USE DEF TypeOK, WriteRoom, rings, program, device, Stages, Hosts, Goto
<1>1. CASE PolledRead \/ ReadChar \/ WriteChar \/ RxWait \/ TxWait
  BY <1>1 DEF PolledRead, ReadChar, WriteChar, RxWait, TxWait, At
<1>2. CASE PolledWrite
  <2>1. written' = written + 1 /\ written' \in 1 .. MaxWrites
    <3>1. written \in 0 .. MaxWrites /\ written < MaxWrites /\ written' = written + 1
      BY <1>2 DEF PolledWrite
    <3> HIDE DEF TypeOK, rings, program, device, Stages, Hosts, Goto, WriteRoom
    <3> QED BY <3>1, DriverAssumption
  <2>2. stdout' \in Seq(1 .. MaxWrites)
    BY <1>2, <2>1 DEF PolledWrite, WriteFifo
  <2>3. xterm' = xterm \/ xterm' = Append(xterm, written')
    BY <1>2, <2>1 DEF PolledWrite, WriteFifo
  <2>4. xterm' \in Seq(1 .. MaxWrites)
    <3>1. xterm \in Seq(1 .. MaxWrites)
      OBVIOUS
    <3> HIDE DEF TypeOK, rings, program, device, Stages, Hosts, Goto, WriteRoom
    <3>2. written + 1 \in 1 .. MaxWrites /\ (xterm' = xterm \/ xterm' = Append(xterm, written + 1))
      BY <2>1, <2>3
    <3> QED BY <3>1, <3>2, Appending, Zenon
  <2>5. /\ main' = "idle" /\ written' \in 0 .. MaxWrites
        /\ UNCHANGED <<logged, typed, interrupt_mask, raised_interrupt, IRQ, transmit_char>>
        /\ UNCHANGED <<threads_started, update, got, rings, interrupts_enabled, received>>
    BY <1>2, <2>1, DriverAssumption DEF PolledWrite, WriteFifo
  <2> HIDE <1>2
  <2> QED BY <2>2, <2>4, <2>5
<1>3. CASE ResetAndEnable
  <2>1. 0 \in Slots /\ transmit_char' = transmit_char /\ interrupts_enabled' = TRUE
    BY <1>3, DriverAssumption DEF ResetAndEnable, WriteIER, Slots
  <2>2. interrupt_mask' \subseteq Interrupts
    BY <1>3 DEF ResetAndEnable, WriteIER, Interrupts
  <2> QED BY <1>3, <2>1, <2>2 DEF ResetAndEnable, WriteIER
<1>4. CASE PollStatus
  BY <1>4 DEF PollStatus, ReadStatus, TestCh
<1>5. CASE PollReceive
  BY <1>5 DEF PollReceive, ReadFifo
<1>6. CASE ReadReturn
  <2>1. received' \in Seq(0 .. MaxTyped)
    <3>1. received' = Append(received, got) /\ got \in 0 .. MaxTyped
          /\ received \in Seq(0 .. MaxTyped)
      BY <1>6 DEF ReadReturn
    <3> HIDE DEF TypeOK
    <3> QED BY <3>1, Appending, Zenon
  <2> QED BY <1>6, <2>1 DEF ReadReturn
<1>7. CASE RxTake
  BY <1>7 DEF RxTake
<1>8. CASE RxBump
  BY <1>8, AdvanceType DEF RxBump
<1>9. CASE TxStore
  <2>1. written' = written + 1 /\ written' \in 0 .. MaxWrites
    <3>1. written < MaxWrites /\ written \in 0 .. MaxWrites /\ written' = written + 1
      BY <1>9 DEF TxStore, At
    <3> HIDE DEF TypeOK
    <3> QED BY <3>1, DriverAssumption
  <2>2. tx' \in [Slots -> 0 .. MaxWrites]
    <3>1. tx' = [tx EXCEPT ![tx_inptr] = written'] /\ tx \in [Slots -> 0 .. MaxWrites]
      BY <1>9, <2>1 DEF TxStore
    <3> HIDE DEF TypeOK
    <3> QED BY <2>1, <3>1
  <2> QED BY <1>9, <2>1, <2>2 DEF TxStore, At
<1>10. CASE TxBump
  BY <1>10, AdvanceType DEF TxBump
<1>11. CASE TxUnmask
  BY <1>11 DEF TxUnmask, WriteIER, Interrupts
<1> QED
  BY <1>1, <1>2, <1>3, <1>4, <1>5, <1>6, <1>7, <1>8, <1>9, <1>10, <1>11 DEF Calls, InCall

LEMMA IsrTypes ==
    ASSUME TypeOK, WriteRoom, IInv, IInv', Isr
    PROVE  TypeOK' /\ WriteRoom'
<1> USE DEF TypeOK, WriteRoom, rings, program, device, Stages, Hosts, IsrGoto
<1>1. CASE EnterIsr
  BY <1>1 DEF EnterIsr
<1>2. CASE IsrRxStatus
  BY <1>2 DEF IsrRxStatus, ReadStatus, TestCh
<1>3. CASE IsrRxReceive
  BY <1>3 DEF IsrRxReceive, ReadFifo
<1>4. CASE IsrRxBump
  BY <1>4, AdvanceType DEF IsrRxBump
<1>5. CASE IsrTxEmpty
  BY <1>5 DEF IsrTxEmpty, WriteIDR
<1>6. CASE IsrTxSend
  <2>1. stdout' = Append(stdout, tx[tx_outptr])
    BY <1>6 DEF IsrTxSend, WriteFifo
  <2>2. tx[tx_outptr] = Len(stdout) + 1 /\ Len(stdout') = Len(stdout) + 1
    <3>1. stdout \in Seq(Nat) /\ stdout' \in Seq(Nat) /\ tx[tx_outptr] \in Nat
      BY DEF IInv, TxTypes
    <3>2. Len(stdout') = Len(stdout) + 1 /\ stdout'[Len(stdout')] = tx[tx_outptr]
      BY <2>1, <3>1
    <3>3. StdoutCounts' /\ Len(stdout') \in DOMAIN stdout'
      BY <3>1, <3>2 DEF IInv
    <3> QED BY <3>2, <3>3 DEF StdoutCounts
  <2>3. Len(stdout') <= written
    <3>1. Dist(tx_outptr, tx_inptr) \in Nat \ {0}
      BY <1>6, DistType DEF IsrTxSend, IInv, TxTypes
    <3>2. Len(stdout) \in Nat /\ written \in Nat
      BY DEF IInv, TxTypes
    <3>3. Published = Len(stdout) + Dist(tx_outptr, tx_inptr)
      BY DEF IInv, RingHoldsUnsent
    <3> HIDE DEF TypeOK, WriteRoom, rings, program, device, Stages, Hosts, IsrGoto
    <3>4. Published <= written
      BY <3>2 DEF Published
    <3> QED BY <2>2, <3>1, <3>2, <3>3, <3>4
  <2>4. tx[tx_outptr] \in 1 .. MaxWrites
    BY <2>2, <2>3, DriverAssumption DEF IInv, TxTypes
  <2>5. stdout' \in Seq(1 .. MaxWrites)
    BY <2>1, <2>4
  <2>6. xterm' = xterm \/ xterm' = Append(xterm, tx[tx_outptr])
    BY <1>6 DEF IsrTxSend, WriteFifo
  <2>7. xterm' \in Seq(1 .. MaxWrites)
    <3>1. xterm \in Seq(1 .. MaxWrites)
      OBVIOUS
    <3> HIDE DEF TypeOK, rings, program, device, Stages, Hosts, IsrGoto, WriteRoom
    <3> QED BY <2>4, <2>6, <3>1, Appending, Zenon
  <2> QED BY <1>6, <2>5, <2>7, AdvanceType DEF IsrTxSend, WriteFifo
<1> QED
  BY <1>1, <1>2, <1>3, <1>4, <1>5, <1>6 DEF Isr

LEMMA TypesKept == TypeOK /\ WriteRoom /\ IInv /\ IInv' /\ [Next]_vars => TypeOK' /\ WriteRoom'
<1> SUFFICES ASSUME TypeOK, WriteRoom, IInv, IInv', [Next]_vars PROVE TypeOK' /\ WriteRoom'
  OBVIOUS
<1>1. CASE UNCHANGED vars
  BY <1>1 DEF vars, device, rings, program, TypeOK, WriteRoom
<1> QED BY <1>1, DeviceTypes, CallTypes, IsrTypes DEF Next

(* The pointers stay inside the rings, and nothing but characters that were  *)
(* written and typed is in them or comes out of them.                        *)
THEOREM DriverTypeOK == Spec => []TypeOK
BY InitTypes, TypesKept, Invariance, PTL DEF Spec

-----------------------------------------------------------------------------
(* The receive ring.  Nothing stops the service routine when the ring is     *)
(* full: rx_inptr then runs into rx_outptr, and the ring counts as empty,    *)
(* except for a reader that has seen a character already.  First is the slot *)
(* to be read next and Count the number of slots that can be read from there.*)
First == IF main = "rx_bump" THEN Next256(rx_outptr) ELSE rx_outptr
Count == IF main = "rx_take" /\ rx_inptr = rx_outptr THEN RingSize ELSE Dist(First, rx_inptr)

(* The service routine has stored to the slot that the reader is to read.    *)
Skipped == IF isr = "rx_bump" /\ Count = RingSize THEN 1 ELSE 0

InHand == main \in {"rx_bump", "return"}

(* Every character that the program has or could still read is before x.     *)
Delivered(x) == /\ \A n \in DOMAIN received : received[n] < x
                /\ InHand => got < x
Before(x) == /\ Delivered(x)
             /\ \A j \in Nat : Skipped <= j /\ j < Count => rx[Pos(First, j)] < x

ReceivedRises ==
    /\ \A n \in DOMAIN received : received[n] \in 1 .. typed
    /\ \A m, n \in DOMAIN received : m < n => received[m] < received[n]
HandIsNewer ==
    InHand => got \in 1 .. typed /\ \A n \in DOMAIN received : received[n] < got
RingRises ==
    \A j \in Nat : Skipped <= j /\ j < Count =>
        /\ rx[Pos(First, j)] \in 1 .. typed
        /\ Delivered(rx[Pos(First, j)])
        /\ \A i \in Nat : Skipped <= i /\ i < j => rx[Pos(First, i)] < rx[Pos(First, j)]
StoredIsNewest ==
    isr = "rx_bump" => rx[rx_inptr] \in 1 .. typed /\ Before(rx[rx_inptr])
LoggedIsNewest ==
    logged # 0 /\ update["cpu"] # "clear" =>
        Before(logged) /\ (isr = "rx_bump" => rx[rx_inptr] < logged)

(* Before interrupts are enabled the service routine does not run, and a     *)
(* routine that has seen a character in the register finds one there.        *)
RxControl ==
    /\ logged <= typed
    /\ ~interrupts_enabled =>
          /\ isr = "off" /\ interrupt_mask = {} /\ ~raised_interrupt /\ ~IRQ
          /\ \A h \in Hosts : update[h] \notin {"raise", "high"}
          /\ rx_inptr = rx_outptr
          /\ main \in {"idle", "poll", "receive", "return"}
    /\ main \in {"poll", "receive"} => ~interrupts_enabled
    /\ main = "receive" => update["cpu"] = "idle" /\ logged # 0
    /\ isr = "rx_receive" => update["cpu"] = "idle" /\ logged # 0

RxOrder == ReceivedRises /\ HandIsNewer /\ RingRises /\ StoredIsNewest /\ LoggedIsNewest

RInv == RxControl /\ RxOrder

-----------------------------------------------------------------------------
LEMMA InitReceives == Init => RInv
<1> SUFFICES ASSUME Init PROVE RInv
  OBVIOUS
<1>1. 0 \in Slots /\ Dist(0, 0) = 0
  BY DriverAssumption DEF Slots, Dist
<1>2. Count = 0 /\ DOMAIN received = {} /\ ~InHand /\ isr = "off" /\ logged = 0
  BY <1>1 DEF Init, DeviceInit, Count, First, InHand
<1>3. RxControl
  BY DEF Init, DeviceInit, RxControl, Hosts
<1>4. RingRises
  BY <1>2 DEF RingRises, Skipped
<1> QED
  BY <1>2, <1>3, <1>4 DEF RInv, RxOrder, ReceivedRises, HandIsNewer, StoredIsNewest, LoggedIsNewest

(* Steps that leave the characters the program can read alone and at most    *)
(* empty the register or put the next character in it.                       *)
LEMMA RxFrame ==
    ASSUME TypeOK, RInv,
           UNCHANGED <<rx, rx_inptr, received, got, First, Count>>,
           InHand' <=> InHand,
           isr' = "rx_bump" <=> isr = "rx_bump",
           typed' \in Nat, typed <= typed',
           \/ logged' = 0
           \/ logged' = typed + 1
           \/ logged' = logged /\ (update'["cpu"] # "clear" => update["cpu"] # "clear")
    PROVE  RxOrder'
<1>1. typed \in Nat /\ logged \in Nat
  BY UartAssumption DEF TypeOK
<1>2. First' = First /\ Count' = Count /\ Skipped' = Skipped
  BY DEF Skipped
<1>3. ReceivedRises' /\ HandIsNewer'
  BY <1>1, <1>2 DEF RInv, RxOrder, ReceivedRises, HandIsNewer
<1>4. RingRises'
  BY <1>1, <1>2 DEF RInv, RxOrder, RingRises, Delivered, Pos
<1>5. StoredIsNewest'
  BY <1>1, <1>2 DEF RInv, RxOrder, StoredIsNewest, Before, Delivered, Pos
<1>6. LoggedIsNewest'
  <2>1. CASE logged' = 0
    BY <2>1 DEF LoggedIsNewest
  <2>2. CASE logged' = logged /\ (update'["cpu"] # "clear" => update["cpu"] # "clear")
    BY <1>2, <2>2 DEF RInv, RxOrder, LoggedIsNewest, Before, Delivered, Pos
  <2>3. CASE logged' = typed + 1
    <3>1. \A n \in DOMAIN received : received[n] < typed + 1
      BY <1>1 DEF RInv, RxOrder, ReceivedRises
    <3>2. InHand => got < typed + 1
      BY <1>1 DEF RInv, RxOrder, HandIsNewer
    <3>3. \A j \in Nat : Skipped <= j /\ j < Count => rx[Pos(First, j)] < typed + 1
      BY <1>1 DEF RInv, RxOrder, RingRises
    <3>4. isr = "rx_bump" => rx[rx_inptr] < typed + 1
      BY <1>1 DEF RInv, RxOrder, StoredIsNewest
    <3> QED BY <1>2, <2>3, <3>1, <3>2, <3>3, <3>4 DEF LoggedIsNewest, Before, Delivered, Pos
  <2> QED BY <2>1, <2>2, <2>3
<1> QED BY <1>3, <1>4, <1>5, <1>6 DEF RxOrder

(* The routines that do not read, and the device, are such steps.            *)
LEMMA RxUntouched ==
    ASSUME UNCHANGED <<rx_inptr, rx_outptr>>,
           \/ main' = main
           \/ /\ main \notin {"rx_take", "rx_bump", "return"}
              /\ main' \notin {"rx_take", "rx_bump", "return"}
    PROVE  UNCHANGED <<First, Count>> /\ (InHand' <=> InHand)
BY DEF First, Count, InHand, Dist, Next256

LEMMA DeviceReceives ==
    ASSUME TypeOK, TypeOK', RInv, Typing \/ \E h \in Hosts : Device(h)
    PROVE  RInv'
<1> USE DEF rings, program
<1>0. typed \in Nat /\ typed' \in Nat /\ logged \in Nat
  BY UartAssumption DEF TypeOK
<1>1. UNCHANGED <<main, isr, rings, program, got>>
  BY DEF Typing, Device
<1>2. UNCHANGED <<First, Count>> /\ (InHand' <=> InHand)
  BY <1>1, RxUntouched
<1>3. CASE Typing
  <2>1. typed' = typed + 1 /\ logged' = typed + 1
    BY <1>3 DEF Typing, Input
  <2>2. RxOrder'
    BY <1>0, <1>1, <1>2, <2>1, RxFrame
  <2>3. RxControl'
    <3>1. logged' # 0 /\ logged' <= typed'
      BY <1>0, <2>1
    <3>2. /\ update'["cpu"] = update["cpu"]
          /\ \A h \in Hosts : \A l \in {"raise", "high"} : update'[h] = l => update[h] = l
          /\ UNCHANGED <<interrupt_mask, raised_interrupt, IRQ>>
      BY <1>3 DEF Typing, Input, TypeOK, Hosts
    <3> QED BY <1>1, <3>1, <3>2 DEF RInv, RxControl
  <2> QED BY <2>2, <2>3 DEF RInv
<1>4. ASSUME NEW h \in Hosts, Device(h) PROVE RInv'
  <2>1. CASE ClearLogged
    <3>1. logged' = 0 /\ typed' = typed /\ update["cpu"] = "clear"
      BY <2>1 DEF ClearLogged
    <3>2. RxOrder'
      BY <1>0, <1>1, <1>2, <3>1, RxFrame
    <3>3. RxControl'
      BY <1>0, <1>1, <2>1, <3>1 DEF ClearLogged, RInv, RxControl, TypeOK, Hosts, Stages
    <3> QED BY <3>2, <3>3 DEF RInv
  <2>2. CASE UpdateInterrupt(h)
    <3>1. logged' = logged /\ typed' = typed /\ interrupt_mask' = interrupt_mask
      BY <2>2 DEF UpdateInterrupt, Sample, Decide, StoreLevel, LoadLevel, DriveLine
    <3>2. /\ update[h] \in Stages \ {"idle", "clear"}
          /\ \E l \in Stages \ {"clear", "sample"} :
                update' = [update EXCEPT ![h] = l]
      BY <2>2 DEF UpdateInterrupt, Sample, Decide, StoreLevel, LoadLevel, DriveLine, Stages
    <3>3. update["cpu"] = "clear" => update'["cpu"] = "clear"
      BY <3>2 DEF TypeOK, Hosts
    <3>4. RxOrder'
      BY <1>0, <1>1, <1>2, <3>1, <3>3, RxFrame
    <3>5. update["cpu"] = "idle" => update'["cpu"] = "idle"
      BY <3>2 DEF TypeOK, Hosts
    <3>6. ~interrupts_enabled => /\ ~raised_interrupt' /\ ~IRQ'
                                 /\ \A g \in Hosts : update'[g] \notin {"raise", "high"}
      <4>1. CASE Sample(h)
        BY <4>1 DEF Sample, RInv, RxControl, TypeOK
      <4>2. CASE Decide(h)
        BY <4>2 DEF Decide, RInv, RxControl, TypeOK
      <4>3. CASE StoreLevel(h)
        BY <4>3 DEF StoreLevel, RInv, RxControl, TypeOK
      <4>4. CASE LoadLevel(h)
        BY <4>4 DEF LoadLevel, RInv, RxControl, TypeOK
      <4>5. CASE DriveLine(h)
        BY <4>5 DEF DriveLine, RInv, RxControl, TypeOK
      <4> QED BY <2>2, <4>1, <4>2, <4>3, <4>4, <4>5 DEF UpdateInterrupt
    <3>7. RxControl'
      BY <1>1, <3>1, <3>5, <3>6 DEF RInv, RxControl
    <3> QED BY <3>4, <3>7 DEF RInv
  <2> QED BY <1>4, <2>1, <2>2 DEF Device
<1> QED BY <1>3, <1>4

(* The program, outside the two routines that read.                          *)
LEMMA OthersReceive ==
    ASSUME TypeOK, TypeOK', RInv,
           \/ PolledRead \/ PollStatus \/ PolledWrite \/ ReadChar \/ WriteChar
           \/ TxWait \/ TxStore \/ TxBump \/ TxUnmask
    PROVE  RInv'
<1> USE DEF rings, program, device, Goto
<1>1. /\ UNCHANGED <<rx, rx_inptr, rx_outptr, received, got, isr, interrupts_enabled>>
      /\ UNCHANGED <<logged, typed, update, raised_interrupt, IRQ>>
      /\ main \notin {"rx_take", "rx_bump", "return"}
      /\ main' \notin {"rx_take", "rx_bump", "return"}
  BY DEF PolledRead, PollStatus, PolledWrite, ReadChar, WriteChar, TxWait, TxStore,
     TxBump, TxUnmask, At, ReadStatus, WriteFifo, WriteIER
<1>2. UNCHANGED <<First, Count>> /\ (InHand' <=> InHand)
  BY <1>1, RxUntouched
<1>3. typed \in Nat
  BY UartAssumption DEF TypeOK
<1>4. RxOrder'
  BY <1>1, <1>2, <1>3, RxFrame
<1>5. ~interrupts_enabled =>
          /\ interrupt_mask' = interrupt_mask
          /\ main' \in {"idle", "poll", "receive", "return"}
  BY DEF PolledRead, PollStatus, PolledWrite, ReadChar, WriteChar, TxWait, TxStore,
     TxBump, TxUnmask, At, ReadStatus, WriteFifo, WriteIER, RInv, RxControl
<1>6. main' \in {"poll", "receive"} => ~interrupts_enabled
  BY DEF PolledRead, PollStatus, PolledWrite, ReadChar, WriteChar, TxWait, TxStore,
     TxBump, TxUnmask, At, RInv, RxControl
<1>7. main' = "receive" => update["cpu"] = "idle" /\ logged # 0
  BY DEF PolledRead, PollStatus, PolledWrite, ReadChar, WriteChar, TxWait, TxStore,
     TxBump, TxUnmask, At, RInv, RxControl
<1>8. RxControl'
  BY <1>1, <1>5, <1>6, <1>7 DEF RInv, RxControl
<1> QED BY <1>4, <1>8 DEF RInv

(* The pointers are reset while the ring is empty.                           *)
LEMMA ResetReceives ==
    ASSUME TypeOK, TypeOK', RInv, ResetAndEnable
    PROVE  RInv'
<1> USE DEF At, Goto
<1>1. /\ main = "idle" /\ main' = "idle" /\ isr = "off" /\ isr' = "off"
      /\ rx_inptr' = 0 /\ rx_outptr' = 0 /\ rx_inptr = rx_outptr
      /\ interrupts_enabled'
      /\ UNCHANGED <<rx, received, got, logged, typed, update>>
  BY DEF ResetAndEnable, WriteIER, RInv, RxControl
<1>2. Count = 0 /\ Count' = 0 /\ ~InHand /\ ~InHand'
  <2>1. rx_outptr \in Slots
    BY DEF TypeOK
  <2>2. 0 \in Slots
    BY DriverAssumption DEF Slots
  <2> QED BY <1>1, <2>1, <2>2 DEF Count, First, Dist, InHand, Slots
<1>3. ReceivedRises' /\ HandIsNewer' /\ RingRises' /\ StoredIsNewest'
  BY <1>1, <1>2 DEF RInv, RxOrder, ReceivedRises, HandIsNewer, RingRises, StoredIsNewest, Skipped
<1>4. LoggedIsNewest'
  BY <1>1, <1>2 DEF RInv, RxOrder, LoggedIsNewest, Before, Delivered, Skipped
<1>5. RxControl'
  BY <1>1 DEF RInv, RxControl
<1> QED BY <1>3, <1>4, <1>5 DEF RInv, RxOrder

(* A polled read takes the character in the register: the ring is unused.    *)
LEMMA PolledReceives ==
    ASSUME TypeOK, TypeOK', RInv, PollReceive
    PROVE  RInv'
<1> USE DEF At, Goto, rings, program
<1>1. /\ main = "receive" /\ main' = "return" /\ isr = "off" /\ isr' = "off"
      /\ got' = logged /\ logged # 0 /\ update["cpu"] = "idle"
      /\ update' = [update EXCEPT !["cpu"] = "clear"]
      /\ ~interrupts_enabled /\ rx_inptr = rx_outptr
      /\ UNCHANGED <<rings, program, logged, typed, interrupt_mask, raised_interrupt, IRQ>>
  BY DEF PollReceive, ReadFifo, RInv, RxControl
<1>2. Count = 0 /\ Count' = 0
  <2>1. rx_outptr \in Slots
    BY DEF TypeOK
  <2> QED BY <1>1, <2>1, DriverAssumption DEF Count, First, Dist, Slots
<1>3. Delivered(logged)
  BY <1>1 DEF RInv, RxOrder, LoggedIsNewest, Before
<1>4. got' \in 1 .. typed
  BY <1>1, UartAssumption DEF RInv, RxControl, TypeOK
<1>5. ReceivedRises' /\ HandIsNewer' /\ RingRises' /\ StoredIsNewest'
  BY <1>1, <1>2, <1>3, <1>4 DEF RInv, RxOrder, ReceivedRises, HandIsNewer, RingRises,
     StoredIsNewest, Skipped, Delivered, InHand
<1>6. LoggedIsNewest'
  BY <1>1 DEF LoggedIsNewest, TypeOK, Hosts
<1>7. RxControl'
  BY <1>1 DEF RInv, RxControl, TypeOK, Hosts
<1> QED BY <1>5, <1>6, <1>7 DEF RInv, RxOrder

(* Handing the character in hand to the program.                             *)
LEMMA ReturnReceives ==
    ASSUME TypeOK, TypeOK', RInv, ReadReturn
    PROVE  RInv'
<1> USE DEF At, Goto, rings, device
<1>1. /\ main = "return" /\ main' = "idle" /\ isr = "off" /\ isr' = "off"
      /\ received' = Append(received, got)
      /\ UNCHANGED <<device, rings, got, interrupts_enabled>>
  BY DEF ReadReturn
<1>2. InHand /\ ~InHand' /\ First' = First /\ Count' = Count /\ Skipped' = Skipped
  BY <1>1 DEF InHand, First, Count, Skipped, Dist
<1>3. received \in Seq(0 .. MaxTyped) /\ got \in 1 .. typed
  BY <1>2 DEF RInv, RxOrder, HandIsNewer, TypeOK
<1>4. /\ DOMAIN received' = 1 .. Len(received) + 1
      /\ \A n \in DOMAIN received : received'[n] = received[n] /\ n # Len(received) + 1
      /\ received'[Len(received) + 1] = got
      /\ DOMAIN received = 1 .. Len(received) /\ Len(received) \in Nat
  BY <1>1, <1>3
<1>5. \A n \in DOMAIN received' : n \in DOMAIN received \/ n = Len(received) + 1
  BY <1>4
<1>6. ReceivedRises'
  <2>1. \A n \in DOMAIN received' : received'[n] \in 1 .. typed
    BY <1>1, <1>3, <1>4, <1>5 DEF RInv, RxOrder, ReceivedRises
  <2>2. ASSUME NEW m \in DOMAIN received', NEW n \in DOMAIN received', m < n
        PROVE  received'[m] < received'[n]
    <3>1. m \in DOMAIN received
      BY <1>4, <2>2
    <3>2. CASE n \in DOMAIN received
      BY <1>4, <2>2, <3>1, <3>2 DEF RInv, RxOrder, ReceivedRises
    <3>3. CASE n = Len(received) + 1
      BY <1>2, <1>4, <3>1, <3>3 DEF RInv, RxOrder, HandIsNewer
    <3> QED BY <1>5, <3>2, <3>3
  <2> QED BY <1>1, <2>1, <2>2 DEF ReceivedRises
<1>7. \A x : Delivered(x) => Delivered(x)'
  BY <1>2, <1>4, <1>5 DEF Delivered
<1>8. HandIsNewer' /\ StoredIsNewest'
  BY <1>1, <1>2 DEF HandIsNewer, StoredIsNewest
<1>9. RingRises'
  BY <1>1, <1>2, <1>7 DEF RInv, RxOrder, RingRises, Pos, Delivered
<1>10. LoggedIsNewest'
  BY <1>1, <1>2, <1>7 DEF RInv, RxOrder, LoggedIsNewest, Before, Pos, Delivered
<1>11. RxControl'
  BY <1>1 DEF RInv, RxControl
<1> QED BY <1>6, <1>8, <1>9, <1>10, <1>11 DEF RInv, RxOrder

(* The slots from o to an i just before it, or one that has caught up with o.*)
LEMMA FullRing ==
    ASSUME NEW o \in Slots
    PROVE  /\ \A i \in Slots : Next256(i) = o =>
                 Dist(o, i) = RingSize - 1 /\ Pos(o, RingSize - 1) = i
           /\ Dist(Next256(o), o) = RingSize - 1
           /\ Dist(o, Next256(o)) = 1
           /\ Pos(o, 0) = o
           /\ \A j \in Nat : j < RingSize - 1 => Pos(Next256(o), j) = Pos(o, j + 1)
           /\ \A j \in Nat : 1 <= j /\ j < RingSize => Pos(o, j) # o
BY Advance, DriverAssumption DEF Slots, Dist, Pos

LEMMA LiveSlots ==
    ASSUME NEW o \in Slots, NEW i \in Slots
    PROVE  /\ Dist(o, i) < RingSize
           /\ \A j \in Nat : j < Dist(o, i) => Pos(o, j) # i
           /\ \A j \in Nat : j < RingSize => Pos(o, j) \in Slots
BY DriverAssumption DEF Slots, Dist, Pos

LEMMA CountType ==
    ASSUME TypeOK
    PROVE  /\ First \in Slots /\ Count \in Nat /\ RingSize \in Nat /\ Count <= RingSize
           /\ Skipped \in Nat /\ Skipped <= 1
<1>1. rx_outptr \in Slots /\ rx_inptr \in Slots /\ First \in Slots
  BY AdvanceType DEF TypeOK, First
<1>2. Dist(First, rx_inptr) \in Nat /\ Dist(First, rx_inptr) < RingSize
  BY <1>1, DistType, LiveSlots
<1> QED BY <1>1, <1>2, DriverAssumption DEF Count, Skipped

(* uart_read_char finds a character.  The service routine may run from here  *)
(* on as often as it likes.                                                  *)
LEMMA WaitReceives ==
    ASSUME TypeOK, TypeOK', RInv, RxWait
    PROVE  RInv'
<1> USE DEF At, Goto, rings, device, program
<1>1. /\ main = "rx_wait" /\ main' = "rx_take" /\ rx_inptr # rx_outptr
      /\ UNCHANGED <<device, rings, got, program, isr>>
  BY DEF RxWait
<1>2. UNCHANGED <<First, Count>> /\ (InHand' <=> InHand)
  BY <1>1 DEF First, Count, InHand, Dist
<1>3. typed \in Nat
  BY UartAssumption DEF TypeOK
<1>4. RxOrder'
  BY <1>1, <1>2, <1>3, RxFrame
<1>5. RxControl'
  BY <1>1 DEF RInv, RxControl
<1> QED BY <1>4, <1>5 DEF RInv

(* It takes the oldest one, or after an overflow the newest.                 *)
LEMMA TakeReceives ==
    ASSUME TypeOK, TypeOK', RInv, RxTake
    PROVE  RInv'
<1> USE DEF At, Goto, rings, device, program
<1>1. /\ main = "rx_take" /\ main' = "rx_bump" /\ isr = "off" /\ isr' = "off"
      /\ got' = rx[rx_outptr]
      /\ UNCHANGED <<device, rings, program>>
  BY DEF RxTake
<1>2. rx_outptr \in Slots /\ rx_inptr \in Slots /\ RingSize \in Nat \ {0, 1}
  BY DriverAssumption DEF TypeOK
<1>3. /\ First = rx_outptr /\ First' = Next256(rx_outptr)
      /\ Skipped = 0 /\ Skipped' = 0 /\ ~InHand /\ InHand'
  BY <1>1 DEF First, Skipped, InHand, Next256
<1>4. /\ Count \in Nat \ {0} /\ Count' = Count - 1 /\ Pos(First, 0) = First
      /\ \A j \in Nat : j < Count - 1 => Pos(First', j) = Pos(First, j + 1)
  <2>1. Count' = Dist(Next256(rx_outptr), rx_inptr)
    BY <1>1, <1>3 DEF Count, Dist
  <2>2. CASE rx_inptr = rx_outptr
    BY <1>1, <1>2, <1>3, <2>1, <2>2, FullRing DEF Count
  <2>3. CASE rx_inptr # rx_outptr
    <3>1. Count = Dist(rx_outptr, rx_inptr)
      BY <1>3, <2>3 DEF Count
    <3> QED BY <1>2, <1>3, <2>1, <2>3, <3>1, AdvanceOut
  <2> QED BY <2>2, <2>3
<1>5. /\ got' = rx[Pos(First, 0)] /\ 0 \in Nat /\ Skipped <= 0 /\ 0 < Count
  BY <1>1, <1>3, <1>4
<1>6. /\ got' \in 1 .. typed
      /\ \A n \in DOMAIN received : received[n] < got'
  BY <1>5 DEF RInv, RxOrder, RingRises, Delivered
<1>7. \A j \in Nat : j < Count' =>
          /\ j + 1 \in Nat /\ Skipped <= j + 1 /\ j + 1 < Count
          /\ rx[Pos(First', j)] = rx[Pos(First, j + 1)]
  BY <1>3, <1>4
<1>8. \A x : Before(x) => Delivered(x)'
  <2> SUFFICES ASSUME NEW x, Before(x) PROVE Delivered(x)'
    OBVIOUS
  <2>1. got' < x
    BY <1>5 DEF Before
  <2> QED BY <1>1, <2>1 DEF Before, Delivered
<1>9. ReceivedRises' /\ HandIsNewer' /\ StoredIsNewest'
  BY <1>1, <1>6 DEF RInv, RxOrder, ReceivedRises, HandIsNewer, StoredIsNewest
<1>10. RingRises'
  <2> SUFFICES ASSUME NEW j \in Nat, j < Count'
      PROVE /\ rx[Pos(First', j)] \in 1 .. typed
            /\ \A n \in DOMAIN received : received[n] < rx[Pos(First', j)]
            /\ got' < rx[Pos(First', j)]
            /\ \A i \in Nat : i < j => rx[Pos(First', i)] < rx[Pos(First', j)]
    BY <1>1, <1>3 DEF RingRises, Delivered, Pos
  <2>1. /\ rx[Pos(First, j + 1)] \in 1 .. typed
        /\ Delivered(rx[Pos(First, j + 1)])
        /\ \A i \in Nat : Skipped <= i /\ i < j + 1 => rx[Pos(First, i)] < rx[Pos(First, j + 1)]
    BY <1>7 DEF RInv, RxOrder, RingRises
  <2>2. got' < rx[Pos(First, j + 1)]
    BY <1>5, <2>1
  <2>3. \A i \in Nat : i < j => rx[Pos(First', i)] < rx[Pos(First, j + 1)]
    <3> SUFFICES ASSUME NEW i \in Nat, i < j
        PROVE rx[Pos(First', i)] < rx[Pos(First, j + 1)]
      OBVIOUS
    <3>1. i < Count' /\ i + 1 < j + 1 /\ Skipped <= i + 1
      BY <1>3, <1>4
    <3> QED BY <1>7, <2>1, <3>1
  <2> QED BY <1>7, <2>1, <2>2, <2>3 DEF Delivered
<1>11. LoggedIsNewest'
  <2> SUFFICES ASSUME logged # 0, update["cpu"] # "clear" PROVE Before(logged)'
    BY <1>1 DEF LoggedIsNewest
  <2>1. Before(logged)
    BY DEF RInv, RxOrder, LoggedIsNewest
  <2>2. \A j \in Nat : j < Count' => rx[Pos(First', j)] < logged
    BY <1>7, <2>1 DEF Before
  <2> QED BY <1>1, <1>3, <1>8, <2>1, <2>2 DEF Before, Delivered, Pos
<1>12. RxControl'
  BY <1>1 DEF RInv, RxControl
<1> QED BY <1>9, <1>10, <1>11, <1>12 DEF RInv, RxOrder

LEMMA OutReceives ==
    ASSUME TypeOK, TypeOK', RInv, RxBump
    PROVE  RInv'
<1> USE DEF At, Goto, rings, device, program
<1>1. /\ main = "rx_bump" /\ main' = "return" /\ rx_outptr' = Next256(rx_outptr)
      /\ UNCHANGED <<device, rx, rx_inptr, got, program, isr>>
  BY DEF RxBump
<1>2. UNCHANGED <<First, Count>> /\ (InHand' <=> InHand)
  BY <1>1 DEF First, Count, InHand, Dist, Next256
<1>3. typed \in Nat
  BY UartAssumption DEF TypeOK
<1>4. RxOrder'
  BY <1>1, <1>2, <1>3, RxFrame
<1>5. RxControl'
  BY <1>1 DEF RInv, RxControl
<1> QED BY <1>4, <1>5 DEF RInv

(* The service routine, outside its two steps on the receive ring.           *)
LEMMA IsrTxReceives ==
    ASSUME TypeOK, TypeOK', RInv, EnterIsr \/ IsrRxStatus \/ IsrTxEmpty \/ IsrTxSend
    PROVE  RInv'
<1> USE DEF rings, program, device, IsrGoto
<1>1. /\ UNCHANGED <<main, rx, rx_inptr, rx_outptr, received, got, interrupts_enabled>>
      /\ UNCHANGED <<logged, typed, update, raised_interrupt, IRQ>>
      /\ isr # "rx_bump" /\ isr' # "rx_bump"
      /\ isr' = "rx_receive" => update["cpu"] = "idle" /\ logged # 0
      /\ interrupts_enabled
  BY DEF EnterIsr, IsrRxStatus, IsrTxEmpty, IsrTxSend, InIsr, ReadStatus, WriteFifo,
     WriteIDR, RInv, RxControl
<1>2. UNCHANGED <<First, Count>> /\ (InHand' <=> InHand)
  BY <1>1, RxUntouched
<1>3. typed \in Nat
  BY UartAssumption DEF TypeOK
<1>4. RxOrder'
  BY <1>1, <1>2, <1>3, RxFrame
<1>5. RxControl'
  BY <1>1 DEF RInv, RxControl
<1> QED BY <1>4, <1>5 DEF RInv

(* It stores to a slot that cannot be read, unless it has caught up with a   *)
(* reader: then to the very slot that is to be read next.                    *)
LEMMA StoreReceives ==
    ASSUME TypeOK, TypeOK', RInv, IsrRxReceive
    PROVE  RInv'
<1> USE DEF rings, program, device, IsrGoto
<1>1. /\ isr = "rx_receive" /\ isr' = "rx_bump" /\ main' = main
      /\ rx' = [rx EXCEPT ![rx_inptr] = logged]
      /\ logged # 0 /\ update["cpu"] = "idle"
      /\ update' = [update EXCEPT !["cpu"] = "clear"]
      /\ interrupts_enabled
      /\ UNCHANGED <<rx_inptr, rx_outptr, received, got, interrupts_enabled, logged, typed>>
  BY DEF IsrRxReceive, InIsr, ReadFifo, RInv, RxControl
<1>2. rx_inptr \in Slots /\ rx \in [Slots -> 0 .. MaxTyped] /\ typed \in Nat /\ logged \in Nat
  BY UartAssumption DEF TypeOK
<1>3. /\ First' = First /\ Count' = Count /\ (InHand' <=> InHand) /\ Skipped = 0
      /\ \A x : Delivered(x)' <=> Delivered(x)
  BY <1>1 DEF First, Count, InHand, Skipped, Dist, Next256, Delivered
<1>4. \A j \in Nat : Skipped' <= j /\ j < Count =>
          Pos(First, j) # rx_inptr /\ Pos(First, j) \in Slots
  <2> SUFFICES ASSUME NEW j \in Nat, Skipped' <= j, j < Count
               PROVE  Pos(First, j) # rx_inptr /\ Pos(First, j) \in Slots
    OBVIOUS
  <2>1. First \in Slots /\ Count \in Nat /\ Count <= RingSize /\ RingSize \in Nat
    BY CountType
  <2>2. CASE main = "rx_take" /\ rx_inptr = rx_outptr
    <3>1. Count = RingSize /\ First = rx_inptr /\ Skipped' = 1
      BY <1>1, <1>3, <2>2 DEF Count, First, Skipped
    <3> QED BY <2>1, <3>1, FullRing, LiveSlots
  <2>3. CASE ~(main = "rx_take" /\ rx_inptr = rx_outptr)
    <3>1. Count = Dist(First, rx_inptr)
      BY <2>3 DEF Count
    <3>2. j < RingSize
      BY <2>1
    <3> QED BY <1>2, <2>1, <3>1, <3>2, LiveSlots
  <2> QED BY <2>2, <2>3
<1>5. rx'[rx_inptr] = logged
  BY <1>1, <1>2
<1>6. \A j \in Nat : Skipped' <= j /\ j < Count =>
          rx'[Pos(First, j)] = rx[Pos(First, j)] /\ Skipped <= j
  BY <1>1, <1>2, <1>3, <1>4
<1>7. Before(logged)
  BY <1>1 DEF RInv, RxOrder, LoggedIsNewest
<1>8. ReceivedRises' /\ HandIsNewer'
  BY <1>1, <1>3 DEF RInv, RxOrder, ReceivedRises, HandIsNewer
<1>9. RingRises'
  <2>1. Skipped' \in Nat
    BY DEF Skipped
  <2>2. ASSUME NEW j \in Nat, Skipped' <= j, j < Count, NEW i \in Nat, Skipped' <= i, i < j
        PROVE  i < Count
    BY <2>2, CountType
  <2> QED BY <1>1, <1>3, <1>6, <2>1, <2>2 DEF RInv, RxOrder, RingRises, Pos
<1>10. StoredIsNewest'
  <2>1. logged \in 1 .. typed
    BY <1>1, <1>2 DEF RInv, RxControl
  <2>2. Before(logged)'
    BY <1>1, <1>3, <1>6, <1>7 DEF Before, Pos
  <2> QED BY <1>1, <1>5, <2>1, <2>2 DEF StoredIsNewest, Before, Delivered, Pos
<1>11. LoggedIsNewest'
  BY <1>1 DEF LoggedIsNewest, TypeOK, Hosts
<1>12. RxControl'
  BY <1>1 DEF RInv, RxControl
<1> QED BY <1>8, <1>9, <1>10, <1>11, <1>12 DEF RInv, RxOrder

(* Advancing rx_inptr adds the character it stored as the last that can be   *)
(* read, makes it the only one, or makes the ring look empty.                *)
LEMMA RingGrows ==
    ASSUME TypeOK, IsrRxBump
    PROVE  \/ Count' = 0
           \/ Count' = Count + 1 /\ Skipped = 0 /\ Pos(First, Count) = rx_inptr
           \/ Count' = 1 /\ Pos(First, 0) = rx_inptr
<1> USE DEF IsrGoto
<1>1. /\ isr = "rx_bump" /\ main' = main /\ rx_inptr' = Next256(rx_inptr)
      /\ First' = First /\ rx_outptr' = rx_outptr
  BY DEF IsrRxBump, InIsr, First, Next256
<1>2. First \in Slots /\ rx_inptr \in Slots /\ rx_outptr \in Slots /\ RingSize \in Nat \ {0, 1}
  BY CountType, DriverAssumption DEF TypeOK
<1>3. CASE main = "rx_take" /\ rx_inptr = rx_outptr
  <2>1. First = rx_inptr /\ Next256(rx_inptr) # rx_outptr
    BY <1>2, <1>3, Advance DEF First, Slots
  <2>2. Count' = Dist(First, Next256(rx_inptr))
    BY <1>1, <2>1 DEF Count, Dist
  <2> QED BY <1>2, <2>1, <2>2, FullRing
<1>4. CASE ~(main = "rx_take" /\ rx_inptr = rx_outptr)
  <2>1. Count = Dist(First, rx_inptr) /\ Skipped = 0
    <3>1. Count = Dist(First, rx_inptr) /\ Dist(First, rx_inptr) < RingSize
      BY <1>2, <1>4, LiveSlots DEF Count
    <3>2. Dist(First, rx_inptr) \in Nat
      BY <1>2, DistType
    <3> QED BY <1>2, <3>1, <3>2 DEF Skipped
  <2>2. CASE Next256(rx_inptr) # First
    <3>1. Count' = Dist(First, Next256(rx_inptr))
      BY <1>1, <2>2 DEF Count, Dist, First
    <3> QED BY <1>2, <2>1, <2>2, <3>1, AdvanceIn
  <2>3. CASE Next256(rx_inptr) = First /\ main = "rx_take"
    <3>1. First = rx_outptr
      BY <2>3 DEF First
    <3>2. Count' = RingSize
      BY <1>1, <2>3, <3>1 DEF Count
    <3> QED BY <1>2, <2>1, <2>3, <3>2, FullRing
  <2>4. CASE Next256(rx_inptr) = First /\ main # "rx_take"
    <3>1. Count' = Dist(First, First)
      BY <1>1, <2>4 DEF Count, Dist
    <3> QED BY <1>2, <3>1, DistType
  <2> QED BY <2>2, <2>3, <2>4
<1> QED BY <1>3, <1>4

LEMMA InReceives ==
    ASSUME TypeOK, TypeOK', RInv, IsrRxBump
    PROVE  RInv'
<1> USE DEF rings, program, device, IsrGoto
<1>1. /\ isr = "rx_bump" /\ isr' = "tx_busy" /\ main' = main /\ update["cpu"] = "idle"
      /\ UNCHANGED <<device, rx, rx_outptr, received, got, interrupts_enabled>>
  BY DEF IsrRxBump, InIsr
<1>2. /\ First' = First /\ (InHand' <=> InHand) /\ Skipped' = 0
      /\ \A x : Delivered(x)' <=> Delivered(x)
  BY <1>1 DEF First, InHand, Skipped, Next256, Delivered
<1> DEFINE new == rx[rx_inptr]
<1>3. new \in 1 .. typed /\ Before(new)
  BY <1>1 DEF RInv, RxOrder, StoredIsNewest
<1>4. Count \in Nat /\ Skipped \in Nat
  BY CountType
<1>5. \A j \in Nat : j < Count' =>
         \/ rx[Pos(First, j)] = new /\ (Count' = 1 \/ (j = Count /\ Skipped = 0))
         \/ j < Count /\ Skipped = 0
  <2> SUFFICES ASSUME NEW j \in Nat, j < Count'
               PROVE  \/ rx[Pos(First, j)] = new /\ (Count' = 1 \/ (j = Count /\ Skipped = 0))
                      \/ j < Count /\ Skipped = 0
    OBVIOUS
  <2>1. CASE Count' = Count + 1 /\ Skipped = 0 /\ Pos(First, Count) = rx_inptr
    BY <1>4, <2>1
  <2>2. CASE Count' = 1 /\ Pos(First, 0) = rx_inptr
    <3>1. j = 0
      BY <2>2
    <3> QED BY <2>2, <3>1
  <2> QED BY <2>1, <2>2, RingGrows
<1>6. ReceivedRises' /\ HandIsNewer' /\ StoredIsNewest'
  BY <1>1, <1>2 DEF RInv, RxOrder, ReceivedRises, HandIsNewer, StoredIsNewest
<1>7. RingRises'
  <2> SUFFICES ASSUME NEW j \in Nat, j < Count'
      PROVE /\ rx[Pos(First, j)] \in 1 .. typed
            /\ Delivered(rx[Pos(First, j)])
            /\ \A i \in Nat : i < j => rx[Pos(First, i)] < rx[Pos(First, j)]
    BY <1>1, <1>2 DEF RingRises, Pos
  <2>1. CASE rx[Pos(First, j)] = new /\ Count' = 1
    BY <1>3, <2>1 DEF Before
  <2>2. CASE rx[Pos(First, j)] = new /\ j = Count /\ Skipped = 0
    BY <1>3, <1>4, <2>2 DEF Before
  <2>3. CASE j < Count /\ Skipped = 0
    BY <1>4, <2>3 DEF RInv, RxOrder, RingRises
  <2> QED BY <1>5, <2>1, <2>2, <2>3
<1>8. LoggedIsNewest'
  <2> SUFFICES ASSUME logged # 0 PROVE Before(logged)'
    BY <1>1 DEF LoggedIsNewest
  <2>1. Before(logged) /\ new < logged
    BY <1>1 DEF RInv, RxOrder, LoggedIsNewest
  <2>2. \A j \in Nat : j < Count' => rx[Pos(First, j)] < logged
    BY <1>4, <1>5, <2>1 DEF Before
  <2> QED BY <1>1, <1>2, <2>1, <2>2 DEF Before, Pos
<1>9. RxControl'
  BY <1>1 DEF RInv, RxControl
<1> QED BY <1>6, <1>7, <1>8, <1>9 DEF RInv, RxOrder

-----------------------------------------------------------------------------
LEMMA ReceiveKeeps == TypeOK /\ TypeOK' /\ RInv /\ [Next]_vars => RInv'
<1> SUFFICES ASSUME TypeOK, TypeOK', RInv, [Next]_vars PROVE RInv'
  OBVIOUS
<1>1. CASE UNCHANGED vars
  <2>1. UNCHANGED <<First, Count>> /\ (InHand' <=> InHand)
    BY <1>1, RxUntouched DEF vars, rings
  <2>2. typed \in Nat
    BY UartAssumption DEF TypeOK
  <2>3. RxOrder'
    BY <1>1, <2>1, <2>2, RxFrame DEF vars, rings, program, device
  <2>4. RxControl'
    BY <1>1 DEF vars, rings, program, device, RInv, RxControl
  <2> QED BY <2>3, <2>4 DEF RInv
<1>2. CASE Calls
  BY <1>2, OthersReceive, ResetReceives DEF Calls
<1>3. CASE InCall
  BY <1>3, OthersReceive, PolledReceives, ReturnReceives, WaitReceives, TakeReceives,
     OutReceives DEF InCall
<1>4. CASE Isr
  BY <1>4, IsrTxReceives, StoreReceives, InReceives DEF Isr
<1> QED BY <1>1, <1>2, <1>3, <1>4, DeviceReceives DEF Next

LEMMA Rising == RInv /\ TypeOK => ReceivedInOrder
<1> SUFFICES ASSUME RInv, TypeOK, NEW n \in DOMAIN received
    PROVE received[n] \in 1 .. typed /\ (n > 1 => received[n] > received[n-1])
  BY DEF ReceivedInOrder
<1>0. received \in Seq(0 .. MaxTyped)
  BY DEF TypeOK
<1>1. DOMAIN received = 1 .. Len(received) /\ Len(received) \in Nat
  BY <1>0
<1>2. n > 1 => n - 1 \in DOMAIN received /\ n - 1 < n
  BY <1>1
<1>3. \A m \in DOMAIN received : received[m] \in 1 .. typed
  BY DEF RInv, RxOrder, ReceivedRises
<1>4. typed \in Nat
  BY UartAssumption DEF TypeOK
<1> QED BY <1>2, <1>3, <1>4 DEF RInv, RxOrder, ReceivedRises

(* Polled or through the ring, and whatever is lost when the register or the *)
(* ring overflows, the program reads what was typed in the order it was.     *)
THEOREM ReceivedOrder == Spec => []ReceivedInOrder
<1>1. TypeOK /\ RInv => ReceivedInOrder
  BY Rising
<1> QED BY <1>1, InitReceives, ReceiveKeeps, DriverTypeOK, PTL DEF Spec
=============================================================================

-------------------------- MODULE Interrupts_proofs --------------------------
(* For any number of cores, interrupts and programs: what a core            *)
(* acknowledges as an SGI is still pending, a timer's flag has its line,    *)
(* and the interrupt controller implements Doorbells.                       *)
EXTENDS Interrupts, TLAPS

\* An SGI that a core's acknowledge register shows when the core may read it
\* is pending there.
ShownIsPending == \A c \in Cores :
    (c \notin changed /\ "end" \notin todo[c] /\ IA[c] \in Sgis) => IA[c] \in Pending(c)

\* An SGI is active only while its core is to end it.
ActiveIsServed == \A c \in Cores :
    actives[c] \cap Sgis \subseteq IF "end" \in todo[c] THEN {serving[c][1]} ELSE {}

IInv == TypeOK /\ EventFlagMeansLine /\ ShownIsPending /\ ActiveIsServed

LEMMA Numbers == /\ Sgis \cap Ppis = {} /\ Spurious \notin Ints
                 /\ NCpus \notin Cores /\ None[1] = Spurious
  BY NCpusAssumption, IntsAssumption, SMT DEF Ints, Spurious, Cores, None

LEMMA Initially == Init => IInv
  <1> SUFFICES ASSUME Init PROVE IInv  OBVIOUS
  <1>1. GicTypeOK
    BY Numbers, LeftoverAssumption DEF Init, GicInit, GicTypeOK, Ints, Lines
  <1>2. TimerTypeOK /\ EventFlagMeansLine
    BY DEF Init, TimerInit, TimerTypeOK, Waits, EventFlagMeansLine
  <1>3. CpuTypeOK
    BY DEF Init, CpuTypeOK
  <1>4. ShownIsPending
    BY Numbers DEF Init, GicInit, ShownIsPending, Ints
  <1>5. ActiveIsServed
    BY Numbers, LeftoverAssumption DEF Init, GicInit, ActiveIsServed
  <1> QED  BY <1>1, <1>2, <1>3, <1>4, <1>5 DEF IInv, TypeOK

-----------------------------------------------------------------------------
(* The steps of the timers.                                                *)

LEMMA EventKeeps ==
  ASSUME TimerTypeOK, EventFlagMeansLine, NEW c \in TimerCores, NEW flag \in BOOLEAN,
         flag => interrupt_state[c], Event(c, flag)
  PROVE  TimerTypeOK' /\ EventFlagMeansLine'
  <1>1. Onward(c) \in Waits  BY DEF Onward, Waits
  <1>2. TimerTypeOK'  BY <1>1 DEF Event, TimerTypeOK
  <1>3. EventFlagMeansLine'  BY DEF Event, TimerTypeOK, EventFlagMeansLine
  <1> QED  BY <1>2, <1>3

LEMMA ClearKeeps ==
  ASSUME TimerTypeOK, EventFlagMeansLine, NEW c \in TimerCores, ClearStatus(c)
  PROVE  TimerTypeOK' /\ EventFlagMeansLine'
  <1>1. CASE at[c] = "count" /\ interrupt_state[c]
    BY <1>1 DEF ClearStatus, Lower, TimerTypeOK, EventFlagMeansLine, Waits
  <1>2. CASE at[c] = "count" /\ ~interrupt_state[c]
    BY <1>2, EventKeeps DEF ClearStatus
  <1>3. CASE at[c] # "count"
    BY <1>3 DEF ClearStatus, TimerTypeOK, EventFlagMeansLine
  <1>4. interrupt_state[c] \in BOOLEAN  BY DEF TimerTypeOK
  <1> QED  BY <1>1, <1>2, <1>3, <1>4

LEMMA TimeKeeps ==
  ASSUME TimerTypeOK, EventFlagMeansLine, NEW c \in TimerCores,
         Aligned(c) \/ Expire(c) \/ Missed(c) \/ Due(c)
  PROVE  TimerTypeOK' /\ EventFlagMeansLine'
  <1>1. CASE Aligned(c) \/ Expire(c) \/ Missed(c)
    BY <1>1 DEF Aligned, Expire, Missed, Go, TimerTypeOK, EventFlagMeansLine, Waits
  <1>2. CASE Due(c)
    BY <1>2, EventKeeps DEF Due, TimerTypeOK, EventFlagMeansLine
  <1> QED  BY <1>1, <1>2

LEMMA ControlKeeps ==
  ASSUME TimerTypeOK, EventFlagMeansLine, ProgramAssumption,
         NEW w \in Program, SetTimer(w)
  PROVE  TimerTypeOK' /\ EventFlagMeansLine'
  <1>1. w.core \in TimerCores /\ w.E \in BOOLEAN /\ w.R \in BOOLEAN /\ w.I \in BOOLEAN
    BY DEF SetTimer, Writes
  <1> QED  BY <1>1 DEF SetTimer, WriteControl, TimerTypeOK, EventFlagMeansLine, Waits

\* What a change of the lines may change.
LEMMA FollowKeeps ==
  ASSUME GicTypeOK, LinesFollow
  PROVE  /\ GicTypeOK'
         /\ changed \subseteq changed'
         /\ sgi_matrix' = sgi_matrix /\ actives' = actives /\ IA' = IA
  <1>1. CASE UNCHANGED gic
    BY <1>1 DEF gic, GicTypeOK
  <1>2. CASE PpiChanged(Level') /\ UNCHANGED <<EnableGrp0, CTL, enables, sgi_matrix, actives, IA>>
    <2>1. \A c \in Cores : unmasked[c] \cap Sgis = {}
      BY Numbers DEF GicTypeOK
    <2>2. \A c \in Cores : Level'[c] \subseteq Ppis
      BY TickAssumption DEF Level
    <2>3. unmasked' \in [Cores -> SUBSET Ppis]
      BY <1>2, <2>1, <2>2 DEF PpiChanged
    <2> QED  BY <1>2, <2>3 DEF PpiChanged, GicTypeOK
  <1> QED  BY <1>1, <1>2 DEF LinesFollow

\* The rest of the invariant survives whatever only makes cores wait.
LEMMA WaitingKeeps ==
  ASSUME ShownIsPending, ActiveIsServed, changed \subseteq changed',
         sgi_matrix' = sgi_matrix, actives' = actives, IA' = IA, UNCHANGED <<serving, todo>>
  PROVE  ShownIsPending' /\ ActiveIsServed'
  BY DEF ShownIsPending, ActiveIsServed, Pending

-----------------------------------------------------------------------------
(* Every step keeps the invariant.                                          *)

LEMMA DistributesKeep ==
  ASSUME IInv, Distributes
  PROVE  IInv'
  <1>1. GicTypeOK' /\ TimerTypeOK' /\ CpuTypeOK' /\ EventFlagMeansLine' /\ ActiveIsServed'
    BY DEF IInv, TypeOK, Distributes, Distribute, GicTypeOK, TimerTypeOK, CpuTypeOK,
           EventFlagMeansLine, ActiveIsServed, timer, cpu
  <1>2. ASSUME NEW c \in Cores, "end" \notin todo[c], IA'[c] \in Sgis
        PROVE  IA'[c] \in Pending(c)
    <2>1. IA'[c] \in Requests(c)
      BY <1>2, Numbers DEF Distributes, Distribute, Leads, Ints
    <2>2. actives[c] \cap Sgis = {} /\ unmasked[c] \cap Sgis = {}
      BY <1>2, Numbers DEF IInv, TypeOK, GicTypeOK, ActiveIsServed
    <2> QED  BY <1>2, <2>1, <2>2 DEF Requests
  <1>3. ShownIsPending'
    BY <1>2 DEF ShownIsPending, Distributes, Distribute, Pending, cpu
  <1> QED  BY <1>1, <1>3 DEF IInv, TypeOK

LEMMA RunKeeps ==
  ASSUME IInv, NEW w \in Program, Run(w)
  PROVE  IInv'
  <1> USE DEF IInv, TypeOK
  <1>0. w \in Writes  BY ProgramAssumption
  <1>1. CASE WriteSgirOf(w)
    <2>1. w.core \in Cores /\ w.sgi \in Sgis  BY <1>0, <1>1 DEF WriteSgirOf, Writes
    <2>2. GicTypeOK'  BY <1>1, <2>1 DEF WriteSgirOf, WriteSgir, GicTypeOK
    <2>3. \A c \in Cores : Pending(c) \subseteq Pending(c)'
      BY <1>1, <2>1 DEF WriteSgirOf, WriteSgir, GicTypeOK, Pending
    <2>4. ShownIsPending' /\ ActiveIsServed'
      BY <1>1, <2>3 DEF WriteSgirOf, WriteSgir, ShownIsPending, ActiveIsServed, cpu
    <2> QED  BY <1>1, <2>2, <2>4 DEF WriteSgirOf, TimerTypeOK, CpuTypeOK, EventFlagMeansLine, timer, cpu
  <1>2. CASE WriteSgiPending(w)
    <2>1. w.core \in Cores /\ w.sgi \in Sgis /\ w.sources \subseteq Cores /\ w.set \in BOOLEAN
      BY <1>0, <1>2 DEF WriteSgiPending, Writes
    <2>2. GicTypeOK'  BY <1>2, <2>1 DEF WriteSgiPending, SgiSetNClear, GicTypeOK
    <2>3. \A c \in Cores \ {w.core} : Pending(c)' = Pending(c)
      BY <1>2, <2>1 DEF WriteSgiPending, SgiSetNClear, GicTypeOK, Pending
    <2>4. ShownIsPending' /\ ActiveIsServed'
      BY <1>2, <2>1, <2>3 DEF WriteSgiPending, SgiSetNClear, ShownIsPending, ActiveIsServed, cpu
    <2> QED  BY <1>2, <2>2, <2>4 DEF WriteSgiPending, TimerTypeOK, CpuTypeOK, EventFlagMeansLine, timer, cpu
  <1>3. CASE Configure(w)
    <2>1. GicTypeOK'
      <3>1. CASE w.reg = "ENABLE" /\ WriteEnables(w.core, w.ints, w.set)
        <4>1. w.core \in Cores /\ w.ints \in SUBSET Ints  BY <1>0, <3>1 DEF Writes
        <4> QED  BY <3>1, <4>1 DEF WriteEnables, GicTypeOK
      <3>2. CASE w.reg = "GICC_CTLR" /\ WriteCTL(w.core, w.on)
        <4>1. w.core \in Cores /\ w.on \in BOOLEAN  BY <1>0, <3>2 DEF Writes
        <4> QED  BY <3>2, <4>1 DEF WriteCTL, GicTypeOK
      <3>3. CASE w.reg = "GICD_CTLR" /\ WriteDistCtl(w.on)
        <4>1. w.on \in BOOLEAN  BY <1>0, <3>3 DEF Writes
        <4> QED  BY <3>3, <4>1 DEF WriteDistCtl, GicTypeOK
      <3> QED  BY <1>3, <3>1, <3>2, <3>3 DEF Configure
    <2>2. UNCHANGED <<sgi_matrix, actives, IA, changed, timer, cpu>>
      BY <1>3 DEF Configure, WriteEnables, WriteCTL, WriteDistCtl
    <2>3. ShownIsPending' /\ ActiveIsServed'
      BY <2>2, WaitingKeeps DEF cpu
    <2> QED  BY <2>1, <2>2, <2>3 DEF TimerTypeOK, CpuTypeOK, EventFlagMeansLine, timer, cpu
  <1>4. CASE SetTimer(w)
    <2>1. TimerTypeOK' /\ EventFlagMeansLine'  BY <1>4, ControlKeeps, ProgramAssumption
    <2>2. ShownIsPending' /\ ActiveIsServed'
      BY <1>4, WaitingKeeps DEF SetTimer, gic, cpu
    <2> QED  BY <1>4, <2>1, <2>2 DEF SetTimer, GicTypeOK, CpuTypeOK, gic, cpu
  <1>5. CASE ClearEarly(w)
    <2>1. w.core \in TimerCores  BY <1>0, <1>5 DEF ClearEarly, Writes
    <2>2. TimerTypeOK' /\ EventFlagMeansLine'  BY <1>5, <2>1, ClearKeeps DEF ClearEarly
    <2>3. GicTypeOK' /\ ShownIsPending' /\ ActiveIsServed'
      BY <1>5, FollowKeeps, WaitingKeeps DEF ClearEarly, cpu
    <2> QED  BY <1>5, <2>2, <2>3 DEF ClearEarly, CpuTypeOK, cpu
  <1> QED  BY <1>1, <1>2, <1>3, <1>4, <1>5 DEF Run, Rings

LEMMA TakeKeeps ==
  ASSUME IInv, NEW c \in Cores, Take(c)
  PROVE  IInv'
  <1>1. CpuTypeOK'  BY DEF IInv, TypeOK, CpuTypeOK, Take, Ready
  <1>2. ShownIsPending' /\ ActiveIsServed'  BY WaitingKeeps DEF IInv, Take, gic
  <1> QED  BY <1>1, <1>2 DEF IInv, TypeOK, Take, GicTypeOK, TimerTypeOK, EventFlagMeansLine, gic, timer

\* An acknowledged SGI has a source.
LEMMA SourceIsCore ==
  ASSUME IInv, NEW c \in Cores, NEW i \in Sgis, NEW s \in 0 .. NCpus,
         doing[c] = "taken", c \notin changed, Acknowledge(c, i, s)
  PROVE  s \in sgi_matrix[c][i] /\ s \in Cores
  <1>1. todo[c] = {}  BY DEF IInv, TypeOK, CpuTypeOK
  <1>2. i \in Pending(c)  BY <1>1 DEF IInv, ShownIsPending, Acknowledge
  <1> QED  BY <1>2 DEF IInv, TypeOK, GicTypeOK, Acknowledge, Source, Pending

LEMMA ReadKeeps ==
  ASSUME IInv, NEW c \in Cores, ReadIAR(c)
  PROVE  IInv'
  <1> USE DEF IInv, TypeOK
  <1> PICK i \in Ints \cup {Spurious}, s \in 0 .. NCpus :
         /\ doing[c] = "taken" /\ c \notin changed
         /\ Acknowledge(c, i, s)
         /\ serving' = [serving EXCEPT ![c] = <<i, s>>]
         /\ doing' = [doing EXCEPT ![c] = IF i = Spurious THEN "run" ELSE "serve"]
         /\ todo' = [todo EXCEPT ![c] = IF i = Spurious THEN {}
                                        ELSE IF i = Tick THEN {"clear", "end"} ELSE {"end"}]
         /\ UNCHANGED timer
    BY DEF ReadIAR
  <1>1. serving[c] = None /\ todo[c] = {}  BY DEF CpuTypeOK
  <1>2. <<i, s>> \in (Ppis \X {0}) \cup (Sgis \X Cores) \cup {None} /\ (i = Spurious <=> <<i, s>> = None)
    <2>1. CASE i \in Sgis  BY <2>1, SourceIsCore, Numbers DEF Ints, None
    <2>2. CASE i \notin Sgis  BY <2>2, Numbers DEF Ints, None, Acknowledge
    <2> QED  BY <2>1, <2>2
  <1>3. CpuTypeOK'  BY <1>2 DEF CpuTypeOK
  <1>4. GicTypeOK'
    <2>1. sgi_matrix' \in [Cores -> [Sgis -> SUBSET Cores]]
      <3>1. CASE i \in Sgis
        <4>1. [sgi_matrix[c] EXCEPT ![i] = @ \ {s}] \in [Sgis -> SUBSET Cores]
          BY <3>1 DEF GicTypeOK
        <4>2. sgi_matrix' = [sgi_matrix EXCEPT ![c][i] = @ \ {s}]
          BY <3>1 DEF Acknowledge, ClearSgi
        <4> QED  BY <4>1, <4>2 DEF GicTypeOK
      <3>2. CASE i \notin Sgis
        BY <3>2 DEF Acknowledge, GicTypeOK
      <3> QED  BY <3>1, <3>2
    <2>2. unmasked' \in [Cores -> SUBSET Ppis]
      <3>1. unmasked' = unmasked \/ unmasked' = [unmasked EXCEPT ![c] = @ \ {i}]
        BY DEF Acknowledge
      <3>2. unmasked \in [Cores -> SUBSET Ppis] /\ unmasked[c] \ {i} \in SUBSET Ppis
        BY DEF GicTypeOK
      <3> QED  BY <3>1, <3>2
    <2>3. actives' \in [Cores -> SUBSET Ints]
      <3>1. actives' = [actives EXCEPT ![c] = @ \cup ({i} \cap Ints)]
        BY DEF Acknowledge
      <3>2. actives \in [Cores -> SUBSET Ints] /\ actives[c] \cup ({i} \cap Ints) \in SUBSET Ints
        BY DEF GicTypeOK
      <3> QED  BY <3>1, <3>2
    <2> QED  BY <2>1, <2>2, <2>3 DEF Acknowledge, GicTypeOK
  <1>5. TimerTypeOK' /\ EventFlagMeansLine'  BY DEF TimerTypeOK, EventFlagMeansLine, timer
  <1>6. ShownIsPending'
    <2>1. \A d \in Cores \ {c} : Pending(d)' = Pending(d) /\ todo'[d] = todo[d]
      BY DEF Acknowledge, ClearSgi, GicTypeOK, CpuTypeOK, Pending
    <2> QED  BY <2>1 DEF Acknowledge, ShownIsPending
  <1>7. ActiveIsServed'
    <2>1. actives[c] \cap Sgis = {}  BY <1>1 DEF ActiveIsServed
    <2>2. actives'[c] \cap Sgis \subseteq IF "end" \in todo'[c] THEN {serving'[c][1]} ELSE {}
      BY <2>1, Numbers DEF Acknowledge, GicTypeOK, CpuTypeOK
    <2>3. \A d \in Cores \ {c} : actives'[d] = actives[d] /\ todo'[d] = todo[d] /\ serving'[d] = serving[d]
      BY DEF Acknowledge, GicTypeOK, CpuTypeOK
    <2> QED  BY <2>2, <2>3 DEF ActiveIsServed
  <1> QED  BY <1>3, <1>4, <1>5, <1>6, <1>7

\* Doing a part of the service.
LEMMA DidKeeps ==
  ASSUME CpuTypeOK, NEW c \in Cores, NEW what \in {"clear", "end"}, what \in todo[c], Did(c, what)
  PROVE  /\ CpuTypeOK'
         /\ todo'[c] = todo[c] \ {what}
         /\ (todo'[c] # {} => serving'[c] = serving[c])
         /\ \A d \in Cores \ {c} : todo'[d] = todo[d] /\ serving'[d] = serving[d]
  BY DEF CpuTypeOK, Did

LEMMA ClearTickKeeps ==
  ASSUME IInv, NEW c \in Cores, ClearTick(c)
  PROVE  IInv'
  <1> USE DEF IInv, TypeOK, ClearTick
  <1>1. /\ CpuTypeOK'
        /\ todo'[c] = todo[c] \ {"clear"}
        /\ (todo'[c] # {} => serving'[c] = serving[c])
        /\ \A d \in Cores \ {c} : todo'[d] = todo[d] /\ serving'[d] = serving[d]
    BY DidKeeps
  <1>2. TimerTypeOK' /\ EventFlagMeansLine'
    BY ClearKeeps DEF TimerTypeOK, EventFlagMeansLine, timer
  <1>3. /\ GicTypeOK' /\ changed \subseteq changed'
        /\ sgi_matrix' = sgi_matrix /\ actives' = actives /\ IA' = IA
    BY FollowKeeps
  <1>4. ShownIsPending'  BY <1>1, <1>3 DEF ShownIsPending, Pending
  <1>5. ActiveIsServed'  BY <1>1, <1>3 DEF ActiveIsServed
  <1> QED  BY <1>1, <1>2, <1>3, <1>4, <1>5

LEMMA EndKeeps ==
  ASSUME IInv, NEW c \in Cores, WriteEOIR(c)
  PROVE  IInv'
  <1> USE DEF IInv, TypeOK, WriteEOIR, EndOfInt
  <1>1. /\ CpuTypeOK'
        /\ todo'[c] = todo[c] \ {"end"}
        /\ \A d \in Cores \ {c} : todo'[d] = todo[d] /\ serving'[d] = serving[d]
    BY DidKeeps
  <1>2. GicTypeOK'  BY DEF GicTypeOK
  <1>3. TimerTypeOK' /\ EventFlagMeansLine'  BY DEF TimerTypeOK, EventFlagMeansLine, timer
  <1>4. ShownIsPending'  BY <1>1 DEF ShownIsPending, Pending
  <1>5. ActiveIsServed'  BY <1>1 DEF ActiveIsServed, GicTypeOK
  <1> QED  BY <1>1, <1>2, <1>3, <1>4, <1>5

LEMMA TimePassesKeeps ==
  ASSUME IInv, NEW c \in TimerCores, Time(c)
  PROVE  IInv'
  <1> USE DEF IInv, TypeOK
  <1>1. TimerTypeOK' /\ EventFlagMeansLine'  BY TimeKeeps DEF Time
  <1>2. GicTypeOK' /\ ShownIsPending' /\ ActiveIsServed'
    BY FollowKeeps, WaitingKeeps DEF Time, cpu
  <1> QED  BY <1>1, <1>2 DEF Time, CpuTypeOK, cpu

LEMMA StutterKeeps ==
  ASSUME IInv, UNCHANGED vars
  PROVE  IInv'
  BY DEF IInv, TypeOK, GicTypeOK, TimerTypeOK, CpuTypeOK, EventFlagMeansLine, ShownIsPending,
         ActiveIsServed, Pending, vars, gic, timer, cpu

LEMMA Inductive == IInv /\ [Next]_vars => IInv'
  <1> SUFFICES ASSUME IInv, [Next]_vars PROVE IInv'  OBVIOUS
  <1> QED  BY DistributesKeep, RunKeeps, TakeKeeps, ReadKeeps, ClearTickKeeps, EndKeeps,
             TimePassesKeeps, StutterKeeps DEF Next, Serve

LEMMA Invariance == Spec => []IInv
  BY Initially, Inductive, PTL DEF Spec

\* What the service routine reads names an interrupt that is there.
THEOREM InterruptsTypeOK == Spec => []TypeOK
  <1>1. IInv => TypeOK  BY DEF IInv
  <1> QED  BY <1>1, Invariance, PTL

\* A set event flag comes with the interrupt line, for every timer.
THEOREM InterruptsEventFlag == Spec => []EventFlagMeansLine
  <1>1. IInv => EventFlagMeansLine  BY DEF IInv
  <1> QED  BY <1>1, Invariance, PTL

-----------------------------------------------------------------------------
(* The refinement.                                                         *)

Rung == {x \in Cores \X Sgis \X Cores : x[3] \in sgi_matrix[x[1]][x[2]]}
Answering == [c \in Cores |-> IF serving[c][1] \in Sgis THEN serving[c] ELSE None]

LEMMA RungHas ==
  ASSUME NEW c \in Cores, NEW i \in Sgis, NEW s \in Cores
  PROVE  <<c, i, s>> \in Rung <=> s \in sgi_matrix[c][i]
  BY DEF Rung

LEMMA SameBells ==
  ASSUME UNCHANGED <<sgi_matrix, serving>>
  PROVE  UNCHANGED <<Rung, Answering>>
  BY DEF Rung, Answering

\* A ring, and the withdrawal of one, in terms of triples.
LEMMA RingMaps ==
  ASSUME NEW T \in SUBSET Cores, NEW i \in Sgis, NEW S \in SUBSET Cores, GicTypeOK,
         sgi_matrix' = [t \in Cores |-> IF t \in T THEN [sgi_matrix[t] EXCEPT ![i] = @ \cup S]
                                        ELSE sgi_matrix[t]]
  PROVE  Rung' = Rung \cup (T \X {i} \X S)
  <1>1. \A t \in Cores, j \in Sgis : sgi_matrix'[t][j] =
            IF t \in T /\ j = i THEN sgi_matrix[t][j] \cup S ELSE sgi_matrix[t][j]
    BY DEF GicTypeOK
  <1>2. ASSUME NEW t \in Cores, NEW j \in Sgis, NEW s \in Cores
        PROVE  <<t, j, s>> \in Rung' <=> <<t, j, s>> \in Rung \cup (T \X {i} \X S)
    <2>1. <<t, j, s>> \in Rung' <=> s \in sgi_matrix'[t][j]  BY DEF Rung
    <2>2. <<t, j, s>> \in T \X {i} \X S <=> t \in T /\ j = i /\ s \in S  OBVIOUS
    <2>3. <<t, j, s>> \in Rung <=> s \in sgi_matrix[t][j]  BY RungHas
    <2>4. sgi_matrix'[t][j] = IF t \in T /\ j = i THEN sgi_matrix[t][j] \cup S ELSE sgi_matrix[t][j]
      BY <1>1
    <2>5. CASE t \in T /\ j = i  BY <2>1, <2>2, <2>3, <2>4, <2>5
    <2>6. CASE ~(t \in T /\ j = i)  BY <2>1, <2>2, <2>3, <2>4, <2>6
    <2> QED  BY <2>5, <2>6
  <1>3. Rung' \subseteq Cores \X Sgis \X Cores /\ Rung \subseteq Cores \X Sgis \X Cores
    BY DEF Rung
  <1>4. T \X {i} \X S \subseteq Cores \X Sgis \X Cores  OBVIOUS
  <1> QED  BY <1>2, <1>3, <1>4

LEMMA WithdrawMaps ==
  ASSUME NEW c \in Cores, NEW i \in Sgis, NEW S \in SUBSET Cores, GicTypeOK,
         sgi_matrix' = [sgi_matrix EXCEPT ![c][i] = @ \ S]
  PROVE  Rung' = Rung \ ({c} \X {i} \X S)
  <1>1. \A t \in Cores, j \in Sgis : sgi_matrix'[t][j] =
            IF t = c /\ j = i THEN sgi_matrix[t][j] \ S ELSE sgi_matrix[t][j]
    BY DEF GicTypeOK
  <1> QED  BY <1>1 DEF Rung

LEMMA BellsStep ==
  ASSUME IInv, [Next]_vars
  PROVE  Bells!Next \/ UNCHANGED <<Rung, Answering>>
  <1> USE DEF IInv, TypeOK
  <1>1. CASE Distributes \/ UNCHANGED vars \/ (\E c \in Cores : Take(c)) \/ (\E c \in TimerCores : Time(c))
    <2>1. UNCHANGED <<sgi_matrix, serving>>
      BY <1>1, FollowKeeps DEF Distributes, Distribute, Take, Time, vars, gic, cpu
    <2> QED  BY <2>1, SameBells
  <1>2. ASSUME NEW w \in Program, WriteSgirOf(w)
        PROVE  Bells!Next
    <2> DEFINE T == SgirTargets(w.core, w.filter, w.targets)
    <2>1. w.core \in Cores /\ w.sgi \in Sgis
      BY <1>2, ProgramAssumption DEF WriteSgirOf, Writes
    <2>2. T \in SUBSET Cores  BY <2>1 DEF SgirTargets
    <2>3. Rung' = Rung \cup (T \X {w.sgi} \X {w.core})
      <3>1. {w.core} \in SUBSET Cores  BY <2>1
      <3>2. sgi_matrix' = [t \in Cores |-> IF t \in T THEN [sgi_matrix[t] EXCEPT ![w.sgi] = @ \cup {w.core}]
                                           ELSE sgi_matrix[t]]
        BY <1>2 DEF WriteSgirOf, WriteSgir
      <3> HIDE DEF T
      <3> QED  BY <2>1, <2>2, <3>1, <3>2, RingMaps
    <2>4. UNCHANGED Answering  BY <1>2 DEF WriteSgirOf, cpu, Answering
    <2>5. Bells!Ring(T, w.sgi, {w.core})  BY <2>3, <2>4 DEF Bells!Ring, Rung, Answering
    <2> QED  BY <2>1, <2>2, <2>5 DEF Bells!Next
  <1>3. ASSUME NEW w \in Program, WriteSgiPending(w)
        PROVE  Bells!Next
    <2>1. w.core \in Cores /\ w.sgi \in Sgis /\ w.sources \in SUBSET Cores /\ w.set \in BOOLEAN
      BY <1>3, ProgramAssumption DEF WriteSgiPending, Writes
    <2>2. UNCHANGED Answering  BY <1>3 DEF WriteSgiPending, cpu, Answering
    <2>3. CASE w.set
      <3>1. sgi_matrix' = [t \in Cores |-> IF t \in {w.core} THEN [sgi_matrix[t] EXCEPT ![w.sgi] = @ \cup w.sources]
                                           ELSE sgi_matrix[t]]
        BY <1>3, <2>1, <2>3 DEF WriteSgiPending, SgiSetNClear, GicTypeOK
      <3>2. Rung' = Rung \cup ({w.core} \X {w.sgi} \X w.sources)
        <4>1. {w.core} \in SUBSET Cores  BY <2>1
        <4> QED  BY <2>1, <3>1, <4>1, RingMaps
      <3>3. Bells!Ring({w.core}, w.sgi, w.sources)  BY <2>2, <3>2 DEF Bells!Ring, Rung, Answering
      <3> QED  BY <2>1, <3>3 DEF Bells!Next
    <2>4. CASE ~w.set
      <3>1. Rung' = Rung \ ({w.core} \X {w.sgi} \X w.sources)
        <4>1. sgi_matrix' = [sgi_matrix EXCEPT ![w.core][w.sgi] = @ \ w.sources]
          BY <1>3, <2>4 DEF WriteSgiPending, SgiSetNClear
        <4> QED  BY <2>1, <4>1, WithdrawMaps
      <3>2. Bells!Withdraw(w.core, w.sgi, w.sources)  BY <2>2, <3>1 DEF Bells!Withdraw, Rung, Answering
      <3> QED  BY <2>1, <3>2 DEF Bells!Next
    <2> QED  BY <2>3, <2>4
  <1>4. ASSUME NEW w \in Program, Configure(w) \/ SetTimer(w) \/ ClearEarly(w)
        PROVE  UNCHANGED <<Rung, Answering>>
    <2>1. UNCHANGED <<sgi_matrix, serving>>
      BY <1>4, FollowKeeps DEF Configure, WriteEnables, WriteCTL, WriteDistCtl, SetTimer, ClearEarly, gic, cpu
    <2> QED  BY <2>1, SameBells
  <1>5. ASSUME NEW c \in Cores, ReadIAR(c)
        PROVE  Bells!Next \/ UNCHANGED <<Rung, Answering>>
    <2> PICK i \in Ints \cup {Spurious}, s \in 0 .. NCpus :
           /\ doing[c] = "taken" /\ c \notin changed
           /\ Acknowledge(c, i, s)
           /\ serving' = [serving EXCEPT ![c] = <<i, s>>]
      BY <1>5 DEF ReadIAR
    <2>1. serving[c] = None /\ serving \in [Cores -> (Ppis \X {0}) \cup (Sgis \X Cores) \cup {None}]
      BY DEF CpuTypeOK
    <2>2. CASE i \in Sgis
      <3>1. s \in sgi_matrix[c][i] /\ s \in Cores  BY <2>2, SourceIsCore
      <3>2. Rung' = Rung \ ({c} \X {i} \X {s})
        <4>1. sgi_matrix' = [sgi_matrix EXCEPT ![c][i] = @ \ {s}]
          BY <2>2 DEF Acknowledge, ClearSgi
        <4>2. {s} \in SUBSET Cores  BY <3>1
        <4> QED  BY <2>2, <4>1, <4>2, WithdrawMaps
      <3>3. Rung' = Rung \ {<<c, i, s>>}  BY <3>2, {c} \X {i} \X {s} = {<<c, i, s>>}
      <3>4. Answering[c] = None /\ Answering' = [Answering EXCEPT ![c] = <<i, s>>]
        BY <2>1, <2>2, Numbers DEF Answering, Ints
      <3>5. <<c, i, s>> \in Rung  BY <2>2, <3>1, RungHas
      <3>6. Bells!Answer(c, i, s)  BY <3>3, <3>4, <3>5 DEF Bells!Answer, Rung, Answering
      <3> QED  BY <2>2, <3>1, <3>6 DEF Bells!Next
    <2>3. CASE i \notin Sgis
      <3>1. UNCHANGED sgi_matrix  BY <2>3 DEF Acknowledge
      <3>2. UNCHANGED Rung  BY <3>1 DEF Rung
      <3>3. UNCHANGED Answering  BY <2>1, <2>3, Numbers DEF Answering, Ints
      <3> QED  BY <3>2, <3>3
    <2> QED  BY <2>2, <2>3
  <1>6. ASSUME NEW c \in Cores, ClearTick(c) \/ WriteEOIR(c)
        PROVE  Bells!Next \/ UNCHANGED <<Rung, Answering>>
    <2>1. UNCHANGED sgi_matrix
      BY <1>6, FollowKeeps DEF ClearTick, WriteEOIR, EndOfInt
    <2>2. UNCHANGED Rung  BY <2>1 DEF Rung
    <2>3. UNCHANGED serving \/ serving' = [serving EXCEPT ![c] = None]
      BY <1>6 DEF ClearTick, WriteEOIR, Did, CpuTypeOK
    <2>4. CASE UNCHANGED serving  BY <2>2, <2>4 DEF Answering
    <2>5. CASE serving' = [serving EXCEPT ![c] = None]
      <3>1. Answering' = [Answering EXCEPT ![c] = None]
        BY <2>5, Numbers DEF Answering, CpuTypeOK, Ints
      <3>2. Bells!Finish(c)  BY <2>2, <3>1 DEF Bells!Finish, Rung, Answering
      <3> QED  BY <3>2 DEF Bells!Next
    <2> QED  BY <2>3, <2>4, <2>5
  <1> QED  BY <1>1, <1>2, <1>3, <1>4, <1>5, <1>6 DEF Next, Run, Rings, Serve

\* Every ring is answered once, by its target, under its number and source,
\* however many cores, interrupts and programs there are.
THEOREM InterruptsImplementDoorbells == Spec => ImplementsDoorbells
  <1>1. Init => Bells!Init
    <2> SUFFICES ASSUME Init PROVE Rung = {} /\ Answering = [c \in Cores |-> None]
      BY DEF Bells!Init, Rung, Answering
    <2>1. Rung = {}  BY DEF Init, GicInit, Rung
    <2>2. Answering = [c \in Cores |-> None]  BY Numbers DEF Init, Answering, Ints
    <2> QED  BY <2>1, <2>2
  <1>2. IInv /\ [Next]_vars => [Bells!Next]_<<Rung, Answering>>
    BY BellsStep
  <1> QED
    BY <1>1, <1>2, Invariance, PTL DEF Spec, ImplementsDoorbells, Bells!Spec, Rung, Answering
=============================================================================

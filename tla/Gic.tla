-------------------------------- MODULE Gic --------------------------------
(* The interrupt controller (arm/gic_arm_tlm.cpp): software-generated and  *)
(* private interrupts of every core, all in group 0.  A change notifies    *)
(* distribute(), which runs when the process that made the change gives    *)
(* way; a core does so after each instruction (the quantum is zero).       *)
EXTENDS Naturals

CONSTANTS
    NCpus,      \* n_cpus
    Sgis,       \* the software-generated interrupts in use
    Ppis,       \* the private interrupts in use
    Priority,   \* GICD_IPRIORITYR of each
    Leftover    \* interrupts whose bits may be set when the simulation starts

Cores == 0 .. NCpus - 1
Ints == Sgis \cup Ppis
Spurious == 1023
Lines == NCpus         \* the lines, where they notify

\* One byte for the sources of an SGI.
ASSUME NCpusAssumption == NCpus \in 1 .. 8
ASSUME IntsAssumption == Sgis \subseteq 0 .. 15 /\ Ppis \subseteq 27 .. 31
ASSUME PriorityAssumption == Priority \in [Ints -> 0 .. 255]
\* The constructor leaves a core's words as the allocation left them.  A bit
\* of an SGI in unmasked would request it for ever.
ASSUME LeftoverAssumption == Leftover \subseteq Ppis

VARIABLES
    EnableGrp0,     \* the distributor forwards
    CTL,            \* the interface of a core is enabled
    enables,        \* each core's enabled interrupts
    sgi_matrix,     \* the cores that have an SGI pending at a core
    actives,        \* acknowledged and not ended
    unmasked,       \* private lines, as latched at the last change of any
    IA,             \* what a core's acknowledge register will return
    changed         \* who has notified inputs_have_changed

gic == <<EnableGrp0, CTL, enables, sgi_matrix, actives, unmasked, IA, changed>>

GicInit == /\ EnableGrp0 \in BOOLEAN
           /\ CTL = [c \in Cores |-> FALSE]
           /\ enables \in [Cores -> SUBSET Leftover]
           /\ sgi_matrix = [c \in Cores |-> [i \in Sgis |-> {}]]
           /\ actives \in [Cores -> SUBSET Leftover]
           /\ unmasked = [c \in Cores |-> {}]
           /\ IA = [c \in Cores |-> Spurious]
           /\ changed = {Lines}

Pending(c) == {i \in Sgis : sgi_matrix[c][i] # {}}

\* A form that looks at the interface of core 0 for all cores.
RequestsByFirst(c) == IF EnableGrp0 /\ CTL[0]
                      THEN (Pending(c) \cup actives[c] \cup unmasked[c]) \cap enables[c]
                      ELSE {}

\* read_requesting_disjunction, and what the enables let pass.
Requests(c) == IF EnableGrp0 /\ CTL[c]
               THEN (Pending(c) \cup actives[c] \cup unmasked[c]) \cap enables[c]
               ELSE {}

Before(i, j) == Priority[i] < Priority[j] \/ (Priority[i] = Priority[j] /\ i <= j)

Leads(c, i) == IF Requests(c) = {} THEN i = Spurious
               ELSE i \in Requests(c) /\ \A j \in Requests(c) : Before(i, j)

\* distribute
Distribute == /\ changed # {}
              /\ IA' \in [Cores -> Ints \cup {Spurious}]
              /\ \A c \in Cores : Leads(c, IA'[c])
              /\ changed' = {}
              /\ UNCHANGED <<EnableGrp0, CTL, enables, sgi_matrix, actives, unmasked>>

\* IRQ_out, as distribute drove it.
IRQ(c) == IA[c] # Spurious

\* ppi_changed: the levels of all the private lines are latched anew.
PpiChanged(level) ==
    /\ unmasked' = [c \in Cores |-> (unmasked[c] \cap Sgis) \cup level[c]]
    /\ changed' = changed \cup {Lines}

\* The source of an SGI, lowest first; NCpus if there is none.
Source(c, i, s) == IF sgi_matrix[c][i] = {} THEN s = NCpus
                   ELSE s \in sgi_matrix[c][i] /\ \A r \in sgi_matrix[c][i] : s <= r

\* A form that clears the SGI for all its sources.
ClearSgiWhole(c, i, s) == [sgi_matrix EXCEPT ![c][i] = {}]

\* clear_sgi
ClearSgi(c, i, s) == [sgi_matrix EXCEPT ![c][i] = @ \ {s}]

\* A form that drops the private lines whatever is acknowledged.
AcknowledgeAll(c, i, s) ==
    /\ i = IA[c]
    /\ IF i \in Sgis THEN Source(c, i, s) /\ sgi_matrix' = ClearSgi(c, i, s)
                     ELSE s = 0 /\ UNCHANGED sgi_matrix
    /\ unmasked' = [unmasked EXCEPT ![c] = {}]
    /\ actives' = [actives EXCEPT ![c] = @ \cup ({i} \cap Ints)]
    /\ changed' = changed \cup {c}
    /\ UNCHANGED <<EnableGrp0, CTL, enables, IA>>

\* notify_int_acknowledge.  After a spurious one nothing that can request.
Acknowledge(c, i, s) ==
    /\ i = IA[c]
    /\ IF i \in Sgis
       THEN Source(c, i, s) /\ sgi_matrix' = ClearSgi(c, i, s) /\ UNCHANGED unmasked
       ELSE s = 0 /\ unmasked' = [unmasked EXCEPT ![c] = @ \ {i}] /\ UNCHANGED sgi_matrix
    /\ actives' = [actives EXCEPT ![c] = @ \cup ({i} \cap Ints)]
    /\ changed' = changed \cup {c}
    /\ UNCHANGED <<EnableGrp0, CTL, enables, IA>>

\* A form that leaves the outputs as they are.
EndOfIntQuietly(c, i) ==
    /\ actives' = [actives EXCEPT ![c] = @ \ {i}]
    /\ UNCHANGED <<EnableGrp0, CTL, enables, sgi_matrix, unmasked, IA, changed>>

\* notify_end_of_int
EndOfInt(c, i) ==
    /\ actives' = [actives EXCEPT ![c] = @ \ {i}]
    /\ changed' = changed \cup {c}
    /\ UNCHANGED <<EnableGrp0, CTL, enables, sgi_matrix, unmasked, IA>>

\* The cores that a write of GICD_SGIR by core c rings.  Filter 1 rings the
\* writer as well (line 669), against the comment on it (line 663).
SgirTargets(c, filter, T) == CASE filter = 0 -> T \cap Cores
                               [] filter = 1 -> Cores
                               [] filter = 2 -> {c}
                               [] OTHER -> {}

\* write_gic_sgir
WriteSgir(c, i, T) ==
    /\ sgi_matrix' = [t \in Cores |-> IF t \in T THEN [sgi_matrix[t] EXCEPT ![i] = @ \cup {c}]
                                      ELSE sgi_matrix[t]]
    /\ changed' = changed \cup {c}
    /\ UNCHANGED <<EnableGrp0, CTL, enables, actives, unmasked, IA>>

\* sgi_set_nclear: a core sets or clears pending SGIs of its own.
SgiSetNClear(c, i, S, set) ==
    /\ sgi_matrix' = [sgi_matrix EXCEPT ![c][i] = IF set THEN @ \cup S ELSE @ \ S]
    /\ changed' = changed \cup {c}
    /\ UNCHANGED <<EnableGrp0, CTL, enables, actives, unmasked, IA>>

\* Writes of the enabling registers notify nobody.
WriteEnables(c, I, set) ==
    /\ enables' = [enables EXCEPT ![c] = IF set THEN @ \cup I ELSE @ \ I]
    /\ UNCHANGED <<EnableGrp0, CTL, sgi_matrix, actives, unmasked, IA, changed>>

WriteCTL(c, on) ==
    /\ CTL' = [CTL EXCEPT ![c] = on]
    /\ UNCHANGED <<EnableGrp0, enables, sgi_matrix, actives, unmasked, IA, changed>>

WriteDistCtl(on) ==
    /\ EnableGrp0' = on
    /\ UNCHANGED <<CTL, enables, sgi_matrix, actives, unmasked, IA, changed>>

GicTypeOK ==
    /\ EnableGrp0 \in BOOLEAN
    /\ CTL \in [Cores -> BOOLEAN]
    /\ enables \in [Cores -> SUBSET Ints]
    /\ sgi_matrix \in [Cores -> [Sgis -> SUBSET Cores]]
    /\ actives \in [Cores -> SUBSET Ints]
    /\ unmasked \in [Cores -> SUBSET Ppis]
    /\ IA \in [Cores -> Ints \cup {Spurious}]
    /\ changed \subseteq Cores \cup {Lines}
=============================================================================

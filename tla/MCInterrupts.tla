---------------------------- MODULE MCInterrupts ----------------------------
EXTENDS Interrupts
MCPriority == [i \in {1, 29} |-> 0]
\* Each core enables its interface at some time, core 0 the distributor.
\* Core 0 rings all cores, core 1 rings core 0 and takes back what rings at
\* itself; core 0 sets its timer as periodic, as one-shot without interrupts, and not
\* at all, and clears its flag outside the service routine as well.
MCProgram ==
    {[core |-> c, reg |-> "GICC_CTLR", on |-> TRUE] : c \in {0, 1}}
    \cup {[core |-> 0, reg |-> "GICD_CTLR", on |-> TRUE],
          [core |-> 0, reg |-> "ENABLE", ints |-> {1, 29}, set |-> TRUE],
          [core |-> 1, reg |-> "ENABLE", ints |-> {1}, set |-> TRUE],
          [core |-> 0, reg |-> "GICD_SGIR", sgi |-> 1, filter |-> 1, targets |-> {}],
          [core |-> 1, reg |-> "GICD_SGIR", sgi |-> 1, filter |-> 0, targets |-> {0}],
          [core |-> 1, reg |-> "SGI_PENDING", sgi |-> 1, sources |-> {0}, set |-> FALSE],
          [core |-> 0, reg |-> "CONTROL", E |-> TRUE, R |-> TRUE, I |-> TRUE],
          [core |-> 0, reg |-> "CONTROL", E |-> TRUE, R |-> FALSE, I |-> FALSE],
          [core |-> 0, reg |-> "CONTROL", E |-> FALSE, R |-> FALSE, I |-> TRUE],
          [core |-> 0, reg |-> "STATUS"]}
=============================================================================

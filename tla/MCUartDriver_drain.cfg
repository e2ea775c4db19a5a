\* Does the transmit ring drain by itself?
CONSTANTS
    MaxTyped = 3
    HasXterm = TRUE
    RingSize = 2
    MaxWrites = 2
    MaxReads = 2
SPECIFICATION FairSpec
PROPERTY EveryCharacterIsSent
\* A program may stop calling, and a user typing.
CHECK_DEADLOCK FALSE

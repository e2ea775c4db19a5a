\* Rings of two slots, which one character fills.
CONSTANTS
    MaxTyped = 3
    HasXterm = TRUE
    RingSize = 2
    MaxWrites = 3
    MaxReads = 2
SPECIFICATION FairSpec
INVARIANTS
    TypeOK
    SentInOrder
    
PROPERTIES
    InputIsTaken
\* A program may stop calling, and a user typing.
CHECK_DEADLOCK FALSE

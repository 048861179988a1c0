SPECIFICATION FairSpec
CONSTANTS
    BLOCK_COUNT = 8
    QUEUE_TARGET = 3
    Lengths <- SomeLengths
    NONE = NONE
INVARIANTS
    WakesMatchBlocks
    NotOverwritten
PROPERTIES
    StreamsInOrder

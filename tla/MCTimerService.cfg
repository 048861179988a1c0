SPECIFICATION FairSpec
CONSTANTS
    Owners = {o1, o2, o3}
    Threads = {t1}
    NSlots = 2
    Messages = {m1}
    Delays <- ShortDelays
    Intervals <- SomeIntervals
    TimeMax = 3
    TimeoutMax = 1
    MailboxCap = 1
    MaxCalls = 3
    NONE = NONE
PROPERTIES
    ImplementsTimers
    EveryTimerFires
CHECK_DEADLOCK FALSE

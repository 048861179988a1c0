SPECIFICATION TaskFairSpec
CONSTANTS
    Owners <- ThreeTasks
    Tasks <- ThreeTasks
    Messages <- ThreeTasks
    Capacity = 2
    Delays <- SomeDelays
    Intervals <- Once
    TimeMax = 5
    MailboxCap = 3
    MaxCreated = 5
    NONE = NONE
INVARIANTS
    TaskInOnePlace
PROPERTIES
    EveryTaskCompletes
CHECK_DEADLOCK FALSE

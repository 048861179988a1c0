SPECIFICATION FairSpec
CONSTANTS
    p0 = p0
    a0 = a0
    NULL = NULL
    GfxTasks <- OnePool
    AudioTasks <- OneAudio
    MainCap = 5
    TaskCap = 2
    PendingCap = 1
    GfxSlots = 2
    AudioSlots = 1
    GfxReplyCap = 2
    AudioReplyCap = 1
    GfxViCap = 1
    AudioViCap = 1
    GuBackend = TRUE
INVARIANTS
    NoEventDropped
    TaskHeldOnce
    AnswerMatchesTask
PROPERTIES
    GfxTaskAnswered
    StartedOncePerSubmission

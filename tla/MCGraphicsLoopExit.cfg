SPECIFICATION Spec
CONSTANTS
    VIMod = 10
    VIRates <- OneRate
    Scenes <- OneScene
    MaxElapsed = 2
    Generations = 3
    NONE = NONE
    pool0 = pool0
    pool1 = pool1
    HomeMenu = TRUE
CHECK_DEADLOCK FALSE
INVARIANTS
    ExitDrained

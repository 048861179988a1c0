SPECIFICATION Spec
CONSTANTS
    VIMod = 12
    VIRates <- SlowRates
    Scenes <- OneScene
    MaxElapsed = 2
    Generations = 3
    NONE = NONE
    pool0 = pool0
    pool1 = pool1
    HomeMenu = FALSE
SYMMETRY PoolSymmetry
PROPERTIES
    DrawnDataStable
    SubmitsNewest
    MotionNeverGoesBack
    SteadyFramesInterpolate

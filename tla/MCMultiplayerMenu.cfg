SPECIFICATION FairSpec
INVARIANTS
    PublishedIsCurrent
    LayersNested
PROPERTIES
    RadioGoesOff
CHECK_DEADLOCK FALSE

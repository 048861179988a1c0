SPECIFICATION FairSpec
INVARIANTS
    MixersExclude
    MixesNewestState
    HandoverComplete
PROPERTIES
    BlockLeftToMe
    PlaysSoundOrSilence
    SoundGoesOn

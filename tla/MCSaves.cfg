SPECIFICATION MCSpec
CONSTANTS
    Blocks = {b1, b2}
    Bytes <- ThreeBytes
    CanFail = {"remove", "open", "write", "close", "rename", "bak"}
    MaxFaults = 2
    SettingsCanFail = {"remove", "open", "write", "close", "rename", "probe"}
    Backends = {"gu", "pspgl"}
    Qualities = {"fast", "accurate"}
    SettingsMaxFaults = 3
    Requests = 2
    SaveFiles = {"s1", "s2"}
    MaxPresses = 3
    MaxSaves = 2
    MaxLock = 1
    TORN = TORN
    NONE = NONE
SYMMETRY BlockSymmetry
INVARIANTS
    ImageIsStored
    ShownIsStored
PROPERTIES
    SavesAreAtomic
    SettingsAreAtomic
    MenuKeepsItsPresses
    ReturnIsTrue

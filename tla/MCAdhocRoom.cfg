SPECIFICATION MCSpec
CONSTANTS
    w1 = w1
    w2 = w2
    w3 = w3
    Watchers <- ThreeWatchers
    Places <- TwoPlaces
    MaxSessions = 2
    MaxTokens <- JoinsByRoom
    MaxSequence <- JoinPackets
    MaxInFlight = 2
INVARIANTS
    OnePlacePerWatcher
    ConnectedWasGranted
PROPERTIES
    LivePlaceKept
    AbandonedPlaceFreed
CHECK_DEADLOCK FALSE

SPECIFICATION CommandsFairSpec
CONSTANTS
    RingSize = 4
    Messages = 2
    RestartStops = 1
    MaxCommands = 4
    MaxChanges = 2
    Specs = {"level", "versus", "title"}
    AUDIOSPEC_CO = "level"
    AUDIOSPEC_VS = "versus"
    Titles = {"title"}
INVARIANTS
    SpecFollows
PROPERTIES
    CommandsInTurn
    BarrierHolds
    CommandsRun
CHECK_DEADLOCK FALSE

SPECIFICATION Spec
CONSTANTS
    Text <- AllTexts
    MaxPort = 6
    MaxUint = 8
    Default <- SmallDefault
    RawConfigs <- AllRawConfigs
    TakenAtFirst <- SomeTaken
    MaxMoves = 0
    MaxFaults = 0
INVARIANT DocShutdownCommand
CHECK_DEADLOCK FALSE

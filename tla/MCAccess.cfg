SPECIFICATION FairSpec
CONSTANTS
    Text <- AllTexts
    MaxPort = 6
    MaxUint = 8
    Default <- SmallDefault
    RawConfigs <- AllRawConfigs
    TakenAtFirst <- SomeTaken
    MaxMoves = 1
    MaxFaults = 2
INVARIANTS
    TypeOK
    NeverPanics
    PassedIsComplete
    ForwardIsOurs
    SocketsLeft
PROPERTIES
    AccessEnds
    ConnectionsEnd
CHECK_DEADLOCK FALSE

SPECIFICATION FairSpec
CONSTANT Waits <- BuildWaits
INVARIANTS
    TypeOK
    NilIsQuiet
PROPERTIES
    MeetsContract
    PollersEnd
CHECK_DEADLOCK FALSE

SPECIFICATION FairSpec
CONSTANTS
    Networks <- SomeNetworks
    Vdis <- SomeVdis
    Choices <- SomeChoices
    MaxFaults = 3
    MaxHold = 3
INVARIANTS
    TypeOK
    UploadIsWhole
    NothingLeft
    RetriesCover
    NetworksAsAsked
    EveryDiskExported
    ExposureEnds
PROPERTIES
    CancelEnds

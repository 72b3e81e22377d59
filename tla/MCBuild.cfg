SPECIFICATION Spec
CONSTANTS
    Configs <- AllConfigs
    Pipeline <- AllPipelines
    Disks <- BuildDisks
    MaxFaults = 3
INVARIANTS
    TypeOK
    NoPanic
    CleanRollback
    Accounted
    LibraryIntact
    KeptImageIsWhole
    ArtifactIsThere
PROPERTIES
    AlwaysKeeps
    OldTemplatesGoLast
    MeetsContract

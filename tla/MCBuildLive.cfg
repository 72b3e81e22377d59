SPECIFICATION FairSpec
CONSTANTS
    Configs <- AllConfigs
    Pipeline <- AllPipelines
    Disks <- BuildDisks
    MaxFaults = 1
PROPERTIES
    Terminates
    CancelStopsBuild

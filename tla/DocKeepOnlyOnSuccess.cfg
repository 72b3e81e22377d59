SPECIFICATION Spec
CONSTANTS
    Configs <- AllConfigs
    Pipeline <- AllPipelines
    Disks <- BuildDisks
    MaxFaults = 1
INVARIANT DocKeepOnlyOnSuccess

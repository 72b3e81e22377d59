------------------------------ MODULE Transfer ------------------------------
(***************************************************************************)
(* What the upload of an image (VdiUpload) and the machine with its export *)
(* (MachineExport) share: the choices of the configuration, the calls that *)
(* may fail, the flag the runner writes, and the messages of the build.    *)
(***************************************************************************)
EXTENDS Naturals, Sequences, FiniteSets

CONSTANTS
    Networks,       \* the name-labels of networks
    Vdis,           \* the VDIs of the machine
    Choices,        \* the configurations, each with the pool it meets
    MaxFaults       \* bound: calls that fail in one build

Formats == {"xva", "xva_compressed", "vdi_raw", "vdi_vhd", "none"}
Vbd == [type : {"Disk", "CD"}, vdi : Vdis]

Choice == [keep : BOOLEAN,                \* keep_vm is "always", or else "never"
           image : BOOLEAN,               \* there is an image to upload
           isoSr : {"default", "unique", "missing", "ambiguous"},  \* sr_iso_name
           networks : Seq(Networks),      \* network_names
           exportNetworks : Seq(Networks),\* export_network_names
           labelled : [Networks -> 0 .. 2], \* how many networks have the name
           management : BOOLEAN,          \* the pool has a management interface
           clonedVif : BOOLEAN,           \* the template has a VIF, its device 0
           vbds : Seq(Vbd),               \* the VM's VBDs when it is exported
           format : Formats,
           oldHost : BOOLEAN]             \* product_version <= "6.5.0"

ASSUME ChoiceAssumption == Choices \subseteq Choice
ASSUME FaultAssumption == MaxFaults \in Nat

VARIABLES
    choice,
    cancelled,      \* the runner has written StateCancelled
    faults,         \* history: calls that have failed
    reported        \* history: the objects a message of a cleanup has named

NoFault == UNCHANGED faults
Fault == faults < MaxFaults /\ faults' = faults + 1
Says(what) == reported' = reported \cup what
=============================================================================

--------------------------- MODULE MachineExport ---------------------------
(***************************************************************************)
(* The machine's networks and its export: StepCreateInstance from the      *)
(* cloned VM to its VIFs, StepExport with its other networks, its formats  *)
(* and the Transfer VM of old hosts, and the cleanup of StepCreateInstance.*)
(* The VM is halted all the while: BuildPipeline has the steps between.    *)
(***************************************************************************)
EXTENDS Transfer

VARIABLES
    at,             \* where the two steps are
    next,           \* the index of their loops
    vm,             \* "absent", "present" or "destroyed"
    disks,          \* the VDIs the step has made that are still there
    vifs,           \* the VIFs of the VM
    unconnected,    \* history: devices whose VIF a message says was not made
    exposed,        \* the VDIs a Transfer VM exposes
    files           \* files[f]: what is in the file of f, "none" if there is none

machineVars == <<at, next, vm, disks, vifs, unconnected, exposed, files>>

Xva == "xva"
MachineInit ==
    /\ at = "idle" /\ next = 1
    /\ vm = "absent" /\ disks = {}
    /\ vifs = {} /\ unconnected = {}
    /\ exposed = {} /\ files = [f \in Vdis \cup {Xva} |-> "none"]

Vif(i, n) == [device |-> i, network |-> n]

IsDisk(vbd) == vbd.type = "Disk"

(* Careless form of Round: the media are taken along. *)
RoundForAll(vbds, found, i) ==
    IF i = 0 THEN <<>> ELSE Append(found[i - 1], vbds[i].vdi)

(* GetDisks goes over the VBDs and takes the VDIs of those of type "Disk", *)
(* not the media: found[i] is what it has after i rounds.                  *)
Round(vbds, found, i) ==
    IF i = 0 THEN <<>>
    ELSE IF IsDisk(vbds[i]) THEN Append(found[i - 1], vbds[i].vdi)
    ELSE found[i - 1]

DisksOf(vbds) ==
    LET found[i \in 0 .. Len(vbds)] == Round(vbds, found, i) IN found[Len(vbds)]

GetDisks == DisksOf(choice.vbds)

(* The disks of config.Disks, which CleanupCreateInstance knows. *)
OwnDisks == {choice.vbds[i].vdi : i \in {j \in DOMAIN choice.vbds : IsDisk(choice.vbds[j])}}

(* A careless form of Device. *)
DeviceFromOne(i) == i

(* The index of a name is the device of its VIF. *)
Device(i) == i - 1

-----------------------------------------------------------------------------
(* StepCreateInstance.Run.                                                 *)

(* The clone and its disks; any call may be the last that succeeds.        *)
CloneTemplate ==
    /\ at = "idle"
    /\ \/ Fault /\ at' = "halted" /\ UNCHANGED <<vm, disks, vifs>>
       \/ /\ vm' = "present"
          /\ vifs' = IF choice.clonedVif THEN {Vif(0, "template")} ELSE {}
          /\ \/ NoFault /\ at' = "networks" /\ disks' = OwnDisks
             \/ Fault /\ at' = "halted" /\ disks' \in SUBSET OwnDisks
    /\ UNCHANGED <<next, unconnected, exposed, files, choice, cancelled, reported>>

(* VIF.create refuses a device that is taken. *)
Taken(i) == \E v \in vifs : v.device = i

(* Without names the network of the management interface is needed. *)
ConnectManagement ==
    /\ at = "networks" /\ choice.networks = <<>>
    /\ \/ /\ choice.management /\ ~Taken(0) /\ NoFault
          /\ vifs' = vifs \cup {Vif(0, "management")} /\ at' = "tags"
       \/ /\ Fault \/ ((~choice.management \/ Taken(0)) /\ NoFault)
          /\ at' = "halted" /\ UNCHANGED vifs
    /\ UNCHANGED <<next, vm, disks, unconnected, exposed, files, choice, cancelled, reported>>

(* One round of the loop over the names: a name that is not that of one    *)
(* network halts the build, a VIF that cannot be made is only talked of.   *)
ConnectByName(names, here, there) ==
    /\ at = here
    /\ \/ /\ next > Len(names)
          /\ at' = there /\ NoFault /\ UNCHANGED <<next, vifs, unconnected>>
       \/ /\ next <= Len(names)
          /\ Fault \/ (choice.labelled[names[next]] # 1 /\ NoFault)
          /\ at' = "halted" /\ UNCHANGED <<next, vifs, unconnected>>
       \/ /\ next <= Len(names) /\ choice.labelled[names[next]] = 1
          /\ \/ /\ ~Taken(Device(next)) /\ NoFault
                /\ vifs' = vifs \cup {Vif(Device(next), names[next])}
                /\ UNCHANGED unconnected
             \/ /\ Fault \/ (Taken(Device(next)) /\ NoFault)
                /\ unconnected' = unconnected \cup {next - 1}
                /\ UNCHANGED vifs
          /\ next' = next + 1 /\ UNCHANGED at
    /\ UNCHANGED <<vm, disks, exposed, files, choice, cancelled, reported>>

ConnectNetworks ==
    choice.networks # <<>> /\ ConnectByName(choice.networks, "networks", "tags")

(* AddVMTags and the UUID that goes into the bag. *)
TagMachine ==
    /\ at = "tags"
    /\ \/ Fault /\ at' = "halted"
       \/ NoFault /\ at' = "created"
    /\ UNCHANGED <<next, vm, disks, vifs, unconnected, exposed, files, choice,
                   cancelled, reported>>

-----------------------------------------------------------------------------
(* StepExport.Run.                                                         *)

BeginExport ==
    /\ at = "created"
    /\ \/ Fault /\ at' = "halted"
       \/ NoFault /\ at' = IF choice.exportNetworks = <<>> THEN "format" ELSE "unplug"
    /\ UNCHANGED <<next, vm, disks, vifs, unconnected, exposed, files, choice,
                   cancelled, reported>>

(* The VIFs go one by one; one that cannot be destroyed halts the build.   *)
DestroyVif ==
    /\ at = "unplug"
    /\ \/ /\ vifs = {} /\ NoFault
          /\ at' = "replug" /\ next' = 1 /\ unconnected' = {} /\ UNCHANGED vifs
       \/ /\ \E v \in vifs : vifs' = vifs \ {v}
          /\ NoFault /\ UNCHANGED <<at, next, unconnected>>
       \/ /\ vifs # {} /\ Fault
          /\ at' = "halted" /\ UNCHANGED <<next, unconnected, vifs>>
    /\ UNCHANGED <<vm, disks, exposed, files, choice, cancelled, reported>>

ConnectExportNetworks == ConnectByName(choice.exportNetworks, "replug", "format")

(* downloadFile leaves a part of the file when it fails, and takes what a  *)
(* server sends instead of the file, or cut short, for it.                 *)
Download(f, served) ==
    \/ served /\ NoFault /\ files' = [files EXCEPT ![f] = "whole"]
    \/ (Fault \/ (~served /\ NoFault)) /\ files' = [files EXCEPT ![f] = "broken"]
DownloadFails(f, served) ==
    /\ Fault \/ (~served /\ NoFault)
    /\ \/ files' = [files EXCEPT ![f] = "broken"]
       \/ UNCHANGED files

ExportXva ==
    /\ at = "format" /\ choice.format \in {"xva", "xva_compressed"}
    /\ \/ Download(Xva, TRUE) /\ at' = "continued"
       \/ DownloadFails(Xva, TRUE) /\ at' = "halted"
    /\ UNCHANGED <<next, vm, disks, vifs, unconnected, exposed, choice, cancelled, reported>>

ExportOther ==
    /\ at = "format" /\ choice.format \notin {"xva", "xva_compressed"}
    /\ \/ choice.format = "none" /\ NoFault /\ at' = "continued"
       \/ choice.format # "none" /\ NoFault /\ at' = "disks"
       \/ choice.format # "none" /\ Fault /\ at' = "halted"
    /\ next' = 1
    /\ UNCHANGED <<vm, disks, vifs, unconnected, exposed, files, choice, cancelled, reported>>

Legacy == choice.oldHost /\ choice.format = "vdi_vhd"

(* Expose: the record may be unreadable when the VDI is exposed already.   *)
Expose ==
    /\ at = "disks"
    /\ \/ /\ next > Len(GetDisks) /\ NoFault
          /\ at' = "continued" /\ UNCHANGED exposed
       \/ /\ next <= Len(GetDisks)
          /\ \/ Fault /\ at' = "halted"
             \/ NoFault /\ at' = "download"
          /\ exposed' = IF Legacy THEN exposed \cup {GetDisks[next]} ELSE exposed
       \/ /\ next <= Len(GetDisks) /\ Fault
          /\ at' = "halted" /\ UNCHANGED exposed
    /\ UNCHANGED <<next, vm, disks, vifs, unconnected, files, choice, cancelled, reported>>

ExportDisk ==
    /\ at = "download"
    /\ LET d == GetDisks[next]
           served == ~Legacy \/ d \in exposed IN
       \/ Download(d, served) /\ at' = "unexpose"
       \/ DownloadFails(d, served) /\ at' = "halted"
    /\ UNCHANGED <<next, vm, disks, vifs, unconnected, exposed, choice, cancelled, reported>>

(* Careless form of Unexpose. *)
UnexposeNothing(d) == NoFault /\ UNCHANGED exposed

(* The error of Unexpose is dropped. *)
Unexpose(d) ==
    \/ NoFault /\ exposed' = exposed \ {d}
    \/ Fault /\ UNCHANGED exposed

NextDisk ==
    /\ at = "unexpose"
    /\ Unexpose(GetDisks[next])
    /\ at' = "disks" /\ next' = next + 1
    /\ UNCHANGED <<vm, disks, vifs, unconnected, files, choice, cancelled, reported>>

(* timeout_minutes = 5. *)
ExposureExpires ==
    /\ \E d \in exposed : exposed' = exposed \ {d}
    /\ UNCHANGED <<at, next, vm, disks, vifs, unconnected, files, choice, cancelled,
                   faults, reported>>

-----------------------------------------------------------------------------
(* StepCreateInstance.Cleanup: one try for the VM, one for each disk.  kept *)
(* are those that resist, each with a ui.Error; a Transfer VM holds the    *)
(* disks it exposes.                                                       *)
CleanupCreateInstance ==
    /\ at \in {"continued", "halted"}
    /\ \/ /\ choice.keep \/ vm = "absent"
          /\ NoFault /\ UNCHANGED <<vm, disks, reported>>
       \/ /\ ~choice.keep /\ vm = "present"
          /\ \E kept \in SUBSET (disks \cup {"vm"}) :
             /\ disks \cap exposed \subseteq kept
             /\ (kept \subseteq exposed /\ NoFault) \/ (~kept \subseteq exposed /\ Fault)
             /\ vm' = IF "vm" \in kept THEN "present" ELSE "destroyed"
             /\ disks' = kept \ {"vm"}
             /\ Says(kept)
    /\ at' = "clean"
    /\ UNCHANGED <<next, vifs, unconnected, exposed, files, choice, cancelled>>

RunMachine ==
    \/ CloneTemplate \/ ConnectManagement \/ ConnectNetworks \/ TagMachine
    \/ BeginExport \/ DestroyVif \/ ConnectExportNetworks \/ ExportXva \/ ExportOther
    \/ Expose \/ ExportDisk \/ NextDisk
=============================================================================

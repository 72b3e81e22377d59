----------------------------- MODULE Transfers ------------------------------
(***************************************************************************)
(* What a build moves in and out of the pool: the upload of an image, the  *)
(* machine with its networks, its export, and the cleanups of the two      *)
(* steps that made something, in the order of the runner.  Beside the      *)
(* builder run the runner's goroutine that writes the cancelled flag, the  *)
(* import handler of XAPI, and the clock of the Transfer VM.               *)
(***************************************************************************)
EXTENDS VdiUpload, MachineExport

vars == <<choice, cancelled, faults, reported, uploadVars, machineVars>>

Init ==
    /\ choice \in Choices
    /\ cancelled = FALSE /\ faults = 0 /\ reported = {}
    /\ UploadInit /\ MachineInit

Uploading == at = "idle" /\ RunUpload /\ UNCHANGED machineVars
MachineRuns == upload = "continued" /\ RunMachine /\ UNCHANGED uploadVars

(* The runner looks at the context before each step. *)
StartsStep == upload = "idle" \/ (upload = "continued" /\ at \in {"idle", "created"})

BreakOnCancel ==
    /\ StartsStep /\ cancelled
    /\ IF upload = "idle"
       THEN upload' = "halted" /\ UNCHANGED at
       ELSE at' = "halted" /\ UNCHANGED upload
    /\ UNCHANGED <<choice, cancelled, faults, reported, xapi, vdiUuid, cleaning,
                   next, vm, disks, vifs, unconnected, exposed, files>>

(* The cleanups, the later step's first. *)
Unwinding ==
    \/ CleanupCreateInstance /\ UNCHANGED uploadVars
    \/ /\ upload = "halted" \/ at = "clean" \/ upload = "destroying"
       /\ UnwindUpload /\ UNCHANGED machineVars

Builder == (~(StartsStep /\ cancelled) /\ (Uploading \/ MachineRuns)) \/ BreakOnCancel \/ Unwinding

MarkCancelled ==
    /\ ~cancelled /\ upload # "clean"
    /\ cancelled' = TRUE
    /\ UNCHANGED <<choice, faults, reported, uploadVars, machineVars>>

(* Nobody has to wait for this one: a timer that fires, a call that fails. *)
GivesUp == WaitGivesUp /\ UNCHANGED machineVars

Pool == (Import /\ UNCHANGED machineVars) \/ (ExposureExpires /\ UNCHANGED uploadVars)

Done == upload = "clean" /\ UNCHANGED vars

Next == Builder \/ GivesUp \/ MarkCancelled \/ Pool \/ Done

Spec == Init /\ [][Next]_vars

(* The builder runs on, and XAPI reads the request of the upload: nothing  *)
(* in the client would give up a PUT that is never answered.               *)
Fairness == WF_vars(Builder) /\ WF_vars(ImportBegins /\ UNCHANGED machineVars)
FairSpec == Spec /\ Fairness

-----------------------------------------------------------------------------
BuildOK ==
    /\ choice \in Choices /\ cancelled \in BOOLEAN
    /\ faults \in 0 .. MaxFaults /\ reported \subseteq {"upload", "vm"} \cup OwnDisks

UploadOK ==
    /\ upload \in {"idle", "created", "tasking", "sending", "waiting", "asking",
                   "continued", "halted", "destroying", "clean"}
    /\ vdi \in {"absent", "present", "destroyed"} /\ content \in {"none", "part", "whole"}
    /\ vdiUuid \in {"none", "put", "cleared"}
    /\ task \in {"none", "pending", "success", "failure", "cancelled", "destroyed"}
    /\ import \in {"none", "reading", "breaking", "over"}
    /\ hold \in 0 .. MaxHold /\ tries \in 0 .. 3 /\ heldFor \in 0 .. MaxHold

MachineOK ==
    /\ at \in {"idle", "networks", "tags", "created", "unplug", "replug", "format",
               "disks", "download", "unexpose", "continued", "halted", "clean"}
    /\ next \in Nat \ {0} /\ vm \in {"absent", "present", "destroyed"}
    /\ disks \subseteq OwnDisks /\ exposed \subseteq OwnDisks
    /\ \A v \in vifs : v.device \in Nat /\ v.network \in Networks \cup {"management", "template"}
    /\ unconnected \subseteq Nat
    /\ files \in [Vdis \cup {Xva} -> {"none", "broken", "whole"}]

TypeOK == BuildOK /\ UploadOK /\ MachineOK

(* A machine is made of an upload that has succeeded: all of the image is  *)
(* in the VDI and the import does not write to it any more, whatever was   *)
(* answered to the PUT before the body was through.                        *)
UploadIsWhole ==
    vm # "absent" /\ choice.image => content = "whole" /\ import = "over"

(* What a build that keeps nothing leaves behind, a message has named: the *)
(* VDI of the upload, the VM, its disks, at whatever call or second the    *)
(* upload, the networks or the export broke off.                           *)
NothingLeft ==
    upload = "clean" /\ ~choice.keep =>
        /\ vdi = "present" => "upload" \in reported
        /\ vm = "present" => "vm" \in reported
        /\ disks \subseteq reported

(* The comment in StepUploadVdi.Cleanup: "an interrupted import_raw_vdi    *)
(* takes a while to release the VDI so try several times".  An import that *)
(* lets go within two seconds does not cost the VDI, if no call fails.     *)
RetriesCover ==
    upload = "clean" /\ ~choice.keep /\ vdi = "present" /\ vdiUuid = "put" /\ faults = 0
        => heldFor > 2

Connected(names) ==
    \A i \in DOMAIN names :
        i - 1 \in unconnected \/ Vif(i - 1, names[i]) \in vifs

(* The VM that provisioners meet has the networks of network_names, in     *)
(* their order, as eth0, eth1, ..., or a message says which it has not;    *)
(* what is exported has those of export_network_names and no other, though *)
(* they are looked up when the first ones are destroyed already.           *)
NetworksAsAsked ==
    /\ at = "created" =>
         IF choice.networks = <<>> THEN vifs = {Vif(0, "management")}
         ELSE Connected(choice.networks)
    /\ at \in {"format", "disks", "continued"} /\ choice.exportNetworks # <<>> =>
         /\ Connected(choice.exportNetworks)
         /\ Cardinality(vifs) <= Len(choice.exportNetworks)

(* An export that goes on has a file for each disk of config.Disks, or the *)
(* one XVA, and none for the media that are still in a drive.              *)
EveryDiskExported ==
    at = "continued" =>
        {f \in DOMAIN files : files[f] # "none"} =
            CASE choice.format = "none" -> {}
              [] choice.format \in {"xva", "xva_compressed"} -> {Xva}
              [] OTHER -> OwnDisks

(* No disk is left exposed to the network when the build turns to its      *)
(* cleanups, and no disk a Transfer VM holds meets VDI.destroy, unless a   *)
(* call has failed or a download was cut short.                            *)
ExposureEnds ==
    at \in {"continued", "halted", "clean"} /\ faults = 0 => exposed = {}

(* A cancelled build ends, although not every wait looks at the flag: the  *)
(* PUT does not, the GET of a download does not, nor does the wait for the *)
(* xe program.  That these return is assumed (FairSpec): ImportBegins for  *)
(* the PUT, Builder for the other two.  The wait for the task is the one   *)
(* that may last, and there the flag has to end it.                        *)
CancelEnds == cancelled ~> upload = "clean"
=============================================================================

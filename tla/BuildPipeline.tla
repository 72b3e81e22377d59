--------------------------- MODULE BuildPipeline ---------------------------
(***************************************************************************)
(* A whole build: the runner over the steps of Pipeline[cfg], with         *)
(* cancellation, failing calls and a guest that may power off; and what it *)
(* promises to the pool, to the local disk and to packer.                  *)
(***************************************************************************)
EXTENDS BuildSteps

(* The keys a step's Run leaves in the state bag when it continues, of     *)
(* those another step asserts ...                                          *)
Puts(op, key) ==
    \/ op = "StepHTTPServer" /\ key = "http_port"
    \/ op = "StepCreateInstance" /\ key = "instance_uuid"
    \/ op = "StepSetVmHostSshAddress" /\ key = "ssh_address"
    \/ op = "StepWaitForIP" /\ key = "instance_ssh_address"
    \/ op = "StepForwardPortOverSSH" /\ key = "local_ssh_port"

(* ... and the keys it asserts itself.                                     *)
VmOps == {"StepStartVmPaused", "StepSetVmHostSshAddress", "StepBootWait",
          "StepWaitForIP", "StepShutdown", "StepSetVmToTemplate", "StepExport"}

Needs(op, key) ==
    \/ op \in VmOps \cup {"StepAttachVdi", "StepDetachVdi"} /\ key = "instance_uuid"
    \/ op = "StepTypeBootCommand" /\ key \in {"http_port", "ssh_address"}
    \/ op \in {"StepForwardPortOverSSH", "StepConnect"} /\ key = "instance_ssh_address"

Places(steps, op) == {i \in DOMAIN steps : steps[i].op = op}

(* Each step comes after those that put the keys it asserts.               *)
KeysComeFirst(steps) ==
    \A i \in DOMAIN steps : \A key \in BagKeys :
        Needs(steps[i].op, key) => \E j \in 1 .. (i - 1) : Puts(steps[j].op, key)

(* There is an output directory, and an export into it.                    *)
IsExported(steps) ==
    Places(steps, "StepPrepareOutputDir") # {} /\ Places(steps, "StepExport") # {}

(* Templates are looked for before the VM is made, and cleaned up when it  *)
(* has been provisioned and shut down for good.                            *)
CleansUpLast(steps) ==
    /\ \A i \in Places(steps, "StepGetVmTemplate"), j \in Places(steps, "StepCreateInstance") :
          i < j
    /\ \A i \in Places(steps, "StepCleanUpTemplate") :
          /\ \E j \in Places(steps, "StepProvision") : j < i
          /\ \E j \in Places(steps, "StepShutdown") : j < i
    /\ \A i \in Places(steps, "StepShutdown"), j \in Places(steps, "StepStartVmPaused") : j < i

(* The VM is shut down and made a template after it was made, for an       *)
(* installation with its new disks.                                        *)
MakesImage(c, steps) ==
    /\ Places(steps, "StepShutdown") # {}
    /\ c.skipTemplate \/ Places(steps, "StepSetVmToTemplate") # {}
    /\ \A i \in Places(steps, "StepCreateInstance"), j \in Places(steps, "StepSetVmToTemplate") :
          i < j
    /\ c.builder = "iso" =>
          /\ Places(steps, "StepCreateInstance") # {}
          /\ \A i \in Places(steps, "StepCreateInstance") : steps[i].arg = "new_disks"

(* A media is attached once, when its VDI has been put, and detached later.*)
DetachesMedia(steps) ==
    \A i \in Places(steps, "StepAttachVdi") :
        /\ \E j \in Places(steps, "StepDetachVdi") : i < j /\ steps[j].arg = steps[i].arg
        /\ \A j \in DOMAIN steps :
              steps[j].arg = steps[i].arg /\ steps[j].op # "StepDetachVdi" => j <= i

(* All that the proofs assume of a pipeline.                               *)
SoundPipeline(c, steps) ==
    /\ steps \in Seq(Step)
    /\ DownloadsByUrl(c, steps) /\ KeysComeFirst(steps) /\ IsExported(steps)
    /\ CleansUpLast(steps) /\ MakesImage(c, steps) /\ DetachesMedia(steps)

ASSUME KeysAssumption == \A c \in Configs : KeysComeFirst(Pipeline[c])
ASSUME ExportAssumption == \A c \in Configs : IsExported(Pipeline[c])
ASSUME TemplateAssumption == \A c \in Configs : CleansUpLast(Pipeline[c])
ASSUME ImageAssumption == \A c \in Configs : MakesImage(c, Pipeline[c])
ASSUME MediaAssumption == \A c \in Configs : DetachesMedia(Pipeline[c])

Init ==
    /\ cfg \in Configs
    /\ phase = "run" /\ ran = 0 /\ running = FALSE /\ ctxDone = FALSE
    /\ keys = {}
    /\ media = [k \in MediaKeys |-> "none"]
    /\ listed = {} /\ attachRef = {}
    /\ vm = "absent" /\ isTemplate = FALSE
    /\ vdis = cfg.library
    /\ vbds = [v \in Vdis |-> 0]
    /\ templates = cfg.oldTemplates
    /\ outputDir \in {"absent", "previous"} /\ exported = "none"
    /\ result = "none"
    /\ faults = 0 /\ reported = {} /\ lateMark = FALSE /\ provisioned = FALSE

RunStep ==
    \/ StepPrepareOutputDir \/ StepDownload \/ StepCreateCD \/ StepCreateFloppy
    \/ StepHTTPServer \/ StepUploadVdi \/ StepFindOrUploadVdi \/ StepFindVdi
    \/ StepGetVmTemplate \/ StepCreateInstance \/ StepImportInstance \/ StepAttachVdi
    \/ StepStartVmPaused \/ StepSetVmHostSshAddress \/ StepBootWait
    \/ StepTypeBootCommand \/ StepWaitForIP \/ StepForwardPortOverSSH
    \/ StepConnect \/ StepProvision \/ StepShutdown \/ StepCleanUpTemplate
    \/ StepSetVmToTemplate \/ StepDetachVdi \/ StepExport

CleanupStep ==
    \/ CleanupPrepareOutputDir \/ CleanupUploadVdi \/ CleanupCreateInstance
    \/ CleanupAttachVdi \/ VmCleanup \/ CleanupNothing

(* The goroutine Builder.Run is called on.                                 *)
Builder ==
    \/ StartStep \/ BreakOnCancel \/ AllStepsRan \/ BuilderReturns
    \/ RunStep \/ CleanupStep

Done == phase = "returned" /\ UNCHANGED vars

Next == Builder \/ Cancel \/ MarkCancelled \/ GuestHalts \/ Done

Spec == Init /\ [][Next]_vars

(* The builder's goroutine runs on and every call it makes returns; nobody *)
(* has to cancel, and the flag may be written at any time or never.        *)
Fairness == WF_vars(Builder)
FairSpec == Spec /\ Fairness

-----------------------------------------------------------------------------
ControlOK ==
    /\ cfg \in Configs
    /\ phase \in {"run", "cleanup", "returned"}
    /\ ran \in 0 .. Len(Steps)
    /\ running \in BOOLEAN
    /\ running => phase = "run" /\ ran > 0
    /\ ctxDone \in BOOLEAN
    /\ lateMark \in BOOLEAN /\ provisioned \in BOOLEAN
    /\ keys \subseteq BagKeys
    /\ result \in {"none", "error", "cancelled", "halted", "artifact"}

BagOK ==
    /\ media \in [MediaKeys -> Vdis \cup {"none", "cleared"}]
    /\ listed \subseteq OldTemplates \cup {"vm"}
    /\ attachRef \subseteq MediaKeys

PoolOK ==
    /\ vm \in {"absent", "halted", "paused", "running", "destroyed"}
    /\ isTemplate \in BOOLEAN
    /\ vdis \subseteq Vdis
    /\ vbds \in [Vdis -> Nat]
    /\ templates \subseteq OldTemplates

LocalOK ==
    /\ outputDir \in {"absent", "previous", "fresh"}
    /\ exported \in {"none", "broken", "complete"}

HistoryOK ==
    /\ faults \in 0 .. MaxFaults
    /\ reported \subseteq Vdis \cup {"vm"}

TypeOK == ControlOK /\ BagOK /\ PoolOK /\ LocalOK /\ HistoryOK

-----------------------------------------------------------------------------
(* The keys whose absence makes a type assertion panic: in Run ...         *)
RunAsserts(s) ==
    IF s.op \in {"StepAttachVdi", "StepDetachVdi"} /\ media[s.arg] = "none" THEN {}
    ELSE {key \in BagKeys : Needs(s.op, key)}

(* ... and in Cleanup.                                                     *)
CleanupAsserts(s) ==
    IF s.op \in {"StepStartVmPaused", "StepWaitForIP"}
       \/ (s.op = "StepAttachVdi" /\ s.arg \in attachRef)
    THEN {"instance_uuid"} ELSE {}

(* No step reads a key of the state bag that is not there, whatever failed *)
(* or was skipped before: the assertions of Run and of Cleanup, which also *)
(* runs for a step that failed half way, never panic.                      *)
NoPanic ==
    /\ running => RunAsserts(Current) \subseteq keys
    /\ phase = "cleanup" /\ ran > 0 /\ ~ShouldKeepVM =>
         /\ CleanupAsserts(Current) \subseteq keys
         /\ Current.op = "StepAttachVdi" /\ Current.arg \in attachRef
              => media[Current.arg] # "none"

(* The policy asks for the VM's removal: never keeps, or the build had     *)
(* failed or been cancelled when its cleanup began.                        *)
MustRollBack ==
    \/ cfg.keep = "never"
    \/ /\ cfg.keep = "on_success"
       /\ {"cancelled", "halted"} \cap keys # {}
       /\ ~lateMark

(* When the policy asks for it, a build that is over, however it ended,    *)
(* leaves neither its VM nor a disk or an uploaded VDI in the pool unless  *)
(* a message of StepCreateInstance or StepUploadVdi names it.  (The disks  *)
(* that came with a cloned template are nobody's: see the README.)         *)
CleanRollback ==
    phase = "returned" /\ MustRollBack =>
        /\ Exists => "vm" \in reported
        /\ \A v \in vdis \cap (Uploads \cup Disks) : v \in reported

(* A cleanup is to come that will meet the VM and the disks, the VDI k.    *)
CreatePending ==
    \E i \in 1 .. ran : Steps[i].op = "StepCreateInstance"
UploadPending(k) ==
    /\ media[k] = k
    /\ \E i \in 1 .. ran :
          Steps[i].op \in {"StepUploadVdi", "StepFindOrUploadVdi"} /\ Steps[i].arg = k

AllAccounted ==
    /\ Exists => "vm" \in reported \/ CreatePending
    /\ \A d \in vdis \cap Disks : d \in reported \/ CreatePending
    /\ \A k \in vdis \cap Uploads : k \in reported \/ UploadPending(k)

(* At every moment of a build that has not failed yet, or is to be rolled  *)
(* back, each object it has made is one whose cleanup is still to come, or *)
(* one that a message has named: nothing is ever forgotten, at whatever    *)
(* call a step gave up.  CleanRollback is what is left of this at the end. *)
Accounted == phase = "run" \/ MustRollBack => AllAccounted

(* A VDI the build did not create survives it: the tools ISO always, the   *)
(* install ISO when it was given by iso_name.  (An ISO that was given by   *)
(* its URL and found in the pool by its name is destroyed like an upload.) *)
LibraryIntact ==
    \A v \in cfg.library : v = "library_tools" \/ cfg.isoName => v \in vdis

(* keep_vm = "always": no cleanup touches the VM, its disks or its media.  *)
AlwaysKeeps ==
    [][cfg.keep = "always" /\ ran' < ran => UNCHANGED pool]_vars

(* A cloned template has the disks it has: those of config.Disks are for   *)
(* an installation.                                                        *)
ConfiguredDisks == IF cfg.builder = "iso" THEN Disks ELSE {}

(* An artifact that leaves a VM behind leaves it whole and quiet: powered  *)
(* off, all its disks plugged, a template if one was asked for, and no     *)
(* media in its drives but one whose detaching was reported to fail.       *)
KeptImageIsWhole ==
    phase = "returned" /\ result = "artifact" /\ cfg.keep # "never" =>
        /\ vm = "halted" /\ (isTemplate \/ cfg.skipTemplate)
        /\ \A d \in ConfiguredDisks : d \in vdis /\ vbds[d] = 1
        /\ \A v \in Uploads \cup Library : vbds[v] > 0 => v \in reported

(* An artifact names a directory that is there, with an export in it: the  *)
(* walk of NewArtifact over a directory that is gone would panic.          *)
ArtifactIsThere ==
    phase = "returned" /\ result = "artifact" =>
        /\ outputDir # "absent"
        /\ cfg.format # "none" => exported # "none"

(* Templates of earlier builds go only under -force, only when the         *)
(* provisioners have succeeded on the new image and it is halted, and      *)
(* never the new VM itself.                                                *)
OldTemplatesGoLast ==
    [][templates' # templates =>
         /\ cfg.force /\ ~cfg.skipTemplate
         /\ vm = "halted" /\ vm' = vm
         /\ provisioned /\ "halted" \notin keys]_vars

(* Every build comes to an end, whatever fails and whenever it is          *)
(* cancelled.                                                              *)
Terminates == <>(phase = "returned")

(* A build that is cancelled before its last step does not end in an       *)
(* artifact.                                                               *)
CancelStopsBuild ==
    phase = "run" /\ ctxDone /\ ran < Len(Steps)
        ~> phase = "returned" /\ result # "artifact"

-----------------------------------------------------------------------------
(* The contract of a build, in BuildContract's terms.                      *)

(* What the build has made and nobody has taken away or named in a message.*)
Owned ==
    (IF Exists THEN {"vm"} \ reported ELSE {})
    \cup ((vdis \cap (Uploads \cup Disks)) \ reported)

Stage == IF phase = "run" THEN "working"
         ELSE IF phase = "cleanup" THEN "unwinding" ELSE "over"

(* The build had failed or been cancelled when its cleanup began.          *)
Failed == phase # "run" /\ {"cancelled", "halted"} \cap keys # {} /\ ~lateMark

Contract == INSTANCE BuildContract WITH
    Objects <- Uploads \cup Disks \cup {"vm"},
    policy <- cfg.keep, stage <- Stage, owned <- Owned, failed <- Failed,
    outcome <- result

(* However its steps fail and whenever it is cancelled, a build makes      *)
(* objects, then only takes them away, none of them under "always", and    *)
(* returns when the policy is met: all the cleanups and flags of the       *)
(* pipeline behave as these four steps.                                    *)
MeetsContract == Contract!Spec

-----------------------------------------------------------------------------
(* What the documentation says and the code does not do.                   *)

(* docs: "on_success requests that the VM only be cleaned up if an         *)
(* artifact was produced".                                                 *)
DocOnSuccess ==
    phase = "returned" /\ cfg.keep = "on_success" /\ vm = "destroyed"
        => result = "artifact"

(* ShouldKeepVM: "only keep instance if build was successful".             *)
DocKeepOnlyOnSuccess ==
    phase = "returned" /\ cfg.keep = "on_success" /\ Exists /\ "vm" \notin reported
        => result = "artifact"

(* README: "If you want to continously update a single golden image, using *)
(* the -force flag will let you achieve that": a pool that had a template  *)
(* of that name still has one after the build.                             *)
DocGoldenImage ==
    phase = "returned" /\ cfg.force /\ cfg.keep # "never" /\ cfg.oldTemplates # {}
        => SameNameTemplates # {}

(* docs: the builder creates virtual machines "and export[s] them either   *)
(* as an XVA or a VDI": what an artifact holds is such an export.          *)
DocExport ==
    phase = "returned" /\ result = "artifact" /\ cfg.format # "none"
        => exported = "complete"

=============================================================================

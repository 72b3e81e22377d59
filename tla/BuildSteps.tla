---------------------------- MODULE BuildSteps -----------------------------
(***************************************************************************)
(* Run and Cleanup of every step of the pipelines, one action each.  An    *)
(* action is the whole method: what XAPI calls it got through before it    *)
(* returned, the keys it left in the state bag, and its StepAction.  The   *)
(* packer core and the guest may act between StartStep, where the runner   *)
(* enters Run, and the action, where Run returns.                          *)
(***************************************************************************)
EXTENDS BuildRunner

-----------------------------------------------------------------------------
(* Steps on the machine packer runs on.                                    *)

(* -force empties the directory, if the file system lets it, else the      *)
(* files found there stay.                                                 *)
StepPrepareOutputDir ==
    /\ Executing("StepPrepareOutputDir")
    /\ \/ /\ Succeeds({})
          /\ outputDir' = IF outputDir = "previous" /\ ~cfg.force
                          THEN "previous" ELSE "fresh"
       \/ /\ cfg.force /\ outputDir = "previous"
          /\ Fault /\ Proceeds({})
          /\ UNCHANGED outputDir
       \/ /\ Fails({"error"})
          /\ outputDir' = IF cfg.force THEN "absent" ELSE outputDir
    /\ UNCHANGED <<exported, pool, bag, reported>>

ImagePath == [cd |-> "cd_path", floppy |-> "floppy_path", iso |-> "iso_path"]

Wanted(k) == CASE k = "cd" -> cfg.cd [] k = "floppy" -> cfg.floppy [] k = "iso" -> TRUE

(* StepDownload, StepCreateCD and StepCreateFloppy leave the path of an    *)
(* image in the bag, if one is wanted.                                     *)
MakeImage(op, k) ==
    /\ Executing(op)
    /\ \/ Succeeds(IF Wanted(k) THEN {ImagePath[k]} ELSE {})
       \/ Wanted(k) /\ Fails({"error"})
       \/ op = "StepDownload" /\ ctxDone /\ NoFault /\ Halts({"error"})
    /\ UNCHANGED <<pool, local, bag, reported>>

StepDownload == MakeImage("StepDownload", "iso")
StepCreateCD == MakeImage("StepCreateCD", "cd")
StepCreateFloppy == MakeImage("StepCreateFloppy", "floppy")

StepHTTPServer ==
    /\ Executing("StepHTTPServer")
    /\ Succeeds({"http_port"}) \/ Fails({})
    /\ UNCHANGED <<pool, local, bag, reported>>

-----------------------------------------------------------------------------
(* The media: VDIs uploaded or found in the pool.                          *)

(* A careless form of UploadVdi: the key is put once the upload is through.*)
UploadThenPut(k) ==
    \/ /\ ImagePath[k] \notin keys
       /\ Succeeds({})
       /\ UNCHANGED <<vdis, media, reported>>
    \/ /\ ImagePath[k] \in keys
       /\ Fails({}) \/ Interrupted({})
       /\ vdis' \in {vdis, vdis \cup {k}}
       /\ UNCHANGED <<media, reported>>
    \/ /\ ImagePath[k] \in keys
       /\ Succeeds({})
       /\ vdis' = vdis \cup {k}
       /\ media' = [media EXCEPT ![k] = k]
       /\ UNCHANGED reported

(* The UUID goes into the bag before the upload, so that a broken upload   *)
(* can be cleaned up.  A VDI whose UUID cannot be read stays, with a       *)
(* message that says so.                                                   *)
UploadVdi(k) ==
    \/ /\ ImagePath[k] \notin keys
       /\ Succeeds({})
       /\ UNCHANGED <<vdis, media, reported>>
    \/ /\ ImagePath[k] \in keys
       /\ Fails({})
       /\ \/ UNCHANGED <<vdis, reported>>
          \/ vdis' = vdis \cup {k} /\ reported' = reported \cup {k}
       /\ UNCHANGED media
    \/ /\ ImagePath[k] \in keys
       /\ Succeeds({}) \/ Fails({}) \/ Interrupted({})
       /\ vdis' = vdis \cup {k}
       /\ media' = [media EXCEPT ![k] = k]
       /\ UNCHANGED reported

StepUploadVdi ==
    /\ Executing("StepUploadVdi")
    /\ UploadVdi(Current.arg)
    /\ UNCHANGED <<listed, attachRef, machine, vbds, templates, local>>

IsoNamed == {"iso", "library_iso"} \cap vdis

StepFindOrUploadVdi ==
    /\ Executing("StepFindOrUploadVdi")
    /\ \/ /\ Fails({})
          /\ UNCHANGED <<vdis, media, reported>>
       \/ \E v \in IsoNamed :
          /\ IF IsoNamed = {v}
             THEN Succeeds({}) /\ media' = [media EXCEPT ![Current.arg] = v]
             ELSE NoFault /\ Halts({}) /\ UNCHANGED media
          /\ UNCHANGED <<vdis, reported>>
       \/ /\ IsoNamed = {}
          /\ UploadVdi(Current.arg)
    /\ UNCHANGED <<listed, attachRef, machine, vbds, templates, local>>

VdiName(k) == IF k = "tools" THEN cfg.tools ELSE cfg.isoName
LibraryVdi(k) == IF k = "tools" THEN "library_tools" ELSE "library_iso"

StepFindVdi ==
    /\ Executing("StepFindVdi")
    /\ LET k == Current.arg IN
       \/ /\ ~VdiName(k)
          /\ Succeeds({})
          /\ UNCHANGED media
       \/ /\ VdiName(k)
          /\ Fails({}) \/ (LibraryVdi(k) \notin vdis /\ NoFault /\ Halts({}))
          /\ UNCHANGED media
       \/ /\ VdiName(k) /\ LibraryVdi(k) \in vdis
          /\ Succeeds({})
          /\ media' = [media EXCEPT ![k] = LibraryVdi(k)]
    /\ UNCHANGED <<listed, attachRef, pool, local, reported>>

Attached(v) == vbds' = [vbds EXCEPT ![v] = @ + 1]

(* Careless forms of Detached: the VBD counts twice; it is unplugged and   *)
(* left there, the error of VBD.Destroy dropped like that of VBD.Unplug.   *)
DetachedTwice(v) == vbds' = [vbds EXCEPT ![v] = @ - 2]
Unplugged(v) == UNCHANGED vbds

Detached(v) == vbds' = [vbds EXCEPT ![v] = @ - 1]

StepAttachVdi ==
    /\ Executing("StepAttachVdi")
    /\ LET k == Current.arg
           v == media[Current.arg] IN
       \/ /\ v = "none"
          /\ Succeeds({})
          /\ UNCHANGED <<attachRef, vbds>>
       \/ /\ v # "none"
          /\ Fails({})
          /\ UNCHANGED <<attachRef, vbds>>
       \/ /\ v \in vdis
          /\ attachRef' = attachRef \cup {k}
          /\ \/ Succeeds({}) /\ Attached(v)
             \/ Fails({}) /\ (Attached(v) \/ UNCHANGED vbds)
    /\ UNCHANGED <<media, listed, machine, vdis, templates, local, reported>>

(* A media that cannot be detached is reported and left attached.          *)
StepDetachVdi ==
    /\ Executing("StepDetachVdi")
    /\ LET v == media[Current.arg] IN
       \/ /\ v = "none"
          /\ Succeeds({})
          /\ UNCHANGED <<vbds, reported>>
       \/ /\ v # "none"
          /\ Fails({})
          /\ UNCHANGED <<vbds, reported>>
       \/ /\ v \in vdis
          /\ \/ /\ vbds[v] > 0
                /\ Succeeds({})
                /\ Detached(v)
                /\ UNCHANGED reported
             \/ /\ Fault \/ (vbds[v] = 0 /\ NoFault)
                /\ Proceeds({})
                /\ reported' = reported \cup {v}
                /\ UNCHANGED vbds
    /\ UNCHANGED <<bag, machine, vdis, templates, local>>

-----------------------------------------------------------------------------
(* The VM and the templates.                                               *)

(* The objects VM.get_by_name_label(VMName) finds that are templates.      *)
SameNameTemplates == templates \cup (IF Exists /\ isTemplate THEN {"vm"} ELSE {})

StepGetVmTemplate ==
    /\ Executing("StepGetVmTemplate")
    /\ \/ /\ ~cfg.skipTemplate
          /\ Succeeds(IF SameNameTemplates = {} THEN {} ELSE {"existing_templates"})
          /\ listed' = SameNameTemplates
       \/ /\ cfg.skipTemplate
          /\ Succeeds({})
          /\ UNCHANGED listed
       \/ /\ ~cfg.skipTemplate
          /\ Fails({})
          /\ UNCHANGED listed
    /\ UNCHANGED <<media, attachRef, pool, local, reported>>

(* A careless form of StepCleanUpTemplate: -force is not looked at.        *)
CleanUpUnforced ==
    /\ Executing("StepCleanUpTemplate")
    /\ Succeeds({})
    /\ templates' = templates \ listed
    /\ UNCHANGED <<vm, isTemplate, storage, bag, local, reported>>

(* -force destroys the listed templates in turn, up to the first failure.  *)
StepCleanUpTemplate ==
    /\ Executing("StepCleanUpTemplate")
    /\ \E gone \in SUBSET listed :
       /\ \/ cfg.force /\ gone = listed /\ Succeeds({})
          \/ cfg.force /\ gone # listed /\ Fails({})
          \/ ~cfg.force /\ gone = {} /\ Succeeds({})
       /\ templates' = templates \ gone
       /\ vm' = IF "vm" \in gone THEN "destroyed" ELSE vm
    /\ UNCHANGED <<isTemplate, storage, bag, local, reported>>

NewDisks == IF Current.arg = "new_disks" THEN Disks ELSE {}
ClonedDisk == IF cfg.templateDisk THEN {"clone_disk"} ELSE {}

(* The template is cloned, the clone made a VM and given its disks one by  *)
(* one; any call may be the last that succeeds.  plugged are the disks     *)
(* that got their VBD.  With a source_path clone_template is empty, as     *)
(* Prepare takes only one of them: no template has that name.              *)
StepCreateInstance ==
    /\ Executing("StepCreateInstance")
    /\ \/ Fails({}) /\ UNCHANGED <<machine, storage>>
       \/ cfg.sourcePath /\ NoFault /\ Halts({}) /\ UNCHANGED <<machine, storage>>
       \/ \E made \in SUBSET NewDisks : \E plugged \in SUBSET made :
          /\ ~cfg.sourcePath /\ Cardinality(made \ plugged) <= 1
          /\ \/ /\ made = NewDisks /\ plugged = made
                /\ Succeeds({"instance_uuid"})
                /\ isTemplate' = FALSE
             \/ /\ Fails({})
                /\ isTemplate' \in IF made = {} THEN BOOLEAN ELSE {FALSE}
          /\ vm' = "halted"
          /\ vdis' = vdis \cup made \cup ClonedDisk
          /\ vbds' = [v \in Vdis |-> IF v \in plugged \cup ClonedDisk THEN 1 ELSE 0]
    /\ UNCHANGED <<templates, bag, local, reported>>

(* The import of a source_path is never reached: StepCreateInstance has    *)
(* halted the build by then.                                               *)
StepImportInstance ==
    /\ Executing("stepImportInstance")
    /\ ~cfg.sourcePath
    /\ Succeeds({})
    /\ UNCHANGED <<pool, local, bag, reported>>

(* A VM that started may still fail the step, when its domid is unknown.   *)
StepStartVmPaused ==
    /\ Executing("StepStartVmPaused")
    /\ \/ Fails({}) /\ UNCHANGED vm
       \/ vm = "halted" /\ (Succeeds({}) \/ Fails({})) /\ vm' = "paused"
       \/ vm # "halted" /\ NoFault /\ Halts({}) /\ UNCHANGED vm
    /\ UNCHANGED <<isTemplate, storage, templates, bag, local, reported>>

StepSetVmHostSshAddress ==
    /\ Executing("StepSetVmHostSshAddress")
    /\ Succeeds({"ssh_address"}) \/ Fails({})
    /\ UNCHANGED <<pool, local, bag, reported>>

(* The error of Unpause is dropped: the step goes on to wait.              *)
StepBootWait ==
    /\ Executing("StepBootWait")
    /\ \/ NoFault /\ vm' = IF vm = "paused" THEN "running" ELSE vm
       \/ Fault /\ UNCHANGED vm
    /\ Proceeds({}) \/ ("cancelled" \in keys /\ Halts({}))
    /\ UNCHANGED <<isTemplate, storage, templates, bag, local, reported>>

(* A boot command that is cut short by the context leaves an error.        *)
StepTypeBootCommand ==
    /\ Executing("StepTypeBootCommand")
    /\ \/ Succeeds({})
       \/ Fails({}) \/ Fails({"error"})
       \/ ctxDone /\ NoFault /\ Halts({"error"})
    /\ UNCHANGED <<pool, local, bag, reported>>

(* A careless form of StepWaitForIP: the address is left to the getter.    *)
WaitWithoutAddress ==
    /\ Executing("StepWaitForIP")
    /\ Succeeds({}) \/ Fails({})
    /\ UNCHANGED <<pool, local, bag, reported>>

(* The address may come from the HTTP server, which takes whoever asks for *)
(* a file to be the guest: success does not need a running VM.             *)
StepWaitForIP ==
    /\ Executing("StepWaitForIP")
    /\ \/ Succeeds({"instance_ssh_address"})
       \/ Fails({}) \/ Fails({"instance_ssh_address"})
       \/ Interrupted({"instance_ssh_address"})
       \/ vm # "running" /\ NoFault /\ Halts({"instance_ssh_address"})
    /\ UNCHANGED <<pool, local, bag, reported>>

StepForwardPortOverSSH ==
    /\ Executing("StepForwardPortOverSSH")
    /\ Succeeds({"local_ssh_port"}) \/ Fails({})
    /\ UNCHANGED <<pool, local, bag, reported>>

(* StepConnect and StepProvision of the SDK talk to the guest.             *)
TalkToGuest(op) ==
    /\ Executing(op)
    /\ \/ vm = "running" /\ Succeeds({})
       \/ vm # "running" /\ NoFault /\ Halts({"error"})
       \/ Fails({"error"})
       \/ ctxDone /\ NoFault /\ Halts({})
    /\ UNCHANGED <<pool, local, bag, reported>>

StepConnect == TalkToGuest("StepConnect")
StepProvision == TalkToGuest("StepProvision")

(* The graceful shutdown is followed by a forced one if it fails.  XAPI    *)
(* refuses both on a VM that is halted by then.                            *)
StepShutdown ==
    /\ Executing("StepShutdown")
    /\ \/ Live /\ Succeeds({}) /\ vm' = "halted"
       \/ ~Live /\ NoFault /\ Halts({}) /\ UNCHANGED vm
       \/ Fails({}) /\ UNCHANGED vm
    /\ UNCHANGED <<isTemplate, storage, templates, bag, local, reported>>

StepSetVmToTemplate ==
    /\ Executing("StepSetVmToTemplate")
    /\ \/ Succeeds({}) /\ isTemplate' = TRUE
       \/ Fails({}) /\ UNCHANGED isTemplate
    /\ UNCHANGED <<vm, storage, templates, bag, local, reported>>

(* downloadFile does not look at the status of the answer: what a failing  *)
(* server sends instead of the image, or cut short, is taken for it.       *)
StepExport ==
    /\ Executing("StepExport")
    /\ \/ Succeeds({}) /\ exported' = IF cfg.format = "none" THEN "none" ELSE "complete"
       \/ cfg.format # "none" /\ Fault /\ Proceeds({}) /\ exported' = "broken"
       \/ Fails({}) /\ exported' \in IF cfg.format = "none" THEN {"none"}
                                     ELSE {"none", "broken"}
    /\ UNCHANGED <<outputDir, pool, bag, reported>>

-----------------------------------------------------------------------------
(* The cleanups, in the order opposite to the steps.                       *)

(* HardShutdown works on a live VM only; its error is logged, not shown.   *)
PoweredOff ==
    \/ Live /\ NoFault /\ vm' = "halted"
    \/ ~Live /\ NoFault /\ UNCHANGED vm
    \/ Live /\ Fault /\ UNCHANGED vm

(* StepStartVmPaused and StepWaitForIP embed VmCleanup.                    *)
VmCleanup ==
    /\ Unwinding("StepStartVmPaused") \/ Unwinding("StepWaitForIP")
    /\ \/ ShouldKeepVM /\ NoFault /\ UNCHANGED vm
       \/ ~ShouldKeepVM /\ PoweredOff
    /\ CleanedUp
    /\ UNCHANGED <<isTemplate, storage, media, local, reported>>

(* A VBD in use by a live VM may refuse to go; nothing is reported.        *)
CleanupAttachVdi ==
    /\ Unwinding("StepAttachVdi")
    /\ LET v == media[Current.arg]
           skipped == ShouldKeepVM \/ Current.arg \notin attachRef IN
       \/ skipped /\ NoFault /\ UNCHANGED vbds
       \/ ~skipped /\ Exists /\ vbds[v] > 0 /\ NoFault /\ Detached(v)
       \/ ~skipped /\ (Live \/ ~Exists \/ vbds[v] = 0) /\ NoFault /\ UNCHANGED vbds
       \/ ~skipped /\ Fault /\ UNCHANGED vbds
    /\ CleanedUp
    /\ UNCHANGED <<machine, vdis, media, local, reported>>

(* Destroys the VM, then every disk it has made.  kept are the objects that *)
(* resist, each with a ui.Error; a disk a live VM holds is one of them.    *)
CleanupCreateInstance ==
    /\ Unwinding("StepCreateInstance")
    /\ LET made == Disks \cap vdis IN
       \/ /\ ShouldKeepVM \/ vm = "absent"
          /\ NoFault
          /\ UNCHANGED <<machine, storage, reported>>
       \/ /\ ~ShouldKeepVM /\ vm # "absent"
          /\ \E kept \in SUBSET (made \cup {"vm"}) :
             /\ (kept = {} /\ NoFault) \/ (kept # {} /\ Fault)
             /\ vm' \in IF "vm" \notin kept THEN {"destroyed"}
                       ELSE IF Live THEN {vm, "halted"} ELSE {vm}
             /\ \A d \in made : vm' \in {"paused", "running"} /\ vbds[d] > 0 => d \in kept
             /\ vdis' = vdis \ (made \ kept)
             /\ vbds' = [v \in Vdis |-> IF "vm" \notin kept \/ v \in made \ kept
                                     THEN 0 ELSE vbds[v]]
             /\ reported' = reported \cup kept
             /\ UNCHANGED isTemplate
    /\ CleanedUp
    /\ UNCHANGED <<media, local>>

PreserveNothing(k) == FALSE
PreserveVdi(k) == k = "iso" /\ cfg.isoName

CleanupUploadVdi ==
    /\ Unwinding("StepUploadVdi") \/ Unwinding("StepFindOrUploadVdi")
    /\ LET k == Current.arg
           v == media[Current.arg]
           skipped == ShouldKeepVM \/ PreserveVdi(k) \/ v \in {"none", "cleared"} IN
       \/ /\ skipped /\ NoFault
          /\ UNCHANGED <<vdis, vbds, media, reported>>
       \/ /\ ~skipped /\ NoFault /\ ~(vbds[v] > 0 /\ Live)
          /\ vdis' = vdis \ {v}
          /\ vbds' = [vbds EXCEPT ![v] = 0]
          /\ media' = [media EXCEPT ![k] = "cleared"]
          /\ UNCHANGED reported
       \/ /\ ~skipped /\ (Fault \/ (NoFault /\ vbds[v] > 0 /\ Live))
          /\ reported' = reported \cup {v}
          /\ UNCHANGED <<vdis, vbds, media>>
    /\ CleanedUp
    /\ UNCHANGED <<machine, local>>

(* The directory goes with all it holds when the flags are there; five     *)
(* refusals of the file system leave it.                                   *)
CleanupPrepareOutputDir ==
    /\ Unwinding("StepPrepareOutputDir")
    /\ \/ /\ {"cancelled", "halted"} \cap keys # {} /\ NoFault
          /\ outputDir' = "absent" /\ exported' = "none"
       \/ /\ {"cancelled", "halted"} \cap keys # {} /\ Fault
          /\ UNCHANGED local
       \/ /\ {"cancelled", "halted"} \cap keys = {} /\ NoFault
          /\ UNCHANGED local
    /\ CleanedUp
    /\ UNCHANGED <<machine, storage, media, reported>>

(* The steps whose Cleanup leaves the modelled state alone.                *)
PassiveOps ==
    {"StepDownload", "StepCreateCD", "StepCreateFloppy", "StepHTTPServer",
     "StepFindVdi", "StepGetVmTemplate", "stepImportInstance",
     "StepSetVmHostSshAddress", "StepBootWait",
     "StepTypeBootCommand", "StepForwardPortOverSSH", "StepConnect", "StepProvision",
     "StepShutdown", "StepCleanUpTemplate", "StepSetVmToTemplate", "StepDetachVdi",
     "StepExport"}

CleanupNothing ==
    /\ \E op \in PassiveOps : Unwinding(op)
    /\ CleanedUp
    /\ UNCHANGED <<machine, storage, media, local, faults, reported>>

=============================================================================

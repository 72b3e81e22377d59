---------------------------- MODULE BuildRunner ----------------------------
(***************************************************************************)
(* One build of the XenServer plugin: the configuration it was given, the  *)
(* state bag its steps share, the objects it handles on the XenServer pool *)
(* and on the local disk, and the step runner that drives it.              *)
(*                                                                         *)
(* The runner is multistep.BasicRunner of the packer SDK, seen through its *)
(* use in iso/builder.go and xva/builder.go.  It runs the steps in order;  *)
(* a step that was run has its Cleanup called when the run is over, last   *)
(* step first, also when the step itself failed.  Three processes touch    *)
(* the state of a build: the builder's goroutine (runner and steps), the   *)
(* packer core that may cancel the context at any moment together with the *)
(* goroutine of the runner that writes the cancelled flag, and the guest.  *)
(***************************************************************************)
EXTENDS Naturals, Sequences, FiniteSets

CONSTANTS
    Configs,        \* the configurations a build may be started with
    Pipeline,       \* Pipeline[c] is the sequence of steps Builder.Run builds for c
    Disks,          \* the disks of config.Disks, as VDIs
    MaxFaults       \* bound: calls to XAPI, the guest or the disk that fail in one build

MediaKeys == {"cd", "floppy", "iso", "isoname", "tools"}
Uploads == {"cd", "floppy", "iso"}
Library == {"library_iso", "library_tools"}
Vdis == Uploads \cup Library \cup Disks \cup {"clone_disk"}
OldTemplates == {"old1", "old2"}

(* The state bag's plain entries.  A media key k stands for "<k>_vdi_uuid" *)
(* and is kept apart, in media, because its value matters.                 *)
BagKeys == {"cd_path", "floppy_path", "iso_path", "http_port", "existing_templates",
            "instance_uuid", "ssh_address", "instance_ssh_address",
            "local_ssh_port", "error", "halted", "cancelled"}

Config == [builder : {"iso", "xva"},
           keep : {"always", "never", "on_success"},
           force : BOOLEAN,              \* packer build -force
           skipTemplate : BOOLEAN,       \* skip_set_template
           isoName : BOOLEAN,            \* iso_name given, else iso_url(s)
           tools : BOOLEAN,              \* tools_iso_name given
           cd : BOOLEAN,                 \* cd_files given
           floppy : BOOLEAN,             \* floppy_files given
           format : {"xva", "none"},     \* none: nothing is exported
           library : SUBSET Library,     \* VDIs that are in the pool before the build
           oldTemplates : SUBSET OldTemplates,
           sourcePath : BOOLEAN,         \* source_path given, else clone_template
           templateDisk : BOOLEAN]       \* the clone template has a disk of its own

PlainOps == {"StepDownload", "StepCreateCD", "StepCreateFloppy", "StepHTTPServer",
             "StepPrepareOutputDir", "StepGetVmTemplate", "stepImportInstance",
             "StepStartVmPaused",
             "StepSetVmHostSshAddress", "StepBootWait", "StepTypeBootCommand",
             "StepWaitForIP", "StepForwardPortOverSSH", "StepConnect",
             "StepProvision", "StepShutdown", "StepCleanUpTemplate",
             "StepSetVmToTemplate", "StepExport"}

Step == [op : PlainOps, arg : {"none"}]
        \cup [op : {"StepUploadVdi"}, arg : Uploads]
        \cup [op : {"StepFindOrUploadVdi"}, arg : {"iso"}]
        \cup [op : {"StepFindVdi"}, arg : {"isoname", "tools"}]
        \cup [op : {"StepCreateInstance"}, arg : {"new_disks", "preinstalled"}]
        \cup [op : {"StepAttachVdi", "StepDetachVdi"}, arg : MediaKeys]

ASSUME ConfigAssumption == Configs \subseteq Config
ASSUME FaultAssumption == MaxFaults \in Nat
ASSUME DisksAssumption ==
    Disks \cap (Uploads \cup Library \cup {"clone_disk", "vm", "none", "cleared"}) = {}
ASSUME PipelineAssumption == Pipeline \in [Configs -> Seq(Step)]

(* An ISO is downloaded only when no iso_name is given.                    *)
DownloadsByUrl(c, steps) ==
    c.isoName => \A i \in DOMAIN steps : steps[i].op # "StepDownload"
ASSUME DownloadAssumption == \A c \in Configs : DownloadsByUrl(c, Pipeline[c])

VARIABLES
    cfg,            \* the configuration, fixed by Prepare
    phase,          \* "run": the runner's loop; "cleanup": its deferred calls; "returned"
    ran,            \* how many steps have been run and not been cleaned up
    running,        \* Run of step number ran has not returned
    ctxDone,        \* the context is cancelled
    keys,           \* the plain keys that are in the state bag
    media,          \* media[k]: the VDI "<k>_vdi_uuid" names, "none" or "cleared"
    listed,         \* the value of "existing_templates"
    attachRef,      \* the media keys k whose StepAttachVdi has set its field vdi
    vm,             \* the build's VM: power state, "absent" or "destroyed"
    isTemplate,     \* its is_a_template field
    vdis,           \* the VDIs that exist
    vbds,           \* vbds[v]: how many VBDs of the VM hold VDI v
    templates,      \* the templates of earlier builds that exist
    outputDir,      \* "absent", "previous" (an earlier build's files) or "fresh"
    exported,       \* the exported file: "none", "broken" or "complete"
    result,         \* what Builder.Run returned, "none" before
    faults,         \* history: calls that have failed
    reported,       \* history: objects a ui.Error said could not be removed or traced
    lateMark,       \* history: the first flag was written during the cleanup
    provisioned     \* history: StepProvision has returned ActionContinue

control == <<cfg, phase, ran, running, ctxDone, result, lateMark, provisioned>>
bag == <<media, listed, attachRef>>
machine == <<vm, isTemplate>>
storage == <<vdis, vbds>>
pool == <<vm, isTemplate, vdis, vbds, templates>>
local == <<outputDir, exported>>
vars == <<cfg, phase, ran, running, ctxDone, keys, media, listed, attachRef, vm,
          isTemplate, vdis, vbds, templates, outputDir, exported, result, faults,
          reported, lateMark, provisioned>>

Steps == Pipeline[cfg]
Current == Steps[ran]
Executing(op) == phase = "run" /\ running /\ Current.op = op
Unwinding(op) == phase = "cleanup" /\ ran > 0 /\ Current.op = op

Live == vm \in {"paused", "running"}
Exists == vm \in {"halted", "paused", "running"}

(* Careless forms of ShouldKeepVM: "always" forgotten, on_success inverted.*)
KeepOnSuccessOnly == cfg.keep = "on_success" /\ {"cancelled", "halted"} \cap keys = {}
KeepOnFailure ==
    \/ cfg.keep = "always"
    \/ cfg.keep = "on_success" /\ {"cancelled", "halted"} \cap keys # {}

(* Whether a cleanup leaves the VM and its media alone.                    *)
ShouldKeepVM ==
    \/ cfg.keep = "always"
    \/ cfg.keep = "on_success" /\ {"cancelled", "halted"} \cap keys = {}

-----------------------------------------------------------------------------
(* How a step's Run ends: what the runner does with its action, the keys   *)
(* ks it has put, and whether a call failed on the way.                    *)

Ends(ks, next) ==
    /\ keys' = keys \cup ks
    /\ running' = FALSE
    /\ phase' = next
    /\ UNCHANGED <<cfg, ran, ctxDone, result, lateMark>>

Proceeds(ks) ==
    /\ Ends(ks, IF "cancelled" \in keys THEN "cleanup" ELSE "run")
    /\ provisioned' = (provisioned \/ Current.op = "StepProvision")

Halts(ks) ==
    /\ Ends(IF "cancelled" \in keys THEN ks ELSE ks \cup {"halted"}, "cleanup")
    /\ UNCHANGED provisioned

NoFault == UNCHANGED faults
Fault == faults < MaxFaults /\ faults' = faults + 1

Fails(ks) == Fault /\ Halts(ks)
Succeeds(ks) == NoFault /\ Proceeds(ks)

(* InterruptibleWait saw the cancelled flag.                               *)
Interrupted(ks) == "cancelled" \in keys /\ NoFault /\ Halts(ks)

(* The end of a step's Cleanup: the runner turns to the step before it.    *)
CleanedUp ==
    /\ ran' = ran - 1
    /\ UNCHANGED <<cfg, phase, running, ctxDone, result, lateMark, provisioned, keys,
                   listed, attachRef, templates>>

-----------------------------------------------------------------------------
(* The runner's own steps.                                                 *)

Stays == UNCHANGED <<pool, local, bag, cfg, faults, reported, provisioned>>

(* Careless forms of the runner's loop: the context is not looked at, or   *)
(* looked at without leaving the loop.                                     *)
StartAnyway ==
    /\ phase = "run" /\ ~running /\ ran < Len(Steps)
    /\ ran' = ran + 1
    /\ running' = TRUE
    /\ Stays /\ UNCHANGED <<phase, ctxDone, keys, result, lateMark>>
FlagWithoutBreak ==
    /\ phase = "run" /\ ~running /\ ran < Len(Steps) /\ ctxDone
    /\ keys' = keys \cup {"cancelled"}
    /\ Stays /\ UNCHANGED <<phase, ran, running, ctxDone, result, lateMark>>

StartStep ==
    /\ phase = "run" /\ ~running /\ ran < Len(Steps) /\ ~ctxDone
    /\ ran' = ran + 1
    /\ running' = TRUE
    /\ Stays /\ UNCHANGED <<phase, ctxDone, keys, result, lateMark>>

BreakOnCancel ==
    /\ phase = "run" /\ ~running /\ ran < Len(Steps) /\ ctxDone
    /\ keys' = keys \cup {"cancelled"}
    /\ phase' = "cleanup"
    /\ Stays /\ UNCHANGED <<ran, running, ctxDone, result, lateMark>>

AllStepsRan ==
    /\ phase = "run" /\ ~running /\ ran = Len(Steps)
    /\ phase' = "cleanup"
    /\ Stays /\ UNCHANGED <<ran, running, ctxDone, keys, result, lateMark>>

(* The packer core cancels the build.                                      *)
Cancel ==
    /\ phase # "returned" /\ ~ctxDone
    /\ ctxDone' = TRUE
    /\ Stays /\ UNCHANGED <<phase, ran, running, keys, result, lateMark>>

(* The runner's goroutine has seen it and writes the flag, whatever the    *)
(* builder is doing by then.                                               *)
MarkCancelled ==
    /\ phase # "returned" /\ ctxDone /\ "cancelled" \notin keys
    /\ keys' = keys \cup {"cancelled"}
    /\ lateMark' = (lateMark \/ (phase = "cleanup" /\ "halted" \notin keys))
    /\ Stays /\ UNCHANGED <<phase, ran, running, ctxDone, result>>

(* A careless form of Outcome: a halted build passes for a good one.       *)
OutcomeUnhalted ==
    IF "error" \in keys THEN "error"
    ELSE IF "cancelled" \in keys THEN "cancelled" ELSE "artifact"

(* What Builder.Run makes of the state bag when the runner is through.     *)
Outcome ==
    IF "error" \in keys THEN "error"
    ELSE IF "cancelled" \in keys THEN "cancelled"
    ELSE IF "halted" \in keys THEN "halted"
    ELSE "artifact"

BuilderReturns ==
    /\ phase = "cleanup" /\ ran = 0
    /\ phase' = "returned"
    /\ result' = Outcome
    /\ Stays /\ UNCHANGED <<ran, running, ctxDone, keys, lateMark>>

(* The guest powers itself off: an installer that ends so, a provisioner   *)
(* that does, or the operator.                                             *)
GuestHalts ==
    /\ phase # "returned" /\ vm = "running"
    /\ vm' = "halted"
    /\ UNCHANGED <<control, keys, bag, isTemplate, storage, templates, local,
                   faults, reported>>

=============================================================================

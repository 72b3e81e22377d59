----------------------------- MODULE Pipelines -----------------------------
(***************************************************************************)
(* The steps Builder.Run puts together, as functions of the configuration: *)
(* IsoPipeline for the xenserver-iso builder, XvaPipeline for the          *)
(* xenserver-xva builder.                                                  *)
(***************************************************************************)
EXTENDS Sequences

Plain(op) == [op |-> op, arg |-> "none"]
Media(op, k) == [op |-> op, arg |-> k]

(* What both builders do first on the machine packer runs on.              *)
LocalSteps == <<Plain("StepPrepareOutputDir"), Plain("StepCreateCD"),
                Plain("StepCreateFloppy"), Plain("StepHTTPServer")>>

(* What both builders do between the attached media and the shutdown.      *)
GuestSteps == <<Plain("StepStartVmPaused"), Plain("StepSetVmHostSshAddress"),
                Plain("StepBootWait"), Plain("StepTypeBootCommand"),
                Plain("StepWaitForIP"), Plain("StepForwardPortOverSSH"),
                Plain("StepConnect"), Plain("StepProvision"), Plain("StepShutdown")>>

IsoMediaSteps == <<Media("StepUploadVdi", "cd"), Media("StepUploadVdi", "floppy"),
                   Media("StepFindOrUploadVdi", "iso"), Media("StepFindVdi", "tools"),
                   Media("StepFindVdi", "isoname")>>

IsoAttachSteps == <<Media("StepAttachVdi", "floppy"), Media("StepAttachVdi", "iso"),
                    Media("StepAttachVdi", "isoname"), Media("StepAttachVdi", "tools"),
                    Media("StepAttachVdi", "cd")>>

IsoDetachSteps == <<Media("StepDetachVdi", "iso"), Media("StepDetachVdi", "isoname"),
                    Media("StepDetachVdi", "tools"), Media("StepDetachVdi", "cd"),
                    Media("StepDetachVdi", "floppy")>>

IsoDownloadSteps(c) == IF c.isoName THEN <<>> ELSE <<Plain("StepDownload")>>

IsoTemplateSteps(c) ==
    IF c.skipTemplate THEN <<>>
    ELSE <<Plain("StepCleanUpTemplate"), Plain("StepSetVmToTemplate")>>

IsoPipeline(c) ==
    IsoDownloadSteps(c) \o LocalSteps \o IsoMediaSteps
    \o <<Plain("StepGetVmTemplate"), Media("StepCreateInstance", "new_disks")>>
    \o IsoAttachSteps \o GuestSteps \o IsoTemplateSteps(c) \o IsoDetachSteps
    \o <<Plain("StepExport")>>

XvaPipeline ==
    LocalSteps
    \o <<Media("StepUploadVdi", "cd"), Media("StepUploadVdi", "floppy"),
         Media("StepFindVdi", "tools"), Media("StepCreateInstance", "preinstalled"),
         Plain("stepImportInstance"),
         Media("StepAttachVdi", "floppy"), Media("StepAttachVdi", "tools"),
         Media("StepAttachVdi", "cd")>>
    \o GuestSteps
    \o <<Plain("StepSetVmToTemplate"), Media("StepDetachVdi", "tools"),
         Media("StepDetachVdi", "cd"), Media("StepDetachVdi", "floppy"),
         Plain("StepExport")>>

PipelineOf(c) == IF c.builder = "iso" THEN IsoPipeline(c) ELSE XvaPipeline

=============================================================================
